--------------------------- MODULE ToFSensorProofs ---------------------------
(* Theorems about ToFSensor, for a ring of any capacity, packets of any       *)
(* length and data that may look like a header anywhere.                     *)
EXTENDS ToFSensor, Integers, SequenceTheorems, TLAPS

-----------------------------------------------------------------------------
(* The ring and the stream.                                                  *)

LEMMA AfterSlot ==
    ASSUME NEW slot \in Slots
    PROVE  /\ After(slot) = IF slot = CAPACITY - 1 THEN 0 ELSE slot + 1
           /\ After(slot) \in Slots /\ Before(After(slot)) = slot
<1>1. CAPACITY \in Nat /\ CAPACITY > 1 /\ slot \in 0 .. CAPACITY - 1
  BY ToFAssumption DEF Slots
<1>2. After(slot) = IF slot = CAPACITY - 1 THEN 0 ELSE slot + 1
  BY <1>1 DEF After
<1>3. Before(After(slot)) = slot
  <2>1. CASE slot = CAPACITY - 1
    <3>1. After(slot) = 0
      BY <1>2, <2>1
    <3> QED
      BY <1>1, <2>1, <3>1 DEF Before
  <2>2. CASE slot # CAPACITY - 1
    <3>1. After(slot) = slot + 1
      BY <1>2, <2>2
    <3>2. Before(After(slot)) = (CAPACITY * 1 + slot) % CAPACITY
      BY <1>1, <3>1 DEF Before
    <3> QED
      BY <1>1, <3>2
  <2> QED
    BY <2>1, <2>2
<1> QED
  BY <1>1, <1>2, <1>3 DEF Slots

LEMMA BeforeSlot ==
    ASSUME NEW slot \in Slots
    PROVE  Before(slot) \in Slots /\ After(Before(slot)) = slot
<1>1. CAPACITY \in Nat /\ CAPACITY > 1 /\ slot \in 0 .. CAPACITY - 1
  BY ToFAssumption DEF Slots
<1>2. Before(slot) = IF slot = 0 THEN CAPACITY - 1 ELSE slot - 1
  <2>1. CASE slot = 0
    BY <1>1, <2>1 DEF Before
  <2>2. CASE slot # 0
    <3>1. Before(slot) = (CAPACITY * 1 + (slot - 1)) % CAPACITY
      BY <1>1 DEF Before
    <3> QED
      BY <1>1, <2>2, <3>1
  <2> QED
    BY <2>1, <2>2
<1>3. Before(slot) \in Slots
  BY <1>1, <1>2 DEF Slots
<1> QED
  BY <1>1, <1>2, <1>3, AfterSlot

\* A place is the start of its packet plus an offset in it.
LEMMA PlaceOfPacket ==
    ASSUME NEW number \in 0 .. PACKETS - 1, NEW offset \in 0 .. LENGTH - 1
    PROVE  number * LENGTH + offset \in Places
<1>1. LENGTH \in Nat \ {0} /\ PACKETS \in Nat \ {0}
  BY ToFAssumption
<1>2. (number + 1) * LENGTH <= PACKETS * LENGTH
  BY <1>1, SMTT(30)
<1> QED
  BY <1>1, <1>2, SMTT(30) DEF Places

\* The place of a true header is that of its packet.
LEMMA PacketOfPlace ==
    ASSUME NEW place \in Places
    PROVE  /\ place \div LENGTH \in 0 .. PACKETS - 1
           /\ place % LENGTH = 0 => place = (place \div LENGTH) * LENGTH
<1> DEFINE number == place \div LENGTH
<1>1. LENGTH \in Nat \ {0} /\ PACKETS \in Nat \ {0} /\ place \in 0 .. LENGTH * PACKETS - 1
  BY ToFAssumption DEF Places
<1>2. number \in Nat /\ LENGTH * number <= place /\ place < LENGTH * PACKETS
  BY <1>1, SMTT(30)
<1>3. place % LENGTH = 0 => place = (place \div LENGTH) * LENGTH
  BY <1>1, SMTT(30)
<1> HIDE DEF number
<1>4. number < PACKETS
  <2>1. LENGTH * number \in Nat /\ LENGTH * PACKETS \in Nat /\ LENGTH * number < LENGTH * PACKETS
    BY <1>1, <1>2, SMTT(30)
  <2> QED
    BY <1>1, <1>2, <2>1, SMTT(30)
<1> QED
  BY <1>1, <1>2, <1>3, <1>4 DEF number

\* The header of a packet starts it, and after the last byte comes the next packet.
LEMMA PacketStarts ==
    ASSUME NEW number \in 0 .. PACKETS - 1
    PROVE  /\ number * LENGTH \in Places
           /\ (number * LENGTH) % LENGTH = 0
           /\ (number * LENGTH) \div LENGTH = number
           /\ (number * LENGTH + LENGTH) % (LENGTH * PACKETS) = ((number + 1) % PACKETS) * LENGTH
<1>1. LENGTH \in Nat \ {0} /\ PACKETS \in Nat \ {0} /\ number \in Nat
  BY ToFAssumption
<1>2. /\ (LENGTH * number + 0) % LENGTH = 0 /\ (LENGTH * number + 0) \div LENGTH = number
      /\ LENGTH * number + 0 = number * LENGTH
  BY <1>1, SMTT(30)
<1>3. (number * LENGTH + LENGTH) % (LENGTH * PACKETS) = ((number + 1) % PACKETS) * LENGTH
  <2>1. CASE number + 1 = PACKETS
    BY <1>1, <2>1, SMTT(30)
  <2>2. CASE number + 1 # PACKETS
    <3>1. number + 1 < PACKETS /\ (number + 1) % PACKETS = number + 1
      BY <1>1, <2>2
    <3>2. (number + 1) * LENGTH < PACKETS * LENGTH
      BY <1>1, <3>1, SMTT(30)
    <3>3. /\ (number + 1) * LENGTH = number * LENGTH + LENGTH
          /\ LENGTH * PACKETS = PACKETS * LENGTH
          /\ PACKETS * LENGTH \in Nat /\ number * LENGTH + LENGTH \in Nat
      BY <1>1, SMTT(30)
    <3>4. \A n, m \in Nat : n < m => n % m = n
      OBVIOUS
    <3> QED
      BY ONLY <3>1, <3>2, <3>3, <3>4
  <2> QED
    BY <2>1, <2>2
<1>4. number * LENGTH + 0 \in Places
  BY <1>1, PlaceOfPacket, ToFAssumption
<1> QED
  BY <1>1, <1>2, <1>3, <1>4

LEMMA Stream == LENGTH * PACKETS \in Nat /\ LENGTH * PACKETS > LENGTH
<1>1. LENGTH \in Nat /\ LENGTH > 1 /\ PACKETS \in Nat /\ PACKETS > 1
  BY ToFAssumption
<1> QED
  BY <1>1, SMTT(30)

LEMMA FollowsPlace ==
    ASSUME NEW place \in Nat
    PROVE  place % (LENGTH * PACKETS) \in Places /\ Follows(place) \in Places
<1> DEFINE total == LENGTH * PACKETS
<1>1. total \in Nat \ {0}
  BY Stream, ToFAssumption
<1> HIDE DEF total
<1>2. \A n \in Nat : n % total \in 0 .. total - 1
  BY <1>1
<1> QED
  BY <1>2 DEF Follows, Places, total

\* So many bytes on, and one more.
LEMMA OneMore ==
    ASSUME NEW place \in Places, NEW n \in 0 .. LENGTH
    PROVE  Follows((place + n) % (LENGTH * PACKETS)) = (place + n + 1) % (LENGTH * PACKETS)
<1> DEFINE total == LENGTH * PACKETS
<1>1. total \in Nat /\ total > LENGTH /\ place \in 0 .. total - 1 /\ LENGTH \in Nat
  BY Stream, ToFAssumption DEF Places
<1> HIDE DEF total
<1>2. \A k \in Nat : k < total + total => k % total = IF k < total THEN k ELSE k - total
  BY <1>1, SMTT(30)
<1>3. (place + n) % total = IF place + n < total THEN place + n ELSE place + n - total
  BY <1>1, <1>2
<1>4. CASE place + n + 1 < total + total
  <2>1. (place + n + 1) % total
            = IF place + n + 1 < total THEN place + n + 1 ELSE place + n + 1 - total
    BY <1>1, <1>2, <1>4
  <2>2. /\ ((place + n) % total) + 1 \in Nat /\ ((place + n) % total) + 1 < total + total
    BY <1>1, <1>3
  <2> QED
    BY <1>1, <1>2, <1>3, <2>1, <2>2 DEF Follows, total
<1> QED
  BY <1>1, <1>4

-----------------------------------------------------------------------------
(* The invariant.                                                            *)

\* The slots of the ring that hold a byte.
Holds(slot) == IF head <= tail THEN head <= slot /\ slot < tail ELSE head <= slot \/ slot < tail

\* The place of the byte in a slot, or of the one to come.
PlaceAt(slot) == IF slot = tail THEN next ELSE buffer[slot].place

\* The ring holds what the sensor sent last, without a gap; every true header is
\* one; the stamp of a slot is that of the header in it.
RingInv ==
    \A slot \in Slots :
        /\ Holds(slot) => /\ PlaceAt(After(slot)) = Follows(buffer[slot].place)
                          /\ buffer[slot].place % LENGTH = 0 => buffer[slot].header
        /\ buffer[slot].header => stamps[slot] = buffer[slot].place

PcInv ==
    /\ pc = "boot" => packet = <<>> /\ latest_data = NoSample
    /\ pc = "stamp" => /\ processed < MAX_BYTES
                       /\ Len(packet) = 1
    /\ packet # <<>> => packet[1].header

\* Unless the ring overflows: the bytes taken follow each other and those still
\* in the ring, and the first has its own stamp.
PacketInv ==
    packet # <<>> =>
        /\ \A i \in 1 .. Len(packet) :
               packet[i].place = (packet[1].place + i - 1) % (LENGTH * PACKETS)
        /\ PlaceAt(head) = (packet[1].place + Len(packet)) % (LENGTH * PACKETS)
        /\ IF pc = "stamp" THEN buffer[Before(head)] = packet[1] ELSE start = packet[1].place

\* And after a sample the next packet is the one that follows.
InStep ==
    latest_data # NoSample =>
        /\ latest_data.number \in 0 .. PACKETS - 1
        /\ latest_data.received = latest_data.number * LENGTH
        /\ LET following == ((latest_data.number + 1) % PACKETS) * LENGTH
           IN  (IF packet = <<>> THEN PlaceAt(head) ELSE packet[1].place) = following

IInv ==
    /\ TypeOK
    /\ RingInv
    /\ PcInv
    /\ ~late => PacketInv /\ InStep
    /\ KeptIsNewest

LEMMA Constants ==
    /\ CAPACITY \in Nat /\ CAPACITY > 1 /\ LENGTH \in Nat /\ LENGTH > 1
    /\ MAX_BYTES \in Nat /\ MAX_BYTES > 0 /\ PACKETS \in Nat /\ PACKETS > 1
    /\ 0 \in Slots /\ 0 \in Places /\ NoSample \in Samples
<1>1. 0 \in Slots
  BY ToFAssumption DEF Slots
<1>2. 0 \in Places
  BY Stream, ToFAssumption DEF Places
<1> QED
  BY <1>1, <1>2, ToFAssumption DEF NoSample, Samples

LEMMA InitIInv == Init => IInv
<1> SUFFICES ASSUME Init PROVE IInv
  OBVIOUS
<1>1. TypeOK
  <2>1. next \in Places
    BY Stream, Constants DEF Init, Places
  <2>2. [place |-> 0, header |-> FALSE] \in Bytes
    BY Constants DEF Bytes
  <2>3. packet \in Seq(Bytes) /\ Len(packet) < LENGTH
    BY EmptySeq, Constants DEF Init
  <2>4. buffer \in [Slots -> Bytes] /\ stamps \in [Slots -> Places] /\ processed \in 0 .. MAX_BYTES
    BY <2>2, Constants DEF Init
  <2> QED
    BY <2>1, <2>3, <2>4, Constants DEF Init, TypeOK
<1>2. RingInv
  <2> SUFFICES ASSUME NEW slot \in Slots
               PROVE  ~Holds(slot) /\ ~buffer[slot].header
    BY DEF RingInv
  <2> QED
    BY Constants DEF Init, Holds, Slots
<1> QED
  BY <1>1, <1>2 DEF Init, IInv, PcInv, PacketInv, InStep, KeptIsNewest

-----------------------------------------------------------------------------
(* The interrupt.                                                            *)

\* A byte goes into the ring.
LEMMA PushRing ==
    ASSUME TypeOK, RingInv, ToF_RxHandler
    PROVE  /\ next' \in Places /\ buffer' \in [Slots -> Bytes] /\ stamps' \in [Slots -> Places]
           /\ head' \in Slots /\ tail' \in Slots
           /\ RingInv'
           /\ ~Full => /\ PlaceAt(head)' = PlaceAt(head)
                       /\ buffer'[Before(head)] = buffer[Before(head)]
<1>1. /\ next \in Places /\ buffer \in [Slots -> Bytes] /\ stamps \in [Slots -> Places]
      /\ head \in Slots /\ tail \in Slots
      /\ next' = Follows(next) /\ tail' = After(tail)
      /\ head' = IF Full THEN After(head) ELSE head
  BY DEF TypeOK, ToF_RxHandler, Full
<1>2. PICK header \in HeaderValues(next) :
          /\ buffer' = [buffer EXCEPT ![tail] = [place |-> next, header |-> header]]
          /\ stamps' = IF header THEN [stamps EXCEPT ![tail] = next] ELSE stamps
  BY DEF ToF_RxHandler
<1>3. header \in BOOLEAN /\ (next % LENGTH = 0 => header)
  <2>1. next % LENGTH \in LOOKALIKES => next % LENGTH # 0
    BY ToFAssumption
  <2>2. CASE next % LENGTH = 0
    BY <2>1, <2>2 DEF HeaderValues
  <2>3. CASE next % LENGTH # 0 /\ next % LENGTH \in LOOKALIKES /\ ~late
    BY <2>3 DEF HeaderValues
  <2>4. CASE next % LENGTH # 0 /\ ~(next % LENGTH \in LOOKALIKES /\ ~late)
    BY <2>4 DEF HeaderValues
  <2> QED
    BY <2>2, <2>3, <2>4
<1>4. next \in Nat /\ next' \in Places
  BY <1>1, FollowsPlace, Stream DEF Places
<1>5. buffer' \in [Slots -> Bytes] /\ stamps' \in [Slots -> Places]
  BY <1>1, <1>2, <1>3 DEF Bytes
<1>6. /\ head' \in Slots /\ tail' \in Slots
      /\ tail' = IF tail = CAPACITY - 1 THEN 0 ELSE tail + 1
      /\ After(head) = IF head = CAPACITY - 1 THEN 0 ELSE head + 1
  BY <1>1, AfterSlot
<1>7. \A slot \in Slots :
          buffer'[slot] = IF slot = tail THEN [place |-> next, header |-> header] ELSE buffer[slot]
  BY <1>1, <1>2
<1>8. CAPACITY \in Nat /\ CAPACITY > 1 /\ head \in 0 .. CAPACITY - 1 /\ tail \in 0 .. CAPACITY - 1
  BY <1>1, Constants DEF Slots
<1>9. ASSUME NEW slot \in Slots
      PROVE  /\ Holds(slot)' => /\ PlaceAt(After(slot))' = Follows(buffer'[slot].place)
                                /\ buffer'[slot].place % LENGTH = 0 => buffer'[slot].header
             /\ buffer'[slot].header => stamps'[slot] = buffer'[slot].place
  <2>1. CASE slot = tail
    <3>1. buffer'[slot].place = next /\ buffer'[slot].header = header
      BY <1>7, <2>1
    <3>2. PlaceAt(After(slot))' = Follows(next)
      BY <1>1, <2>1 DEF PlaceAt
    <3>3. header => stamps'[slot] = next
      BY <1>1, <1>2, <2>1
    <3> QED
      BY <1>3, <3>1, <3>2, <3>3
  <2>2. CASE slot # tail
    <3>1. buffer'[slot] = buffer[slot] /\ stamps'[slot] = stamps[slot]
      BY <1>1, <1>2, <1>7, <2>2
    <3>2. After(slot) \in Slots /\ After(slot) = IF slot = CAPACITY - 1 THEN 0 ELSE slot + 1
      BY AfterSlot
    <3>3. Holds(slot)' => Holds(slot) /\ After(slot) # tail'
      BY <1>1, <1>6, <1>8, <2>2, <3>2 DEF Holds, Full, Slots
    <3>4. After(slot) # tail' => PlaceAt(After(slot))' = PlaceAt(After(slot))
      BY <1>7, <3>2 DEF PlaceAt
    <3> QED
      BY <3>1, <3>3, <3>4 DEF RingInv
  <2> QED
    BY <2>1, <2>2
<1>10. RingInv'
  BY <1>9 DEF RingInv
<1>11. ASSUME ~Full
       PROVE  /\ PlaceAt(head)' = PlaceAt(head)
              /\ buffer'[Before(head)] = buffer[Before(head)]
  <2>1. head' = head /\ head # tail'
    BY <1>1, <1>11 DEF Full
  <2>2. PlaceAt(head)' = PlaceAt(head)
    BY <1>1, <1>7, <2>1 DEF PlaceAt
  <2>3. Before(head) \in Slots /\ Before(head) # tail
    BY <1>1, <1>11, BeforeSlot DEF Full
  <2> QED
    BY <1>7, <2>2, <2>3
<1> QED
  BY <1>4, <1>5, <1>6, <1>10, <1>11

\* A push that overflows the ring of a running loop is one too late; no other
\* disturbs a packet.
LEMMA PushIInv == ASSUME IInv, ToF_RxHandler PROVE IInv'
<1>1. UNCHANGED <<pc, processed, packet, start, latest_data, data_ready, kept>>
  BY DEF ToF_RxHandler, assembly, sample
<1>2. late' = (late \/ (Full /\ pc # "boot"))
  BY DEF ToF_RxHandler, Full
<1>3. /\ TypeOK /\ RingInv /\ PcInv /\ (~late => PacketInv /\ InStep) /\ KeptIsNewest
  BY DEF IInv
<1>4. TypeOK' /\ RingInv'
  BY <1>1, <1>2, <1>3, PushRing DEF TypeOK
<1>5. PcInv' /\ KeptIsNewest'
  BY <1>1, <1>3 DEF PcInv, KeptIsNewest
<1>6. ASSUME ~late' PROVE PacketInv' /\ InStep'
  <2>1. CASE pc = "boot"
    BY <1>1, <1>3, <2>1 DEF PcInv, PacketInv, InStep
  <2>2. CASE pc # "boot"
    <3>1. ~Full /\ ~late
      BY <1>2, <1>6, <2>2
    <3>2. /\ PlaceAt(head)' = PlaceAt(head)
          /\ buffer'[Before(head)] = buffer[Before(head)]
          /\ head' = head
      BY <1>3, <3>1, PushRing DEF ToF_RxHandler, Full
    <3>3. PacketInv'
      BY <1>1, <1>3, <3>1, <3>2 DEF PacketInv
    <3>4. InStep'
      BY <1>1, <1>3, <3>1, <3>2 DEF InStep
    <3> QED
      BY <3>3, <3>4
  <2> QED
    BY <2>1, <2>2
<1> QED
  BY <1>4, <1>5, <1>6 DEF IInv

-----------------------------------------------------------------------------
(* The loop.                                                                 *)

\* A byte is taken out of the ring: the one that is due.
LEMMA PopRing ==
    ASSUME TypeOK, RingInv, Pop
    PROVE  /\ head' \in Slots /\ RingInv'
           /\ buffer[head] \in Bytes /\ buffer[head].place \in Places
           /\ buffer[head].place = PlaceAt(head)
           /\ buffer[head].place % LENGTH = 0 => buffer[head].header
           /\ PlaceAt(head)' = Follows(buffer[head].place)
           /\ buffer'[Before(head')] = buffer[head]
<1>1. /\ buffer \in [Slots -> Bytes] /\ head \in Slots /\ tail \in Slots
      /\ head # tail /\ head' = After(head) /\ UNCHANGED <<next, buffer, tail, stamps>>
  BY DEF TypeOK, Pop, Empty
<1>2. /\ head' \in Slots /\ head' = (IF head = CAPACITY - 1 THEN 0 ELSE head + 1)
      /\ Before(head') = head
  BY <1>1, AfterSlot
<1>3. CAPACITY \in Nat /\ CAPACITY > 1 /\ head \in 0 .. CAPACITY - 1 /\ tail \in 0 .. CAPACITY - 1
  BY <1>1, Constants DEF Slots
<1>4. Holds(head)
  BY <1>1, <1>3 DEF Holds
<1>5. \A slot \in Slots : Holds(slot)' => Holds(slot)
  BY <1>1, <1>2, <1>3 DEF Holds, Slots
<1>6. RingInv'
  <2> SUFFICES ASSUME NEW slot \in Slots
               PROVE  /\ Holds(slot)' =>
                             /\ PlaceAt(After(slot))' = Follows(buffer'[slot].place)
                             /\ buffer'[slot].place % LENGTH = 0 => buffer'[slot].header
                      /\ buffer'[slot].header => stamps'[slot] = buffer'[slot].place
    BY DEF RingInv
  <2>1. PlaceAt(After(slot))' = PlaceAt(After(slot))
    BY <1>1 DEF PlaceAt
  <2> QED
    BY <1>1, <1>5, <2>1 DEF RingInv
<1>7. buffer[head].place = PlaceAt(head)
  BY <1>1 DEF PlaceAt
<1>8. PlaceAt(head)' = Follows(buffer[head].place)
  <2>1. PlaceAt(head)' = PlaceAt(After(head))
    BY <1>1 DEF PlaceAt
  <2> QED
    BY <1>1, <1>4, <2>1 DEF RingInv
<1>9. buffer[head] \in Bytes /\ buffer[head].place \in Places
  BY <1>1 DEF Bytes
<1> QED
  BY <1>1, <1>2, <1>4, <1>6, <1>7, <1>8, <1>9 DEF RingInv

LEMMA InStream == ASSUME NEW place \in Places PROVE place % (LENGTH * PACKETS) = place
<1> DEFINE total == LENGTH * PACKETS
<1>1. total \in Nat /\ place \in 0 .. total - 1
  BY Stream DEF Places
<1> HIDE DEF total
<1>2. place % total = place
  BY <1>1
<1> QED
  BY <1>2 DEF total

\* What every step of the loop that takes a byte leaves to show.
LEMMA PopIInv ==
    ASSUME IInv, Pop,
           /\ pc' \in {"pop", "stamp"} /\ processed' \in 0 .. MAX_BYTES
           /\ packet' \in Seq(Bytes) /\ Len(packet') < LENGTH
           /\ start' \in Places /\ latest_data' \in Samples /\ data_ready' \in BOOLEAN,
           PcInv', KeptIsNewest', ~late => PacketInv' /\ InStep'
    PROVE  IInv'
<1>1. UNCHANGED <<next, buffer, tail, stamps, kept, late>> /\ TypeOK /\ RingInv
  BY DEF Pop, IInv
<1>2. TypeOK'
  BY <1>1, PopRing DEF TypeOK
<1> QED
  BY <1>1, <1>2, PopRing DEF IInv

LEMMA SkipIInv == ASSUME IInv, SkipByte PROVE IInv'
<1>1. /\ Pop /\ packet = <<>> /\ ~buffer[head].header
      /\ pc = "pop" /\ processed < MAX_BYTES /\ processed' = processed + 1
      /\ UNCHANGED <<pc, packet, start, latest_data, data_ready, kept>>
  BY DEF SkipByte, Pop, assembly, sample
<1>2. TypeOK /\ RingInv /\ PcInv /\ (~late => PacketInv /\ InStep) /\ KeptIsNewest
  BY DEF IInv
<1>3. PcInv' /\ KeptIsNewest' /\ PacketInv'
  BY <1>1, <1>2 DEF PcInv, KeptIsNewest, PacketInv
<1>4. ASSUME ~late PROVE InStep'
  <2> SUFFICES ASSUME latest_data # NoSample PROVE FALSE
    BY <1>1 DEF InStep
  <2>1. /\ latest_data.number \in 0 .. PACKETS - 1
        /\ PlaceAt(head) = ((latest_data.number + 1) % PACKETS) * LENGTH
    BY <1>1, <1>2, <1>4 DEF InStep
  <2>2. (latest_data.number + 1) % PACKETS \in 0 .. PACKETS - 1
    BY <2>1, Constants
  <2>3. PlaceAt(head) % LENGTH = 0
    BY <2>1, <2>2, PacketStarts
  <2> QED
    BY <1>1, <1>2, <2>3, PopRing
<1>5. processed' \in 0 .. MAX_BYTES
  BY <1>1, <1>2, Constants DEF TypeOK
<1> QED
  BY <1>1, <1>2, <1>3, <1>4, <1>5, PopIInv DEF TypeOK

LEMMA StartIInv == ASSUME IInv, StartPacket PROVE IInv'
<1> DEFINE byte == buffer[head]
<1>1. /\ Pop /\ packet = <<>> /\ byte.header /\ packet' = <<byte>> /\ pc' = "stamp"
      /\ processed < MAX_BYTES
      /\ UNCHANGED <<processed, start, latest_data, data_ready, kept>>
  BY DEF StartPacket, Pop, sample
<1>2. TypeOK /\ RingInv /\ PcInv /\ (~late => PacketInv /\ InStep) /\ KeptIsNewest
  BY DEF IInv
<1>3. /\ byte \in Bytes /\ byte.place \in Places /\ byte.place = PlaceAt(head)
      /\ PlaceAt(head)' = Follows(byte.place) /\ buffer'[Before(head')] = byte
  BY <1>1, <1>2, PopRing
<1> HIDE DEF byte
<1>4. packet' \in Seq(Bytes) /\ Len(packet') = 1 /\ packet'[1] = byte /\ packet' # <<>>
  BY <1>1, <1>3
<1>5. PcInv' /\ KeptIsNewest'
  BY <1>1, <1>2, <1>4 DEF PcInv, KeptIsNewest
<1>6. PacketInv'
  <2>1. byte.place \in Nat
    BY <1>3, Stream DEF Places
  <2>2. byte.place + 1 - 1 = byte.place /\ byte.place % (LENGTH * PACKETS) = byte.place
    BY <1>3, <2>1, InStream
  <2>3. \A i \in 1 .. Len(packet') :
            packet'[i].place = (packet'[1].place + i - 1) % (LENGTH * PACKETS)
    BY <1>4, <2>2
  <2>4. PlaceAt(head)' = (packet'[1].place + Len(packet')) % (LENGTH * PACKETS)
    BY <1>3, <1>4 DEF Follows
  <2> QED
    BY <1>1, <1>3, <1>4, <2>3, <2>4 DEF PacketInv
<1>7. ASSUME ~late PROVE InStep'
  BY <1>1, <1>2, <1>3, <1>4, <1>7 DEF InStep
<1>8. Len(packet') < LENGTH
  BY <1>4, Constants
<1> QED
  BY <1>1, <1>2, <1>4, <1>5, <1>6, <1>7, <1>8, PopIInv DEF TypeOK

LEMMA StampIInv == ASSUME IInv, ReadStamp PROVE IInv'
<1>1. /\ pc = "stamp" /\ start' = stamps[Before(head)] /\ processed' = processed + 1
      /\ pc' = "pop"
      /\ UNCHANGED <<next, buffer, head, tail, stamps, packet, latest_data, data_ready, kept, late>>
  BY DEF ReadStamp, ring, sample
<1>2. TypeOK /\ RingInv /\ PcInv /\ (~late => PacketInv /\ InStep) /\ KeptIsNewest
  BY DEF IInv
<1>3. Before(head) \in Slots
  BY <1>2, BeforeSlot DEF TypeOK
<1>4. TypeOK'
  <2>1. start' \in Places /\ processed' \in 0 .. MAX_BYTES
    BY <1>1, <1>2, <1>3, Constants DEF TypeOK, PcInv
  <2> QED
    BY <1>1, <1>2, <2>1 DEF TypeOK
<1>5. RingInv'
  BY <1>1, <1>2 DEF RingInv, Holds, PlaceAt
<1>6. PcInv' /\ KeptIsNewest'
  BY <1>1, <1>2 DEF PcInv, KeptIsNewest
<1>7. ASSUME ~late PROVE PacketInv' /\ InStep'
  <2>1. PlaceAt(head)' = PlaceAt(head)
    BY <1>1 DEF PlaceAt
  <2>2. packet # <<>> => start' = packet[1].place
    <3> SUFFICES ASSUME packet # <<>> PROVE start' = packet[1].place
      OBVIOUS
    <3>1. buffer[Before(head)] = packet[1] /\ packet[1].header
      BY <1>1, <1>2, <1>7 DEF PacketInv, PcInv
    <3>2. buffer[Before(head)].header =>
              stamps[Before(head)] = buffer[Before(head)].place
      BY <1>2, <1>3 DEF RingInv
    <3> QED
      BY <1>1, <3>1, <3>2
  <2>3. PacketInv'
    BY <1>1, <1>2, <1>7, <2>1, <2>2 DEF PacketInv
  <2>4. InStep'
    BY <1>1, <1>2, <1>7, <2>1 DEF InStep
  <2> QED
    BY <2>3, <2>4
<1> QED
  BY <1>1, <1>4, <1>5, <1>6, <1>7 DEF IInv

\* One more byte of a packet: it follows the last.
LEMMA AppendByte ==
    ASSUME IInv, Pop, packet # <<>>
    PROVE  /\ Len(packet) \in 1 .. LENGTH - 1 /\ packet[1] \in Bytes /\ packet[1].place \in Places
           /\ Append(packet, buffer[head]) \in Seq(Bytes)
           /\ Len(Append(packet, buffer[head])) = Len(packet) + 1
           /\ Append(packet, buffer[head])[1] = packet[1]
           /\ ~late =>
                  /\ \A i \in 1 .. Len(packet) + 1 :
                         Append(packet, buffer[head])[i].place
                             = (packet[1].place + i - 1) % (LENGTH * PACKETS)
                  /\ PlaceAt(head)' = (packet[1].place + Len(packet) + 1) % (LENGTH * PACKETS)
<1> DEFINE byte == buffer[head]
           bytes == Append(packet, byte)
<1>1. /\ TypeOK /\ RingInv /\ PcInv /\ (~late => PacketInv)
      /\ packet \in Seq(Bytes) /\ Len(packet) < LENGTH
  BY DEF IInv, TypeOK
<1>2. /\ byte \in Bytes /\ byte.place = PlaceAt(head) /\ PlaceAt(head)' = Follows(byte.place)
  BY <1>1, PopRing
<1> HIDE DEF byte
<1>3. Len(packet) \in 1 .. LENGTH - 1
  BY <1>1, Constants, EmptySeq
<1>4. packet[1] \in Bytes /\ packet[1].place \in Places
  <2>1. 1 \in 1 .. Len(packet)
    BY <1>3
  <2>2. packet[1] \in Bytes
    BY <1>1, <2>1, ElementOfSeq
  <2> QED
    BY <2>2 DEF Bytes
<1>5. /\ bytes \in Seq(Bytes) /\ Len(bytes) = Len(packet) + 1
      /\ \A i \in 1 .. Len(packet) : bytes[i] = packet[i]
      /\ bytes[Len(packet) + 1] = byte
  BY <1>1, <1>2, AppendProperties
<1> HIDE DEF bytes
<1>6. bytes[1] = packet[1]
  BY <1>3, <1>5
<1>7. ASSUME ~late
      PROVE  /\ \A i \in 1 .. Len(packet) + 1 :
                    bytes[i].place = (packet[1].place + i - 1) % (LENGTH * PACKETS)
             /\ PlaceAt(head)' = (packet[1].place + Len(packet) + 1) % (LENGTH * PACKETS)
  <2>1. byte.place = (packet[1].place + Len(packet)) % (LENGTH * PACKETS)
    BY <1>1, <1>2, <1>7 DEF PacketInv
  <2>2. Len(packet) \in 0 .. LENGTH
    BY <1>3, Constants
  <2>3. PlaceAt(head)' = (packet[1].place + Len(packet) + 1) % (LENGTH * PACKETS)
    BY <1>2, <1>4, <2>1, <2>2, OneMore
  <2>4. ASSUME NEW i \in 1 .. Len(packet) + 1
        PROVE  bytes[i].place = (packet[1].place + i - 1) % (LENGTH * PACKETS)
    <3>1. CASE i = Len(packet) + 1
      <4>1. packet[1].place \in Nat
        BY <1>4, Stream DEF Places
      <4>2. packet[1].place + i - 1 = packet[1].place + Len(packet)
        BY <1>3, <3>1, <4>1
      <4> QED
        BY <1>5, <2>1, <3>1, <4>2
    <3>2. CASE i # Len(packet) + 1
      <4>1. i \in 1 .. Len(packet)
        BY <1>3, <3>2
      <4> QED
        BY <1>1, <1>5, <1>7, <4>1 DEF PacketInv
    <3> QED
      BY <3>1, <3>2
  <2> QED
    BY <2>3, <2>4
<1> QED
  BY <1>3, <1>4, <1>5, <1>6, <1>7 DEF bytes, byte

LEMMA CollectIInv == ASSUME IInv, Collect PROVE IInv'
<1> DEFINE bytes == Append(packet, buffer[head])
<1>1. /\ Pop /\ packet # <<>> /\ Len(packet) < LENGTH - 1 /\ packet' = bytes
      /\ pc = "pop" /\ processed < MAX_BYTES /\ processed' = processed + 1
      /\ UNCHANGED <<pc, start, latest_data, data_ready, kept>>
  BY DEF Collect, Pop, sample
<1>2. TypeOK /\ PcInv /\ (~late => PacketInv /\ InStep) /\ KeptIsNewest
  BY DEF IInv
<1>3. /\ Len(packet) \in 1 .. LENGTH - 1
      /\ bytes \in Seq(Bytes) /\ Len(bytes) = Len(packet) + 1 /\ bytes[1] = packet[1]
      /\ ~late =>
             /\ \A i \in 1 .. Len(packet) + 1 :
                    bytes[i].place = (packet[1].place + i - 1) % (LENGTH * PACKETS)
             /\ PlaceAt(head)' = (packet[1].place + Len(packet) + 1) % (LENGTH * PACKETS)
  BY <1>1, AppendByte
<1>4. packet[1].place \in Nat
  BY <1>1, AppendByte, Stream DEF Places
<1> HIDE DEF bytes
<1>5. bytes # <<>>
  BY <1>3, EmptySeq
<1>6. PcInv' /\ KeptIsNewest'
  BY <1>1, <1>2, <1>3, <1>5 DEF PcInv, KeptIsNewest
<1>7. ASSUME ~late PROVE PacketInv' /\ InStep'
  <2>1. packet[1].place + Len(packet) + 1 = packet[1].place + (Len(packet) + 1)
    BY <1>3, <1>4
  <2>2. PacketInv'
    BY <1>1, <1>2, <1>3, <1>7, <2>1 DEF PacketInv
  <2>3. InStep'
    BY <1>1, <1>2, <1>3, <1>5, <1>7 DEF InStep
  <2> QED
    BY <2>2, <2>3
<1>8. Len(bytes) < LENGTH /\ processed' \in 0 .. MAX_BYTES
  BY <1>1, <1>2, <1>3, Constants DEF TypeOK
<1> QED
  BY <1>1, <1>2, <1>3, <1>6, <1>7, <1>8, PopIInv DEF TypeOK

\* The last byte of a packet: in step, it parses and is the one that follows.
LEMMA LastByte ==
    ASSUME IInv, FinishPacket
    PROVE  /\ packet[1].place \in Places
           /\ Parses(Append(packet, buffer[head])) =>
                  packet[1].place = (packet[1].place \div LENGTH) * LENGTH
           /\ ~late => PlaceAt(head)' = (packet[1].place + LENGTH) % (LENGTH * PACKETS)
           /\ ~late /\ latest_data # NoSample =>
                  /\ Parses(Append(packet, buffer[head]))
                  /\ packet[1].place \div LENGTH = (latest_data.number + 1) % PACKETS
<1> DEFINE bytes == Append(packet, buffer[head])
<1>1. Pop /\ Len(packet) = LENGTH - 1 /\ pc = "pop"
  BY DEF FinishPacket, Pop
<1>2. PcInv /\ (~late => PacketInv /\ InStep) /\ packet \in Seq(Bytes)
  BY DEF IInv, TypeOK
<1>3. packet # <<>>
  BY <1>1, Constants, EmptySeq
<1>4. /\ packet[1].place \in Places
      /\ bytes[1] = packet[1]
      /\ ~late =>
             /\ \A i \in 1 .. Len(packet) + 1 :
                    bytes[i].place = (packet[1].place + i - 1) % (LENGTH * PACKETS)
             /\ PlaceAt(head)' = (packet[1].place + Len(packet) + 1) % (LENGTH * PACKETS)
  BY <1>1, <1>3, AppendByte
<1> HIDE DEF bytes
<1>5. packet[1].place \in Nat /\ Len(packet) + 1 = LENGTH
      /\ packet[1].place + Len(packet) + 1 = packet[1].place + LENGTH
  BY <1>1, <1>4, Stream, Constants DEF Places
<1>6. Parses(bytes) => packet[1].place = (packet[1].place \div LENGTH) * LENGTH
  BY <1>4, PacketOfPlace DEF Parses
<1>7. ASSUME ~late, latest_data # NoSample
      PROVE  /\ Parses(bytes)
             /\ packet[1].place \div LENGTH = (latest_data.number + 1) % PACKETS
  <2> DEFINE following == (latest_data.number + 1) % PACKETS
  <2>1. latest_data.number \in 0 .. PACKETS - 1 /\ packet[1].place = following * LENGTH
    BY <1>2, <1>3, <1>7 DEF InStep
  <2>2. following \in 0 .. PACKETS - 1
    BY <2>1, Constants
  <2> HIDE DEF following
  <2>3. packet[1].place % LENGTH = 0 /\ packet[1].place \div LENGTH = following
    BY <2>1, <2>2, PacketStarts
  <2>4. ASSUME NEW i \in 1 .. LENGTH - 1
        PROVE  bytes[i + 1].place = Follows(bytes[i].place)
    <3>1. i \in 1 .. Len(packet) + 1 /\ i + 1 \in 1 .. Len(packet) + 1 /\ i - 1 \in 0 .. LENGTH
      BY <1>1, Constants
    <3>2. /\ packet[1].place + i - 1 = packet[1].place + (i - 1)
          /\ packet[1].place + (i + 1) - 1 = packet[1].place + (i - 1) + 1
      BY <1>5, Constants
    <3>3. /\ bytes[i].place = (packet[1].place + (i - 1)) % (LENGTH * PACKETS)
          /\ bytes[i + 1].place = (packet[1].place + (i - 1) + 1) % (LENGTH * PACKETS)
      BY <1>4, <1>7, <3>1, <3>2
    <3> QED
      BY <1>4, <3>1, <3>3, OneMore
  <2>5. bytes[1].header
    BY <1>2, <1>3, <1>4 DEF PcInv
  <2>6. Parses(bytes)
    BY <1>4, <2>3, <2>4, <2>5 DEF Parses
  <2> QED
    BY <2>3, <2>6 DEF following
<1> QED
  BY <1>4, <1>5, <1>6, <1>7 DEF bytes

LEMMA FinishIInv == ASSUME IInv, FinishPacket PROVE IInv'
<1> DEFINE parses == Parses(Append(packet, buffer[head]))
           number == packet[1].place \div LENGTH
<1>1. /\ Pop /\ pc = "pop" /\ packet' = <<>>
      /\ processed < MAX_BYTES /\ processed' = processed + 1
      /\ IF parses THEN /\ latest_data' = [number |-> number, received |-> start]
                        /\ data_ready' = TRUE
                   ELSE UNCHANGED <<latest_data, data_ready>>
      /\ Len(packet) = LENGTH - 1
      /\ UNCHANGED <<pc, start, kept>>
  BY DEF FinishPacket, Pop, sample
<1>2. TypeOK /\ PcInv /\ (~late => PacketInv /\ InStep) /\ KeptIsNewest
  BY DEF IInv
<1>3. /\ packet[1].place \in Places
      /\ parses => packet[1].place = number * LENGTH
      /\ ~late => PlaceAt(head)' = (packet[1].place + LENGTH) % (LENGTH * PACKETS)
      /\ ~late /\ latest_data # NoSample => parses
  BY LastByte
<1>4. number \in 0 .. PACKETS - 1
  BY <1>3, PacketOfPlace
<1> HIDE DEF parses, number
<1>5. /\ packet' \in Seq(Bytes) /\ Len(packet') < LENGTH
      /\ processed' \in 0 .. MAX_BYTES /\ start' \in Places
  BY <1>1, <1>2, EmptySeq, Constants DEF TypeOK
<1>6. latest_data' \in Samples /\ data_ready' \in BOOLEAN
  <2>1. [number |-> number, received |-> start] \in Samples
    BY <1>2, <1>4, Constants DEF TypeOK, Samples
  <2> QED
    BY <1>1, <1>2, <2>1 DEF TypeOK
<1>7. PcInv' /\ KeptIsNewest' /\ PacketInv'
  BY <1>1, <1>2 DEF PcInv, KeptIsNewest, PacketInv
<1>8. ASSUME ~late PROVE InStep'
  <2>1. CASE parses
    <3>1. packet # <<>>
      BY <1>1, Constants, EmptySeq
    <3>2. start = packet[1].place
      BY <1>1, <1>2, <1>8, <3>1 DEF PacketInv
    <3>3. PlaceAt(head)' = ((number + 1) % PACKETS) * LENGTH
      BY <1>3, <1>4, <1>8, <2>1, PacketStarts
    <3> QED
      BY <1>1, <1>3, <1>4, <2>1, <3>2, <3>3 DEF InStep
  <2>2. CASE ~parses
    BY <1>1, <1>3, <1>8, <2>2 DEF InStep
  <2> QED
    BY <2>1, <2>2
<1> QED
  BY <1>1, <1>5, <1>6, <1>7, <1>8, PopIInv

\* Steps that take nothing out of the ring.
LEMMA RestIInv ==
    ASSUME IInv, StartLoop \/ Enter \/ Leave \/ Service1_ToF \/ UNCHANGED vars PROVE IInv'
<1> USE DEF IInv, TypeOK, RingInv, Holds, PlaceAt, PcInv, PacketInv, InStep, KeptIsNewest,
            ring, assembly, sample
<1>1. CASE StartLoop
  BY <1>1 DEF StartLoop
<1>2. CASE Enter
  BY <1>2, Constants DEF Enter
<1>3. CASE Leave
  BY <1>3 DEF Leave
<1>4. CASE Service1_ToF
  BY <1>4 DEF Service1_ToF
<1>5. CASE UNCHANGED vars
  BY <1>5 DEF vars
<1> QED
  BY <1>1, <1>2, <1>3, <1>4, <1>5

LEMMA Invariance == Spec => []IInv
<1>1. IInv /\ [Next]_vars => IInv'
  BY PushIInv, SkipIInv, StartIInv, StampIInv, CollectIInv, FinishIInv, RestIInv
  DEF Next, ToF_ProcessQueue
<1> QED
  BY InitIInv, <1>1, PTL DEF Spec

-----------------------------------------------------------------------------
(* The theorems.                                                             *)

\* ToF.c:74: the assembly never runs beyond packet[], nor the loop beyond its
\* limit of bytes per call, and every sample is one.
THEOREM TypeCorrect == Spec => []TypeOK
  BY Invariance, PTL DEF IInv

\* ToF.c:90: for any ring and packet length, and data that looks like a header
\* wherever it may, a sample carries the stamp of its own header.
THEOREM StampCorrect == Spec => []StampIsItsHeaders
<1>1. IInv => StampIsItsHeaders
  BY DEF IInv, InStep, StampIsItsHeaders
<1> QED
  BY <1>1, Invariance, PTL

\* SOMEIP_Service1_Callback repeats the sample it kept only when it is the newest.
THEOREM KeptCorrect == Spec => []KeptIsNewest
  BY Invariance, PTL DEF IInv

\* ToF.c:83-105: once a packet was understood, the limit of bytes per call, an
\* empty ring in the middle of a packet and data that looks like a header make
\* the assembly neither skip nor repeat a packet.
THEOREM NoPacketSkipped == Spec => EveryPacketFollows
<1>1. ASSUME IInv, [Next]_vars
      PROVE  [~late' /\ NewSample /\ latest_data # NoSample =>
                  latest_data'.number = (latest_data.number + 1) % PACKETS]_vars
  <2> SUFFICES ASSUME ~late', NewSample, latest_data # NoSample
               PROVE  latest_data'.number = (latest_data.number + 1) % PACKETS
    OBVIOUS
  <2>1. ~late /\ FinishPacket
    BY DEF NewSample, FinishPacket, Pop
  <2>2. latest_data'.number = packet[1].place \div LENGTH
    BY DEF NewSample, FinishPacket
  <2> QED
    BY <1>1, <2>1, <2>2, LastByte
<1> QED
  BY <1>1, Invariance, PTL DEF Spec, EveryPacketFollows

=============================================================================
