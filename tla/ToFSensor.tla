------------------------------ MODULE ToFSensor ------------------------------
(* BSW/IO/ToF.c: the distance sensor sends packets of bytes; the UART         *)
(* interrupt puts them in a ring and stamps the slot of every byte that looks *)
(* like a header; the main loop takes them out and assembles packets; service *)
(* 1 of SOME/IP hands on the newest sample, once.                            *)
(*                                                                           *)
(* A byte is its place in the sensor's stream, modulo PACKETS packets, and    *)
(* whether it equals the header value, which data bytes may too.  A stamp is *)
(* the place of the byte whose arrival it recorded.  The checksum of a packet *)
(* the sensor sent is right; that of any other sixteen bytes is taken to be  *)
(* wrong (by chance it is right once in 256).  Only the ring of this module   *)
(* drops bytes: asclin.c, which passes on what the UART received, is presumed *)
(* to lose none to an error of the line or of its FIFO.                       *)
(*                                                                           *)
(* A pop is one step here: what an interrupt inside a pop does is the         *)
(* subject of EventQueue.  The read of the stamp comes after the pop, and is *)
(* a step of its own.                                                        *)
EXTENDS Naturals, Sequences

CONSTANTS
    CAPACITY,       \* TOF_BUFFER_SIZE
    LENGTH,         \* TOF_PACKET_LENGTH
    MAX_BYTES,      \* TOF_MAX_BYTES_PER_CALL
    PACKETS,        \* packets told apart
    LOOKALIKES      \* positions in a packet where the data may equal the header

ASSUME ToFAssumption ==
    /\ CAPACITY \in Nat \ {0, 1}
    /\ LENGTH \in Nat \ {0, 1}
    /\ MAX_BYTES \in Nat \ {0}
    /\ PACKETS \in Nat \ {0, 1}
    /\ LOOKALIKES \subseteq 1 .. LENGTH - 1

VARIABLES
    next,           \* the sensor: place of the byte it sends next
    buffer,         \* rx_queue.buffer
    head,           \* rx_queue.head
    tail,           \* rx_queue.tail
    stamps,         \* header_timestamp_us, one per slot
    pc,             \* "boot", the rest of the "loop", "pop" or "stamp"
    processed,      \* bytes_processed
    packet,         \* packet[0 .. packet_index - 1]
    start,          \* packet_start_time_us
    latest_data,    \* latest_data
    data_ready,     \* data_ready
    kept,           \* tof_latest_data of SOMEIP_Service1_Callback
    late            \* history: the ring has overflowed since the loop runs

ring == <<buffer, head, tail, stamps>>
assembly == <<packet, start>>
sample == <<latest_data, data_ready>>
vars == <<next, ring, pc, processed, assembly, sample, kept, late>>

Slots == 0 .. CAPACITY - 1
Places == 0 .. LENGTH * PACKETS - 1
Bytes == [place : Places, header : BOOLEAN]
Samples == [number : 0 .. PACKETS, received : Places]    \* number PACKETS: none yet

TypeOK ==
    /\ next \in Places
    /\ buffer \in [Slots -> Bytes]
    /\ head \in Slots
    /\ tail \in Slots
    /\ stamps \in [Slots -> Places]
    /\ pc \in {"boot", "loop", "pop", "stamp"}
    /\ processed \in 0 .. MAX_BYTES
    /\ packet \in Seq(Bytes)
    /\ Len(packet) < LENGTH
    /\ start \in Places
    /\ latest_data \in Samples
    /\ data_ready \in BOOLEAN
    /\ kept \in Samples
    /\ late \in BOOLEAN

-----------------------------------------------------------------------------

After(slot) == (slot + 1) % CAPACITY
Before(slot) == (slot + CAPACITY - 1) % CAPACITY

Follows(place) == (place + 1) % (LENGTH * PACKETS)

\* What the byte at a place may be: equal to the header or not.  To bound the
\* states, data looks like a header only until the ring first overflows.
HeaderValues(place) ==
    CASE place % LENGTH = 0 -> {TRUE}
      [] place % LENGTH \in LOOKALIKES /\ ~late -> BOOLEAN
      [] OTHER -> {FALSE}

NoSample == [number |-> PACKETS, received |-> 0]

\* ToF_Init; the sensor has been sending for a while.
Init ==
    /\ next \in 0 .. LENGTH - 1
    /\ buffer = [slot \in Slots |-> [place |-> 0, header |-> FALSE]]
    /\ head = 0
    /\ tail = 0
    /\ stamps = [slot \in Slots |-> 0]
    /\ pc = "boot"
    /\ processed = 0
    /\ packet = <<>>
    /\ start = 0
    /\ latest_data = NoSample
    /\ data_ready = FALSE
    /\ kept = NoSample
    /\ late = FALSE

Full == After(tail) = head
Empty == head = tail

\* ToF_RxHandler, called by the UART interrupt.
ToF_RxHandler ==
    /\ next' = Follows(next)
    /\ \E header \in HeaderValues(next) :
           /\ buffer' = [buffer EXCEPT ![tail] = [place |-> next, header |-> header]]
           /\ stamps' = IF header THEN [stamps EXCEPT ![tail] = next] ELSE stamps
    /\ tail' = After(tail)
    /\ head' = IF Full THEN After(head) ELSE head
    /\ late' = (late \/ (Full /\ pc # "boot"))
    /\ UNCHANGED <<pc, processed, assembly, sample, kept>>

\* core0_init is done: the loop starts.
StartLoop ==
    /\ pc = "boot"
    /\ pc' = "loop"
    /\ UNCHANGED <<next, ring, processed, assembly, sample, kept, late>>

Enter ==
    /\ pc = "loop"
    /\ pc' = "pop"
    /\ processed' = 0
    /\ UNCHANGED <<next, ring, assembly, sample, kept, late>>

\* ByteQueue_Pop within the limit of bytes per call.
Pop ==
    /\ pc = "pop"
    /\ processed < MAX_BYTES
    /\ ~Empty
    /\ head' = After(head)
    /\ UNCHANGED <<next, buffer, tail, stamps, kept, late>>

\* Waiting for a packet: a byte that is no header is passed over.
SkipByte ==
    /\ Pop
    /\ packet = <<>>
    /\ ~buffer[head].header
    /\ processed' = processed + 1
    /\ UNCHANGED <<pc, assembly, sample>>

\* Waiting for a packet: a header starts one.
StartPacket ==
    /\ Pop
    /\ packet = <<>>
    /\ buffer[head].header
    /\ packet' = <<buffer[head]>>
    /\ pc' = "stamp"
    /\ UNCHANGED <<processed, start, sample>>

\* A plausible slip: the slot is taken to be the one head is at now.
ReadStamp_AtHead ==
    /\ pc = "stamp"
    /\ start' = stamps[head]
    /\ processed' = processed + 1
    /\ pc' = "pop"
    /\ UNCHANGED <<next, ring, packet, sample, kept, late>>

\* Its stamp is looked up by the place of head, one back.
ReadStamp ==
    /\ pc = "stamp"
    /\ start' = stamps[Before(head)]
    /\ processed' = processed + 1
    /\ pc' = "pop"
    /\ UNCHANGED <<next, ring, packet, sample, kept, late>>

Collect ==
    /\ Pop
    /\ packet # <<>>
    /\ Len(packet) < LENGTH - 1
    /\ packet' = Append(packet, buffer[head])
    /\ processed' = processed + 1
    /\ UNCHANGED <<pc, start, sample>>

\* parseToFPacket: the header is there, and the checksum of bytes that are one
\* packet of the sensor is right.
Parses(bytes) ==
    /\ bytes[1].header
    /\ bytes[1].place % LENGTH = 0
    /\ \A i \in 1 .. LENGTH - 1 : bytes[i + 1].place = Follows(bytes[i].place)

\* A plausible slip: the index goes back only after a packet that parses.
FinishPacket_NoReset ==
    /\ Pop
    /\ Len(packet) = LENGTH - 1
    /\ IF Parses(Append(packet, buffer[head]))
       THEN /\ latest_data' = [number |-> packet[1].place \div LENGTH, received |-> start]
            /\ data_ready' = TRUE
            /\ packet' = <<>>
       ELSE UNCHANGED <<packet, sample>>
    /\ processed' = processed + 1
    /\ UNCHANGED <<pc, start>>

\* A plausible slip: the flag tells how the last packet went, read or not.
FinishPacket_LastOnly ==
    /\ Pop
    /\ Len(packet) = LENGTH - 1
    /\ data_ready' = Parses(Append(packet, buffer[head]))
    /\ latest_data' = IF data_ready'
                      THEN [number |-> packet[1].place \div LENGTH, received |-> start]
                      ELSE latest_data
    /\ packet' = <<>>
    /\ processed' = processed + 1
    /\ UNCHANGED <<pc, start>>

\* The last byte: a packet that parses is the newest sample.
FinishPacket ==
    /\ Pop
    /\ Len(packet) = LENGTH - 1
    /\ IF Parses(Append(packet, buffer[head]))
       THEN /\ latest_data' = [number |-> packet[1].place \div LENGTH, received |-> start]
            /\ data_ready' = TRUE
       ELSE UNCHANGED sample
    /\ packet' = <<>>
    /\ processed' = processed + 1
    /\ UNCHANGED <<pc, start>>

\* A plausible slip: the index is not static, so it starts again at every call.
Leave_Forgets ==
    /\ pc = "pop"
    /\ processed = MAX_BYTES \/ Empty
    /\ pc' = "loop"
    /\ packet' = <<>>
    /\ UNCHANGED <<next, ring, processed, start, sample, kept, late>>

Leave ==
    /\ pc = "pop"
    /\ processed = MAX_BYTES \/ Empty
    /\ pc' = "loop"
    /\ UNCHANGED <<next, ring, processed, assembly, sample, kept, late>>

\* SOMEIP_Service1_Callback, method 0x0102, with ToF_GetLatestData.
Service1_ToF ==
    /\ pc = "loop"
    /\ data_ready
    /\ kept' = latest_data
    /\ data_ready' = FALSE
    /\ UNCHANGED <<next, ring, pc, processed, assembly, latest_data, late>>

ToF_ProcessQueue ==
    Enter \/ SkipByte \/ StartPacket \/ ReadStamp \/ Collect \/ FinishPacket \/ Leave

Next == ToF_RxHandler \/ StartLoop \/ ToF_ProcessQueue \/ Service1_ToF

Spec == Init /\ [][Next]_vars

\* The sensor goes on sending, start-up ends, the loop comes round.
FairSpec ==
    /\ Spec
    /\ WF_vars(ToF_RxHandler)
    /\ WF_vars(StartLoop)
    /\ WF_vars(ToF_ProcessQueue)

-----------------------------------------------------------------------------
(* Properties.                                                               *)

\* As long as the ring does not overflow while the loop runs, the time handed on
\* with a sample is that of its own header, not of another byte that went
\* through the slot or of another slot.
StampIsItsHeaders ==
    ~late /\ latest_data # NoSample => latest_data.received = latest_data.number * LENGTH

\* Asked for a sample when nothing is new, service 1 repeats the one it kept:
\* that is still the newest there is.
KeptIsNewest == ~data_ready => kept = latest_data

NewSample == FinishPacket /\ Parses(Append(packet, buffer[head]))

\* As long as the ring does not overflow while the loop runs: once a packet was
\* understood, every following one is, in order.
EveryPacketFollows ==
    [][ ~late' /\ NewSample /\ latest_data # NoSample =>
            latest_data'.number = (latest_data.number + 1) % PACKETS ]_vars

\* The ring overflows, or a byte comes that looks like a header and is none.
Disturbance ==
    /\ ToF_RxHandler
    /\ Full \/ (next % LENGTH # 0 /\ buffer'[tail].header)

\* Started anywhere in the stream and after any disturbance, the assembly falls
\* into step with the packets, unless disturbances never cease.
SamplesKeepComing == []<><<Disturbance>>_vars \/ []<><<NewSample>>_vars

=============================================================================
