----------------------------- MODULE Ultrasonic ------------------------------
(* BSW/IO/Ultrasonic.c with the echo interrupt of eru.c: one of its three     *)
(* sensors, which share nothing.  The sensor answers a trigger with a pulse   *)
(* on the echo pin.  Each edge requests the interrupt, which reads the pin,   *)
(* so an edge that comes before an earlier one was served is merged with it.  *)
(* The main loop pairs rises with falls; service 1 of SOME/IP hands on the    *)
(* newest sample.                                                            *)
(*                                                                           *)
(* Pulses are numbered, modulo PULSES.  A time stamp is the number of the    *)
(* pulse around it: last_rise_time > 0 asks whether there is one.  Which      *)
(* distance a pulse stands for does not matter, so it is its number; a time   *)
(* from one pulse to another is longer than that of any.                      *)
(*                                                                           *)
(* A pop is one step here: what an interrupt inside a pop does is the         *)
(* subject of EventQueue.                                                    *)
EXTENDS AverageFilter, Sequences

CONSTANTS
    CAPACITY,       \* ULTRASONIC_BUFFER_SIZE
    MAX_EVENTS,     \* ULTRASONIC_MAX_EVENTS_PER_CALL
    PULSES          \* pulses told apart

ASSUME UltrasonicAssumption ==
    /\ CAPACITY \in Nat \ {0, 1}
    /\ MAX_EVENTS \in Nat \ {0}
    /\ PULSES \in Nat \ {0, 1}

VARIABLES
    pulse,          \* the sensor: number of the newest pulse
    level,          \* the echo pin
    pending,        \* the service request of the interrupt
    isr,            \* the interrupt has been entered
    queue,          \* the events in rx_queues[side], oldest first
    pc,             \* "boot", the rest of the "loop", or "pop"
    processed,      \* events_processed
    last_rise_time, \* last_rise_time[side], 0 for none
    filter,         \* filters[side]
    latest_data,    \* latest_data[side]
    data_ready,     \* data_ready[side]
    kept,           \* ult_latest_data[side] of SOMEIP_Service1_Callback
    recent,         \* history: the last SIZE distances, oldest first
    slow,           \* history: a pulse has ended before the interrupt read the pin
    late            \* history: the queue has overflowed since the loop runs

sensor == <<pulse, level>>
interrupt == <<pending, isr>>
sample == <<latest_data, data_ready>>
loop == <<pc, processed, last_rise_time, filter, sample, kept, recent>>
timing == <<slow, late>>
vars == <<sensor, interrupt, queue, loop, timing>>

Pulses == 1 .. PULSES
Distances == 0 .. PULSES + 1
Samples == [rise : 0 .. PULSES, fall : 0 .. PULSES, dist_raw_mm : Distances,
            dist_filt_mm : Distances]

TypeOK ==
    /\ pulse \in Pulses
    /\ level \in BOOLEAN
    /\ pending \in BOOLEAN
    /\ isr \in BOOLEAN
    /\ queue \in Seq([pin_state : BOOLEAN, pulse : Pulses])
    /\ Len(queue) < CAPACITY
    /\ pc \in {"boot", "loop", "pop"}
    /\ processed \in 0 .. MAX_EVENTS
    /\ last_rise_time \in 0 .. PULSES
    /\ filter \in Filters(Distances)
    /\ latest_data \in Samples
    /\ data_ready \in BOOLEAN
    /\ kept \in Samples
    /\ recent \in Seq(Distances)
    /\ Len(recent) <= SIZE
    /\ slow \in BOOLEAN
    /\ late \in BOOLEAN

-----------------------------------------------------------------------------

Following(p) == (p % PULSES) + 1

NoSample == [rise |-> 0, fall |-> 0, dist_raw_mm |-> 0, dist_filt_mm |-> 0]

\* Ultrasonic_Init, before the first trigger.
Init ==
    /\ pulse = PULSES
    /\ level = FALSE
    /\ pending = FALSE
    /\ isr = FALSE
    /\ queue = <<>>
    /\ pc = "boot"
    /\ processed = 0
    /\ last_rise_time = 0
    /\ filter = Filter_Init
    /\ latest_data = NoSample
    /\ data_ready = FALSE
    /\ kept = NoSample
    /\ recent = <<>>
    /\ slow = FALSE
    /\ late = FALSE

Served == ~pending /\ ~isr

\* The sensor: a pulse begins.  It was triggered 100 ms after the one before, far
\* longer than the interrupt can be late.
EchoRise ==
    /\ ~level
    /\ Served
    /\ level' = TRUE
    /\ pulse' = Following(pulse)
    /\ pending' = TRUE
    /\ UNCHANGED <<isr, queue, loop, timing>>

\* A pulse ends; a short one perhaps before the interrupt has seen it begin.
EchoFall ==
    /\ level
    /\ level' = FALSE
    /\ pending' = TRUE
    /\ slow' = (slow \/ ~Served)
    /\ UNCHANGED <<pulse, isr, queue, loop, late>>

\* The interrupt is taken: the hardware clears the request.
EnterHandler ==
    /\ pending
    /\ ~isr
    /\ pending' = FALSE
    /\ isr' = TRUE
    /\ UNCHANGED <<sensor, queue, loop, timing>>

Full == Len(queue) = CAPACITY - 1

\* SCUERU_IntN_Handler, Ultrasonic_EchoHandler: read the pin, push the event.
Ultrasonic_EchoHandler ==
    /\ isr
    /\ isr' = FALSE
    /\ queue' = Append(IF Full THEN Tail(queue) ELSE queue,
                       [pin_state |-> level, pulse |-> pulse])
    /\ late' = (late \/ (Full /\ pc # "boot"))
    /\ UNCHANGED <<sensor, pending, loop, slow>>

\* core0_init is done: the loop starts.
StartLoop ==
    /\ ~isr
    /\ pc = "boot"
    /\ pc' = "loop"
    /\ UNCHANGED <<sensor, interrupt, queue, processed, last_rise_time, filter, sample,
                   kept, recent, timing>>

Enter ==
    /\ ~isr
    /\ pc = "loop"
    /\ pc' = "pop"
    /\ processed' = 0
    /\ UNCHANGED <<sensor, interrupt, queue, last_rise_time, filter, sample, kept, recent,
                   timing>>

\* EruEventQueue_Pop within the limit of events per call.
Pop ==
    /\ ~isr
    /\ pc = "pop"
    /\ processed < MAX_EVENTS
    /\ queue # <<>>
    /\ queue' = Tail(queue)
    /\ processed' = processed + 1
    /\ UNCHANGED <<sensor, interrupt, pc, kept, timing>>

Rise ==
    /\ Pop
    /\ Head(queue).pin_state
    /\ last_rise_time' = Head(queue).pulse
    /\ UNCHANGED <<filter, sample, recent>>

\* A fall with no rise before it.
LoneFall ==
    /\ Pop
    /\ ~Head(queue).pin_state
    /\ last_rise_time = 0
    /\ UNCHANGED <<last_rise_time, filter, sample, recent>>

\* CALCULATE_DISTANCE.
Distance(rise, fall) == IF rise = fall THEN rise ELSE PULSES + 1

\* A plausible slip: the rise is not forgotten with the fall that ends it.
Fall_KeepsRise ==
    /\ Pop
    /\ ~Head(queue).pin_state
    /\ last_rise_time # 0
    /\ LET fall == Head(queue).pulse
           dist == Distance(last_rise_time, fall)
       IN  /\ filter' = Filter_Update(filter, dist)
           /\ latest_data' = [rise |-> last_rise_time, fall |-> fall,
                              dist_raw_mm |-> dist, dist_filt_mm |-> Mean(filter')]
           /\ recent' = Append(IF Len(recent) = SIZE THEN Tail(recent) ELSE recent, dist)
    /\ data_ready' = TRUE
    /\ UNCHANGED last_rise_time

\* A fall ends the pulse of the last rise: a sample.
Fall ==
    /\ Pop
    /\ ~Head(queue).pin_state
    /\ last_rise_time # 0
    /\ LET fall == Head(queue).pulse
           dist == Distance(last_rise_time, fall)
       IN  /\ filter' = Filter_Update(filter, dist)
           /\ latest_data' = [rise |-> last_rise_time, fall |-> fall,
                              dist_raw_mm |-> dist, dist_filt_mm |-> Mean(filter')]
           /\ recent' = Append(IF Len(recent) = SIZE THEN Tail(recent) ELSE recent, dist)
    /\ data_ready' = TRUE
    /\ last_rise_time' = 0

\* A plausible slip: last_rise_time is not static.
Leave_Forgets ==
    /\ ~isr
    /\ pc = "pop"
    /\ processed = MAX_EVENTS \/ queue = <<>>
    /\ pc' = "loop"
    /\ last_rise_time' = 0
    /\ UNCHANGED <<sensor, interrupt, queue, processed, filter, sample, kept, recent,
                   timing>>

Leave ==
    /\ ~isr
    /\ pc = "pop"
    /\ processed = MAX_EVENTS \/ queue = <<>>
    /\ pc' = "loop"
    /\ UNCHANGED <<sensor, interrupt, queue, processed, last_rise_time, filter, sample,
                   kept, recent, timing>>

\* SOMEIP_Service1_Callback, method 0x0103, with Ultrasonic_GetLatestData.
Service1_Ultrasonic ==
    /\ ~isr
    /\ pc = "loop"
    /\ data_ready
    /\ kept' = latest_data
    /\ data_ready' = FALSE
    /\ UNCHANGED <<sensor, interrupt, queue, pc, processed, last_rise_time, filter,
                   latest_data, recent, timing>>

Ultrasonic_ProcessQueue == Enter \/ Rise \/ LoneFall \/ Fall \/ Leave

Next ==
    \/ EchoRise
    \/ EchoFall
    \/ EnterHandler
    \/ Ultrasonic_EchoHandler
    \/ StartLoop
    \/ Ultrasonic_ProcessQueue
    \/ Service1_Ultrasonic

Spec == Init /\ [][Next]_vars

-----------------------------------------------------------------------------
(* Properties.                                                               *)

\* As long as the queue does not overflow while the loop runs, a distance is
\* measured over one pulse, even if the interrupt is later than a pulse is long
\* and sees its end twice or its begin not at all, and whatever start-up left in
\* the queue.
DistanceOfOnePulse == ~late => latest_data.rise = latest_data.fall

\* The sums of the first 0, 1, ... values.
Sums(values) ==
    LET sum[i \in 0 .. Len(values)] == IF i = 0 THEN 0 ELSE sum[i - 1] + values[i]
    IN  sum

Total(values) == Sums(values)[Len(values)]

\* The running sum is that of the last distances, no matter how often the ring
\* of the filter has wrapped, and the sample carries their mean.
FilteredIsMeanOfLast ==
    /\ filter.sum = Total(recent)
    /\ recent # <<>> => latest_data.dist_filt_mm = Total(recent) \div Len(recent)

\* With the interrupt in time and the loop keeping up, no pulse is passed over:
\* neither the limit of events per call nor an empty queue between rise and
\* fall loses one.
EveryPulseFollows ==
    [][ ~late' /\ ~slow' /\ Fall /\ latest_data # NoSample =>
            latest_data'.rise = Following(latest_data.rise) ]_vars

=============================================================================
