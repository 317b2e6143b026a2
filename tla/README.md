# TLA+ models of the vehicle controller

The repository holds the firmware of an AURIX TC375 that drives a small car
(`src/TC375`) and a client for it on a Raspberry Pi (`src/Raspi`). The board
runs a superloop on CPU 0 with interrupts. It offers three SOME/IP services
over UDP: sensors, lights and buzzer, emergency alert and motors.

This directory models its own code, checks the models with TLC and proves
theorems about them with TLAPS. lwIP, the iLLD and vsomeip are third-party code
and appear as far as the code of the repository uses them. One part of lwIP,
address resolution, has a model of its own, since it decides where replies go.

    tlc -config MCVehicleControl.cfg MCVehicleControl.tla
    tlapm VehicleControlProofs.tla

## 1. The system

### How it runs

`core0_main` calls, for ever and in this order: `ToF_ProcessQueue`,
`Ultrasonic_ProcessQueue`, `Ifx_Lwip_pollTimerFlags`,
`Ifx_Lwip_pollReceiveFlags` (one Ethernet frame at most, and through lwIP the
UDP callbacks), the periodic offer, `EmerAlert_Update_Periodic`. Every
interrupt is on the same core: ToF UART, three echo inputs, the trigger timer
T3, the tone timer T6, and the 1 ms system timer (the highest). An interrupt
falls between any two accesses of the main loop, but two main-loop handlers
never overlap. CPU 1 and CPU 2 only wait. The watchdogs are disabled.

Interrupts are enabled, and queues filled, before `initLwip`, which waits
seconds for the PHY: the loop starts with full queues.

### Inventory

| component | state | operations | shares state with | makes it correct |
|---|---|---|---|---|
| Lights (`LED.c`) | a flag per light, four pins | on, off, toggle, get | alert, service 2 | flags and pins agree |
| Buzzer (`Buzzer.c`) | frequency, divisor, flag, T6, tone count, pin | set frequency, on, off, tone interrupt | alert, service 2, T6 interrupt | flag and timer agree, divisor never 0, the tone follows a new divisor |
| Motor controller (`motor_controller.c`, `Motor.c`) | last position, speeds, two channels | joystick input | service 3 | speeds in range, channels show what is reported |
| Emergency alert (`emer_alert.c`) | interval, on/off, time stamp | set interval, periodic update | lights, buzzer, services 2 and 3 | obeys the interval, is not undone by clients |
| Services 2, 3 (`someip.c`) | kept replies (statics) | buzzer, light, alert, motor requests | all of the above | replies tell the truth |
| Service 1 (`someip.c`) | kept samples | ToF, ultrasonic, light-sensor requests | sensors | samples not older than claimed |
| Event queues (`Utils/Queue`) | ring, head, tail | push (interrupt), pop (loop) | interrupt and loop | first in first out, only the oldest dropped |
| ToF (`ToF.c`) | ring, time stamps per slot, packet being assembled | UART interrupt, process, get latest | interrupt and loop | sample and time stamp from one packet |
| Ultrasonic (`Ultrasonic.c`) | three rings, last rise, filter | trigger, echo interrupt, process | interrupts and loop | a fall paired with its own rise |
| lwIP port (`Ifx_Lwip.c`) | timers, flags, link | tick interrupt, poll | interrupt and loop | no period lost, link follows PHY |
| System timer (`stm.c`) | hardware counter | 64-bit read in halves | hardware | no torn value |
| Port P10 (`GPIO.c`) | direction and trigger pins | write from loop, toggle from interrupt | interrupt and loop | no lost write |
| Interface driver (`netif.c`) | two descriptor rings, pbufs | receive, send (waits for room) | DMA, lwIP, services | each descriptor and pbuf has one owner, frames in order both ways |
| Address resolution (`etharp.c`) | table, packets that wait, entry used last | packet out, ARP packet in, timer | services, driver, link | one entry per host, packets to its newest address, held ones freed once |
| Service discovery (`someipsd.c`), relay and client (`Raspi`) | offer age, availability | offer, find, relay | network | the board is found, and forgotten when gone |

Left aside: Bluetooth (its initialisation is commented out), the WASD input of
the motor controller (no caller), console, ADC and register set-up, the rest of
lwIP and the iLLD.

### What is hard

Two actors on one actuator (alert and client on rear light and buzzer), the
gap between setting an interval and following it, kept replies that may be
stale, interrupts between the accesses of a pop, of a flag exchange or of a
port write, rings at their limit, echoes and packets cut in two by a full
ring, a counter read in halves, a DMA that catches up with the driver, a wait for
the DMA in the middle of the loop, a divisor changed under its count, an address
that expires while it is in use, a relay that hears itself. `PROJECT.json` lists
each hazard at its line with the
properties that would catch it.

## 2. The modules

| module | models | state |
|---|---|---|
| `Leds` | `LED.c` | `ledIsOn`, `ledPin` |
| `Buzzer` | `Buzzer.c`, main-loop part | `frequency`, `cntMax`, `buzzerIsOn`, `t6Running` |
| `MotorController` | `motor_controller.c`, `Motor.c`, `my_math.h` | `latest_data`, `pre`, `chA`, `chB` |
| `EmerAlert` | `emer_alert.c`; extends `Leds`, `Buzzer` | `interval`, `isAlertOn`, `uptime`, `elapsed` |
| `VehicleControl` | services 2 and 3 and the loop; extends `EmerAlert`, `MotorController` | `pc`, `alertReply`, `motorReply`, `reply` |
| `EventQueue` | `byte_queue.c`, `eru_event_queue.c` | the ring, the registers of a pop, histories |
| `DropOldestFifo` | what the queues promise | `queue`, `sent`, `got` |
| `ToFSensor` | `ToF.c` and its part of service 1 | ring, stamps, packet under assembly, kept sample |
| `AverageFilter` | `avg_filter.c` | an operator per function |
| `Ultrasonic` | `Ultrasonic.c`, one sensor, and its part of service 1 | ring, pending edge, rise, filter, kept sample |
| `PortPins` | `GPIO.c` on port P10, the trigger count | pins, the write under way |
| `BuzzerTone` | the T6 interrupt; extends `Buzzer` | pin, count, pending request, histories |
| `Gpt12` | the two timer interrupts and the loop; extends `PortPins`, `BuzzerTone` | |
| `StmClock` | `stm.c` | counter, the registers of a read |
| `LwipTimers` | timers and link of `Ifx_Lwip.c` | timers, flags, interrupt enable, poll, link, PHY, histories |
| `NetifRx` | receiving half of `netif.c`, and what lwIP keeps of it | ring, DMA and driver positions, pool, pbufs kept for reassembly and in the ARP table, poll |
| `NetifTx` | sending half of `netif.c` | ring, DMA and driver positions, frames to send |
| `Netif` | both halves in one loop; extends `NetifRx`, `NetifTx` | |
| `Arp` | `etharp.c` as configured | table, entry used last, references to pbufs, link |
| `Discovery` | `someipsd.c`, the periodic offer, the relay | offer age, datagrams, what the client knows |
| `TimersProofs` | theorems about `LwipTimers` and `StmClock` | |
| `AddressingProofs` | theorems about `Arp` and `Discovery` | |
| other `*Proofs` | theorems about the module they are named after | |

The `MC*` modules only give constants values. An operator whose comment starts
with "A plausible slip" is a wrong variant of the definition below it, for
testing that the properties notice.

Some properties hold only as long as something does not happen that the code
does not prevent. The models let it happen and remember it in a history
variable, and the property says what holds until then: `raced` (a push
overflowed the ring inside a pop), `late` (the ring overflowed while the loop
runs), `slow` (a pulse ended before the interrupt had read the pin).

**VehicleControl.** A handler runs to completion between two polls, so each
service method is one action: `Service2_Buzzer`, `Service2_Led`,
`Service3_Alert`, `Service3_Motor`, with `NoRequest` for everything the guards
turn away. `pc` alternates between the frame and `Update`
(`EmerAlert_Update_Periodic`). `Tick` is the millisecond clock and may come
anywhere. `SOMEIP_Send_Data` may fail, without a trace in the state. A request
is its decoded fields. The code reads fields beyond a short frame out of an
uninitialised buffer, so the fields are any of the inputs. A light the byte does
not name is left alone, and the flag reported for it is read beyond the array:
any value. The difference `cur_time_ms - last_toggle_time_ms` is kept instead of
the stamp. It is counted up to `HORIZON`; larger intervals stand for ones that
never elapse. The clock is a whole number of milliseconds; that it moves in
coarse steps after a long time (below) only makes it skip some.

**EventQueue.** A push is one step, as the interrupt runs to completion. A pop
is one step per access. `head` is not volatile, so a build may load it once or
again for each use: `reload` is that choice. `WORDS` is 1 for bytes and 2 for
echo events. As long as no push overflows the ring inside a pop, every step is
one of `DropOldestFifo` or a stutter (`ImplementsFifo`, a step refinement with
`queue` mapped to the slots from `head` to `tail`). The sizes make such an
overflow rare (64 slots against a handful of accesses), but after start-up the
rings are full and nothing prevents it, so the model contains it.

**ToFSensor, Ultrasonic.** `EventQueue` shows that a pop can be taken as one
step; these modules do so, and put interrupts between the pops. A byte is its
place in the sensor's stream and whether it looks like a header. The checksum
accepts what is one packet in order. Of other bytes it would accept one packet
in 256 by chance; the model takes them to be refused, so `StampIsItsHeaders`
does not cover such an accident. Only the ring of
`ToF.c` drops bytes: the UART driver `asclin.c` before it is presumed to lose none
to an error of the line or of its FIFO. The time of an echo edge is the number of its
pulse with its edge, which is all that pairing depends on. An edge sets a
request that stays pending and absorbs a second edge of the same sensor before
it is served. The three sensors have separate state; one is modelled.

**PortPins, BuzzerTone, Gpt12.** Writing a bit of `P10.OUT` is a load, a change
and a store in a build without bit instructions, one step in a build with them: `atomic` is that
choice. The interrupt toggles the trigger pin between them. The tone interrupt
counts modulo `cntMax`, which the loop changes at any time; one underflow may
stay pending over a stop of the timer. `since` and `steady` remember where in a
period the tone is. The two interrupts are served one after the other, and
between the load and the store of a pin the loop does nothing else: `Gpt12` puts
the two parts together that way.

**StmClock.** The counter moves between the loads of its halves, by any amount;
the lower half carries at `HALF`. `STM0_getTimeUs` divides as the code does, in `float`:
the count is rounded to `PRECISION` significant bits (24 in the code).

**LwipTimers.** The poll is one step per shared access, the tick one step that
is held back while interrupts are disabled. The services of TCP and ARP have no
effect here. The PHY status is read in two halves, and the PHY may change at any
time. The code runs those services only with the link up; a flag taken while the
link is down is dropped, which is what `Serve` calls attended to.

**NetifRx, NetifTx, Netif.** The DMA stores a frame into each descriptor it owns
and suspends when it owns none. The poll is one step per access that the DMA can
tell apart: looking at the descriptor, copying (with the wake-up), giving it
back, handing over. A frame is its number modulo twice the descriptors, enough
to tell it from the ones around it. A length that stands for an error, `0xFFFF`,
wraps to 1 when the padding of 2 is added, which is why it is dropped as too
short. A frame size of 0 does not come from the MAC.

The pool is counted, with all who may have pbufs of it: the poll (`chain`),
reassembly (`held`) and the ARP table (`parked`). Reassembly may keep pbufs of
fragments up to its limit, and forgets them only for newer ones, since nothing
calls `sys_check_timeouts`, which would let them age. ARP comes in because
`icmp_input` answers an echo request in the chain it arrived in, and if the
requester's address is not known, `etharp_query` keeps a reference to it:
`Dispose` lets any part of a datagram stay there. How packets leave the table is
the subject of `Arp`; here any may go with any datagram (`ArpHolds`), and a timer
call ends all those that have waited long enough. `expiry` bounds, in calls
of the timer, how long any of them may still wait. Counts allow more than the
table would, so what holds of them holds of it.

`Copy` and `SendTransmitBuffer` always wake their DMA. The code does so if the
flag `receiveStopped` or `transmitStopped` is set. That is the same if the
hardware sets the flag whenever the DMA suspends, which is assumed; nothing
clears the flags.

Sending waits for its descriptor in a loop without a limit, copies, gives it to
the DMA and wakes it. It goes on in the hand-over of a received frame (a reply),
between two polls (offers, IGMP) or in the ARP timer, up to `BURST` frames, and
reception stands still meanwhile. Every frame fits one buffer. What is sent
begins with a pbuf of the heap (`PBUF_RAM`) or, for an echo reply, of the pool, so
the branch of `low_level_output` for pbufs passed by reference is unreachable:
those follow the first pbuf of a reply sent in fragments. How far the DMA
follows its tail pointer is the hardware's: it sends what it owns in order, and
stops at what it does not.

**Arp.** Handlers run to completion, so a packet out, an ARP packet in and a
second of the timer are one step each. A packet for a host is a pbuf; the table
keeps a reference to one that waits. Memory for a request may be short at any
time, which the code ignores. `hint` is the entry used last, which is tried first.
The histories `heard` (the address a host used last) and `late` (how an address
near its end was used and asked for) say what the properties need. Broadcasts
and multicasts do not go through the table, and nothing here uses static entries.

**Discovery.** A datagram is its kind, its source, whether the relay has
repeated it, and the socket it is going to. Any may be lost. An offer counts as
made whether or not it could be sent. The board joins no multicast group; the
relay hears multicasts and broadcasts, its own included. Which socket of the Pi
gets what, and that vsomeip drops what comes from its own address, is external.
`LOCAL_IP` is either the address the Pi has (`readme.md:5`, `vsomeip.json`) or
the one the relay is configured with (`mcast_to_bcast.py:7`), which is another.

## 3. The runs

| run | what it shows | bounds |
|---|---|---|
| `vehicle_control` | no client undoes an active alert, the alert obeys its interval, wheels move only for a new position, replies tell what the actuators do | 5 intervals: off, on, one boot time, the horizon, beyond; frequencies on both sides of the limits; one light of each kind and one that is none; coordinates around both ends and one edge of the dead zone |
| `event_queue` | nothing invented, refinement of `DropOldestFifo` (whole events, in order, only the oldest dropped) until `raced`, the ring drains | 3 slots, 6 events: the ring overflows, and wraps round twice |
| `tof` | a sample carries the time stamp of its own header, the kept sample is the newest, packets are followed, samples keep coming | 3 slots, packets of 3 bytes, one position that may look like a header, 2 packets |
| `ultrasonic` | a distance is of one pulse (until `late`), the mean is of the last samples, pulses are followed (until `late` or `slow`) | filter of 2, ring of 4, 2 pulses |
| `gpt12` | directions are as asked, the trigger is short (`atomic`), the tone follows its frequency | trigger count to 10, both builds; a limit of 8 Hz, so divisors 1, 2, 4 and 8, and a frequency beyond either limit |
| `stm_clock` | a read lies within its call, microseconds never go back | halves of 8, 2 carries into the upper half, 4 bits of precision |
| `lwip_timers` | no period lost or invented, all attended to, link follows PHY | periods 2, 4, 3, 1; two modes of the PHY |
| `netif` | no pbuf lost, a frame blocked only by what ARP holds, frames once and in order in both directions; while the ARP timer runs the driver keeps up with its loop sending and a suspended DMA resumes; all is sent | 2 descriptors each way, one frame sent per occasion, frames of one pbuf; a pool of 3, of which reassembly keeps at most 2; ARP waits for 2 s |
| `arp` | one entry per host, packets to the newest address, held ones freed once, an address in use asked for in time, no wait for ever | 2 entries for 3 hosts with 2 addresses; ages to 5 s in the order of the code's |
| `discovery` | the board is found again and again, forgotten when gone; the relay does not loop, or gets questions of its host through | times of 2, one datagram of a sort per socket at a time |
| `first_alert_reply` | `AlertReplyTellsMode`: violated | |
| `queue_loss` | `OnlyOldestDropped`: violated | |

*Why the bounds are enough.* Interval, clock and position only meet through
comparisons, so a value on each side of each is enough. Three slots is the
smallest ring with a state that is neither empty nor full. The properties of the
sensors relate a sample to the packet or pulse before it, so numbers modulo 2
suffice; the loop of the ToF stops after as many bytes as a packet has, as in
the code. Two descriptors is the smallest ring whose DMA can be woken, since it
is woken before the driver gives its descriptor back. Occasions to send that
follow one another fill the transmit ring; that several frames on one occasion
keep their order is part of the proof. A pool of one more than reassembly keeps
is the least that the assumption on the pool admits: one packet at ARP beside a
full reassembly blocks the ring, and so do three. A table smaller than the hosts
is recycled while entries wait and while they do not. In `discovery` the time to
live equals the period, as in the code.

**Fairness.** Where a run checks liveness, the poll or loop is weakly fair, as
it contains no blocking call once started, and so is the clock that drives it.
`Ultrasonic`, `StmClock` and `Gpt12` need none. `LwipTimers`: strong fairness of the
tick, which is held back now and then but stays pending in the interrupt
controller. `ToFSensor`: bytes keep arriving and start-up ends. `Netif`: strong
fairness of the poll, which alternates with sending and so is not always
enabled, weak fairness of sending and of the transmit DMA; frames need not
arrive. The ARP timer runs only with the link up, so no fairness of it is part of
the specification: `EveryFrameTaken` and `ReceiverResumes` have it as their premise
(`LinkComesBack`), for the time that a frame is blocked. `Arp`: the timer, called
every second while the link is up; hosts need
not answer. `Discovery`: strong fairness of a successful offer and of the
reception of finds and offers, that is, losses are not for ever.

**What the violated runs show.**
- `first_alert_reply`: `EmerAlert_Set_Interval` refuses the value already in
  force, and the kept reply is refreshed only when it accepts. A client whose
  first request is -1 (off) reads 0 (on) in the reply.
- `queue_loss`: the pop writes `head` without a lock. When an interrupt
  overflows the ring in between, `head` moves twice or moves back, and newer
  events than the oldest are lost.

**Other observations.**
- *Rings at start-up.* Both kinds overflow while `initLwip` waits. In the ToF
  ring this cuts a packet, and the next ones are followed after it. In the
  echo ring the oldest event goes, which may be the rise of a kept fall.
- *Microseconds.* Computed in `float`, they are exact for the first 0.17 s only.
  After an hour they come in steps of more than 250, or 4 cm of echo. They never
  go back, which is what `NeverGoesBack` checks.
- *Tone.* `Buzzer_Off` stops the timer and leaves the pin as it is, high or low,
  and one late interrupt may still toggle it.
- *Fragments.* Nothing lets kept fragments age, against the comment at
  `ip4_frag.c:488`: they go only when newer ones need the room.
- *Pool.* Beside the 10 pbufs that reassembly may keep, the 16 of the pool hold
  two full frames of three. Echo requests from hosts whose addresses are not
  known take theirs to the ARP table, so the branch at `netif.c:417` can be
  reached, with the frame left to block the ring. ARP gives the pbufs up after
  5 s at most, but its timer stands still without a link; then the frame waits
  for the link. The rule at `opt.h:788` sees to fragments alone.
- *Addresses.* The table outlives the link, and a host that changes its address
  silently is not found until the entry expires: `SentToNewestAddress` says what
  the board was told, not what is so.
- *Sending.* The wait for a descriptor has no limit. If the transmit DMA stops
  for good, so do reception, timers, sensors and alert. `EveryFrameTaken` rests
  on a DMA that sends.
- *Port writes.* In a build without bit instructions a trigger toggle between
  load and store is lost. The count goes on, so the pin is inverted from then.
  `TriggerIsShort` is about builds with them.
- *Echo.* The conversion to millimetres overflows for echoes beyond 6.2 s.
- *Wheels.* They keep their last speed if the client or the link disappears.
  The code has no supervision of that, so there is no property to state.
- *Offers.* They count for 10 s and are renewed after more than 10 s, so the
  services are unknown to clients for a moment in each period. A client that
  drops requests for an unknown service loses some then. This is why
  `KnownAgainAndAgain` does not say `<>[]`.
- *Relay.* With the address it is configured with it repeats its own
  broadcasts for ever, despite its loop protection. With the address of its
  host it ignores the vsomeip client on that host, whose finds it is there to
  repeat. `NothingRelayedTwice` and `FindsAreAnswered` each hold for one of the
  two settings only.

## 4. The proofs

For every value of the constants that satisfies their assumptions:

- `VehicleControlProofs`. All safety properties of `vehicle_control`:
  `TypeCorrect`, `SeenAndHeard`, `FollowedInterval`, `ReportsMatch`,
  `ReplyStaleOnlyAtFirst`, `AlertOwnsItsOutputs`, `WheelsMove`.
  `AlertIsSeenAndHeard` is not inductive by itself. A client may move the
  buzzer whenever the interval is negative, so one needs that the alert is off
  then: `AlertFollowedInterval`, which in turn holds because only `Update`
  opens the way to the next request. `IInv` conjoins these with the agreement of
  flags and pins, timer and flag, divisor and frequency, channels and report.
  One lemma per action shows `IInv` preserved; lemmas about the drivers' operators
  (`LedOps`, `BuzzerOps`, `SpeedRange`, `MotorOps`) carry the detail.
- `TimersProofs`, on the lwIP timers. `TypeCorrect` and `NothingLost` for any
  periods. The inductive invariant adds that interrupts are disabled between
  reading and restoring, and which flags the poll still holds at each point.
- `TimersProofs`, on the system timer. `NoTornRead`: a read returns a value
  between call and return, for halves of any size. The invariant `InCall` says
  what the registers hold at each point: the first upper half lies between the
  call and now; and if the upper half has still not moved when it is read again,
  so does the pair. `TimeNeverGoesBack`: the microseconds one caller reads never
  decrease, for any precision, frequency and counter. Calls do not overlap
  (`CallAfterResult`), so their results are in order; then it is arithmetic.
  Rounding to a multiple of one unit keeps the order (`NearestMonotone`). Where
  the unit grows between two quotients, the smaller one is rounded to at most
  the power of two between them and the larger one to at least that
  (`UlpGrows`, `QuotientMonotone`).
- `EventQueueProofs`. For rings of any capacity, events of one word or two, in
  both builds: nothing is handed on that was not pushed (`OnlyPushed`), and the
  ring implements `DropOldestFifo` until `raced` (`Implements`). The first half
  is about the ring as a sequence, `Held(b, h, t)`: a push with room appends to
  it (`HeldPush`), one without drops its head too (`HeldPushFull`), a pop takes
  its tail (`HeldPop`). The invariant then says that until `raced` the pop is at
  the oldest element and its words are that element's (`PopInv`); and that every
  slot has been written, or else the ring has not come round yet (`AllWritten`,
  `Young`), which is what `OnlyPushed` needs once a pop may be anywhere.
- `NetifProofs`, over both halves together. Pbuf accounting (`PbufsAccounted`);
  with a pool for a full reassembly and one frame, a frame is blocked only by
  pbufs that ARP holds, which suffice for it and have a time left
  (`BlockedByArpOnly`); frames are handed over once and in order, and sent so; for
  rings of any size and bursts of any length.
  `RingInv` says that the descriptors in the driver's hands are the window from
  its position to the DMA's, numbered consecutively, and `TxRingInv` the same of
  those in the transmit DMA's hands; `PollInv` what the poll holds between two
  accesses; `PoolInv` where each pbuf is, and that what waits at ARP has time left.
- `Gpt12Proofs`. Directions as asked in either build, the trigger short in an
  atomic one, the tone following its frequency. What is missing for induction
  is what the copy holds while a store is due (`PinsInv`), and how count,
  divisor and the history of the tone go together (`ToneInv`). That
  the divisor is never 0 is part of `TypeCorrect`.
- `AddressingProofs`, on `Arp`. For any table, hosts and ages: one entry per host, packets
  accounted for, packets to the newest address. `EntriesInv` says what an entry
  of each state contains, `Distinct` that no host is in two, `HeldInv`
  that no pbuf is either and references are those of the table. That there is a free pbuf to
  send follows by counting, as the pool is larger than the table; that the
  search always finds an entry, by taking the oldest of a finite set.
  `UsedIsAskedFor` is about a history: an address that was used in every second
  since it grew old has been asked for in every other one. The invariant
  `AskedSoFar` counts the requests by the age of the entry and by where it is
  between two of them: about to ask, asked in this second, or in the second
  after.
- `AddressingProofs`, on `Discovery`. That a relay that knows its own address
  never repeats what it sent: all it has repeated carries that address
  (`RelayedFromPi`).
- `ToFSensorProofs`. For a ring, a packet and a limit of bytes per call of any
  size, and data that looks like a header wherever it may: every sample carries
  the time of its own header (`StampCorrect`), the kept one is the newest
  (`KeptCorrect`), and after a sample comes that of the next packet
  (`NoPacketSkipped`), all until the ring of a running loop overflows. `RingInv`
  says that the bytes in the ring are consecutive and a marked slot has the
  stamp of its own byte; `PacketInv` that the packet under assembly continues
  into the ring, with the start of its first byte; `InStep` that after a sample
  the next packet begins where the last one ended, so that a byte that only
  looks like a header is never taken for one.
- `UltrasonicProofs`. For a queue and a filter of any size: a distance is
  measured over one pulse (`PairsCorrect`), however late the interrupt, until
  the queue of a running loop overflows; no pulse is skipped if the interrupt is
  in time (`NoPulseSkipped`); and the running sum of the filter is the sum of the
  last distances (`FilterCorrect`). `EventsInv` says which event follows each one
  of the queue, the one still to come included; `PairInv` the same of the rise
  the loop keeps; `FilterInv` where in the ring of the filter the last distances
  are. That replacing the oldest value changes the sum by the difference
  (`TotalAppend` and the lemmas after it) is proved by induction.

Induction. The library's induction theorems take the formula as an operator,
which the installed provers cannot instantiate. `UpTo` and `From` state it for a
set instead, and follow from the least member of a set of numbers; `Sums` and
`Power` are recursive functions whose equations are proved from it.

The type invariants of all these modules are proved (that of `StmClock` as a part
of its `ReadInv`), so no run checks them.

The assumptions are the named `ASSUME`s of the modules: positive maximum
frequency and periods, an alert frequency within the limit, -1 among the
intervals, inputs that are numbers, sizes that are positive, pools large
enough, ages in their order.

Every invariant and every action property of the passing runs is proved. Only
model-checked is liveness, which the prover cannot reason about under fairness:
`AlertObeysInterval`, `Drains`, `PeriodsAttended`, `LinkFollowsPhy`,
`SamplesKeepComing`, `EveryFrameTaken`, `ReceiverResumes`,
`EveryFrameSent`, `WaitEnds`, `FindsAreAnswered`, `KnownAgainAndAgain` and
`DeadBoardForgotten`.

## 5. Not modelled, and the plan

Modelled first was what acts on the car (`VehicleControl`), then the shared
state of interrupts and loop (`EventQueue`, `LwipTimers`, `PortPins`,
`StmClock`), the sensors over it, reception and discovery; then sending and the
loop it shares with reception (`Netif`), the timer interrupts together
(`Gpt12`), address resolution (`Arp`), and the proofs of all of these. Next, in
this order:

1. Proofs: what the liveness properties rest on that is safety, such as the
   bound on the age of a waiting entry.
2. Which datagram a kept fragment belongs to (`ip4_reass`), now a count of pbufs.
3. Start-up order: what each driver may be asked before it is initialised, and
   the board that returns from `core0_main` when the network does not start.
4. The light-sensor method of service 1, which reads a converter result and
   keeps nothing.

Not modelled and not planned: the client script of the Pi, which sends fixed
requests and keeps no state; the PHY driver beyond the status it returns;
console, ADC and PWM drivers; Bluetooth. Most of the repository's lines are parts
of lwIP that do nothing here: sockets, netconn, IPv6, PPP and DHCP are
configured out (`lwipopts.h`, `opt.h`), and TCP is compiled in but opens and
listens on no port.
