------------------------------ MODULE PortPins -------------------------------
(* BSW/Driver/GPIO.c, port P10: the direction pins of the two motor channels, *)
(* written by the main loop, and the trigger pin of the ultrasonic sensors,   *)
(* toggled by the interrupt of timer T3 (Ultrasonic_Trigger).  All three are  *)
(* bits of one register.  Whether an assignment to a bit-field of it is one   *)
(* access or a load and a store of the whole register is up to the build:     *)
(* the variable atomic is that choice.                                        *)
EXTENDS Naturals

CONSTANTS
    CNT_MAX,        \* periods of T3 between two triggers: 10
    BUILDS          \* the builds considered, a subset of BOOLEAN

ASSUME PortAssumption ==
    /\ CNT_MAX \in Nat
    /\ CNT_MAX > 2
    /\ BUILDS \subseteq BOOLEAN

VARIABLES
    out,            \* the bits of MODULE_P10.OUT
    cntDelay,       \* cntDelay of Ultrasonic_Trigger
    atomic,         \* whether this build writes a bit-field in one access
    pc,             \* the main loop: "idle", or to "store" what it loaded
    copy,           \* the register as the main loop loaded it
    asked           \* history: the direction last asked for of each channel

vars == <<out, cntDelay, atomic, pc, copy, asked>>

Channels == {1, 2}
UltTrig == 4
Pins == Channels \cup {UltTrig}    \* P10.1, P10.2, P10.4

TypeOK ==
    /\ out \in [Pins -> BOOLEAN]
    /\ cntDelay \in 0 .. CNT_MAX - 1
    /\ atomic \in BUILDS
    /\ pc \in {"idle", "store"}
    /\ copy \in [Pins -> BOOLEAN]
    /\ asked \in [Channels -> BOOLEAN]

-----------------------------------------------------------------------------

\* After Ultrasonic_Init: T3 runs, the trigger pin is low, and Motor_Init has
\* not set the directions yet.
Init ==
    /\ out = [pin \in Pins |-> FALSE]
    /\ cntDelay = 0
    /\ atomic \in BUILDS
    /\ pc = "idle"
    /\ copy = out
    /\ asked = [channel \in Channels |-> FALSE]

\* GPIO_SetMotorDir in one access ...
GPIO_SetMotorDir(channel, dir) ==
    /\ pc = "idle"
    /\ atomic
    /\ asked' = [asked EXCEPT ![channel] = dir]
    /\ out' = [out EXCEPT ![channel] = dir]
    /\ UNCHANGED <<cntDelay, atomic, pc, copy>>

\* A plausible slip: the first case falls through to the second.
LoadPort_FallsThrough(channel, dir) ==
    /\ pc = "idle"
    /\ ~atomic
    /\ asked' = [asked EXCEPT ![channel] = dir]
    /\ copy' = [pin \in Pins |-> IF pin \in channel .. 2 THEN dir ELSE out[pin]]
    /\ pc' = "store"
    /\ UNCHANGED <<out, cntDelay, atomic>>

\* ... or in two: load the register and change the bit ...
LoadPort(channel, dir) ==
    /\ pc = "idle"
    /\ ~atomic
    /\ asked' = [asked EXCEPT ![channel] = dir]
    /\ copy' = [out EXCEPT ![channel] = dir]
    /\ pc' = "store"
    /\ UNCHANGED <<out, cntDelay, atomic>>

\* ... and store it.
StorePort ==
    /\ pc = "store"
    /\ out' = copy
    /\ pc' = "idle"
    /\ UNCHANGED <<cntDelay, atomic, copy, asked>>

\* A plausible slip: one period too many.
Ultrasonic_Trigger_Long ==
    /\ out' = IF cntDelay <= 2 THEN [out EXCEPT ![UltTrig] = ~out[UltTrig]] ELSE out
    /\ cntDelay' = (cntDelay + 1) % CNT_MAX
    /\ UNCHANGED <<atomic, pc, copy, asked>>

\* IsrGpt1T3Handler, Ultrasonic_Trigger, GPIO_ToggleUltTrig.  The main loop does
\* not run meanwhile.
Ultrasonic_Trigger ==
    /\ out' = IF cntDelay < 2 THEN [out EXCEPT ![UltTrig] = ~out[UltTrig]] ELSE out
    /\ cntDelay' = (cntDelay + 1) % CNT_MAX
    /\ UNCHANGED <<atomic, pc, copy, asked>>

Next ==
    \/ Ultrasonic_Trigger
    \/ StorePort
    \/ \E channel \in Channels, dir \in BOOLEAN :
           GPIO_SetMotorDir(channel, dir) \/ LoadPort(channel, dir)

Spec == Init /\ [][Next]_vars

-----------------------------------------------------------------------------
(* Properties.                                                               *)

\* In either build the wheels turn as they were told: what the interrupt writes
\* never undoes a direction.
DirectionsAsAsked == pc = "idle" => \A channel \in Channels : out[channel] = asked[channel]

\* With writes in one access the trigger pin is high for one period of T3 in
\* CNT_MAX, and low otherwise.  (Were a toggle lost under a store of the main
\* loop, it would be the other way round from then on.)
TriggerIsShort == atomic => (out[UltTrig] <=> cntDelay = 1)

=============================================================================
