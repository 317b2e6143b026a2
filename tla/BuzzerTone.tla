----------------------------- MODULE BuzzerTone ------------------------------
(* The tone of BSW/IO/Buzzer.c: while timer T6 runs, its interrupt counts     *)
(* modulo cntMax and toggles the pin at each 0.  The main loop changes the    *)
(* divisor under it at any time, and starts and stops the timer, which leaves *)
(* count and pin as they are, and a request of the timer pending.             *)
EXTENDS Buzzer

VARIABLES
    buzzerPin,      \* P23.1
    toneDelay,      \* cntDelay of Buzzer_Buzz
    t6Request,      \* an interrupt of T6 is pending
    since,          \* history: interrupts since the last toggle or new divisor
    steady          \* history: the last of the two was a toggle

toneVars == <<buzzerVars, buzzerPin, toneDelay, t6Request, since, steady>>

ToneTypeOK ==
    /\ BuzzerTypeOK
    /\ buzzerPin \in BOOLEAN
    /\ toneDelay \in 0 .. MAX_FREQ - 1
    /\ t6Request \in BOOLEAN
    /\ since \in 0 .. MAX_FREQ
    /\ steady \in BOOLEAN

-----------------------------------------------------------------------------

ToneInit ==
    /\ Buzzer_Init
    /\ buzzerPin = FALSE
    /\ toneDelay = 0
    /\ t6Request = FALSE
    /\ since = 0
    /\ steady = FALSE

\* The main loop: a request of service 2, or the alert.
ChangeTone(freq) ==
    /\ Buzzer_SetFrequency(freq)
    /\ IF cntMax' = cntMax THEN UNCHANGED <<since, steady>> ELSE since' = 0 /\ steady' = FALSE
    /\ UNCHANGED <<buzzerIsOn, t6Running, buzzerPin, toneDelay, t6Request>>

SwitchTone ==
    /\ Buzzer_On \/ Buzzer_Off
    /\ UNCHANGED <<frequency, cntMax, buzzerPin, toneDelay, t6Request, since, steady>>

\* T6 underflows; a request that is still pending absorbs this one.
UnderflowT6 ==
    /\ t6Running
    /\ t6Request' = TRUE
    /\ UNCHANGED <<buzzerVars, buzzerPin, toneDelay, since, steady>>

\* A plausible slip: the count is compared with the divisor.
NextDelay_Equal(delay) == IF delay + 1 = cntMax THEN 0 ELSE delay + 1

NextDelay(delay) == (delay + 1) % cntMax

\* IsrGpt2T6Handler, Buzzer_Buzz, GPIO_ToggleBuzzer; also once after a stop.
Buzzer_Buzz ==
    /\ t6Request
    /\ t6Request' = FALSE
    /\ toneDelay' = NextDelay(toneDelay)
    /\ IF toneDelay = 0
       THEN buzzerPin' = ~buzzerPin /\ since' = 0 /\ steady' = TRUE
       ELSE since' = since + 1 /\ UNCHANGED <<buzzerPin, steady>>
    /\ UNCHANGED buzzerVars

-----------------------------------------------------------------------------

\* The tone follows its frequency: wherever the count was when the divisor
\* changed, the pin toggles within one interrupt more than the new divisor,
\* and from then on once in so many, pauses of the timer left out.
ToneFollowsFrequency ==
    [][/\ since' <= cntMax'
       /\ buzzerPin' # buzzerPin /\ steady => since = cntMax - 1]_toneVars

=============================================================================
