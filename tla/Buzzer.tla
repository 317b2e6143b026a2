------------------------------- MODULE Buzzer -------------------------------
(* BSW/IO/Buzzer.c, the part that runs in the main loop.  The tone is made by *)
(* the T6 interrupt, which divides its 2 * MAX_FREQ rate by cntMax while the  *)
(* timer runs; here the timer is one flag.                                   *)
EXTENDS Integers

CONSTANT MAX_FREQ       \* 250000 in the code

ASSUME MaxFreqAssumption == MAX_FREQ \in Nat \ {0}

VARIABLES
    frequency,  \* frequency, Hz
    cntMax,     \* cntMax, the divisor the T6 interrupt uses
    buzzerIsOn, \* isOn
    t6Running   \* Run_Gpt12_T6 / Stop_Gpt12_T6

buzzerVars == <<frequency, cntMax, buzzerIsOn, t6Running>>

Frequencies == 1 .. MAX_FREQ

BuzzerTypeOK ==
    /\ frequency \in Frequencies
    /\ cntMax \in Nat
    /\ buzzerIsOn \in BOOLEAN
    /\ t6Running \in BOOLEAN

-----------------------------------------------------------------------------

Buzzer_Init ==
    /\ t6Running = FALSE
    /\ frequency = MAX_FREQ
    /\ cntMax = 1
    /\ buzzerIsOn = FALSE

Buzzer_SetFrequency(freq) ==
    IF freq \in Frequencies
    THEN /\ frequency' = freq
         /\ cntMax' = MAX_FREQ \div freq
    ELSE UNCHANGED <<frequency, cntMax>>

Buzzer_On ==
    IF ~buzzerIsOn
    THEN t6Running' = TRUE /\ buzzerIsOn' = TRUE
    ELSE UNCHANGED <<t6Running, buzzerIsOn>>

Buzzer_Off ==
    IF buzzerIsOn
    THEN t6Running' = FALSE /\ buzzerIsOn' = FALSE
    ELSE UNCHANGED <<t6Running, buzzerIsOn>>

=============================================================================
