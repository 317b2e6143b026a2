------------------------------ MODULE EmerAlert ------------------------------
(* BSW/Controller/emer_alert.c: the emergency alert, which blinks the rear   *)
(* light and sounds the buzzer.  A negative interval means off, zero         *)
(* steadily on, a positive one the half period of the blinking in ms.        *)
(*                                                                           *)
(* Time.  The code compares cur_time_ms - last_toggle_time_ms with the       *)
(* interval.  The model keeps that difference, and the uptime, counted up to *)
(* HORIZON: exact for every interval up to HORIZON, and an interval beyond   *)
(* HORIZON stands for one longer than the car will ever run.  Setting        *)
(* last_toggle_time_ms to 0 makes the difference the uptime.                 *)
EXTENDS Leds, Buzzer

CONSTANTS
    INTERVALS,  \* the intervals clients ask for
    ALERT_FREQ, \* 500 in the code
    HORIZON,    \* bound on the milliseconds counted
    BOOT_TIME   \* the uptime when the main loop starts

ASSUME AlertAssumption ==
    /\ INTERVALS \subseteq Int
    /\ -1 \in INTERVALS
    /\ ALERT_FREQ \in Frequencies
    /\ HORIZON \in Nat
    /\ BOOT_TIME \in 0 .. HORIZON

VARIABLES
    interval,   \* g_toggle_interval_ms
    isAlertOn,  \* isAlertOn
    uptime,     \* STM0_getTimeMs(), up to HORIZON
    elapsed     \* STM0_getTimeMs() - last_toggle_time_ms, up to HORIZON

alertVars == <<interval, isAlertOn, uptime, elapsed>>

AlertTypeOK ==
    /\ interval \in INTERVALS
    /\ isAlertOn \in BOOLEAN
    /\ uptime \in 0 .. HORIZON
    /\ elapsed \in 0 .. HORIZON

-----------------------------------------------------------------------------

EmerAlert_Init ==
    /\ interval = -1
    /\ isAlertOn = FALSE
    /\ uptime = BOOT_TIME
    /\ elapsed = BOOT_TIME

Count(ms) == IF ms < HORIZON THEN ms + 1 ELSE ms

\* The system timer advances by a millisecond.
STM0_Tick ==
    /\ uptime < HORIZON \/ elapsed < HORIZON
    /\ uptime' = Count(uptime)
    /\ elapsed' = Count(elapsed)

\* What the alert does to the rear light and the buzzer when it turns on, off.
AlertOutputsOn ==
    /\ LED_On(LED_BACK)
    /\ Buzzer_SetFrequency(ALERT_FREQ)
    /\ Buzzer_On

AlertOutputsOff ==
    /\ LED_Off(LED_BACK)
    /\ Buzzer_Off
    /\ UNCHANGED <<frequency, cntMax>>

EmerAlert_On ==
    IF ~isAlertOn
    THEN AlertOutputsOn /\ isAlertOn' = TRUE
    ELSE UNCHANGED <<ledVars, buzzerVars, isAlertOn>>

EmerAlert_Off ==
    IF isAlertOn
    THEN AlertOutputsOff /\ isAlertOn' = FALSE
    ELSE UNCHANGED <<ledVars, buzzerVars, isAlertOn>>

EmerAlert_Toggle ==
    /\ isAlertOn' = ~isAlertOn
    /\ IF ~isAlertOn THEN AlertOutputsOn ELSE AlertOutputsOff

\* A plausible slip: the time stamp is taken on every pass.
UpdateBlinking_StampAlways ==
    /\ interval > 0
    /\ IF elapsed >= interval
       THEN EmerAlert_Toggle
       ELSE UNCHANGED <<ledVars, buzzerVars, isAlertOn>>
    /\ elapsed' = 0
    /\ UNCHANGED <<interval, uptime>>

\* EmerAlert_Update_Periodic, interval > 0: toggle when the interval is over.
UpdateBlinking ==
    /\ interval > 0
    /\ IF elapsed >= interval
       THEN EmerAlert_Toggle /\ elapsed' = 0
       ELSE UNCHANGED <<ledVars, buzzerVars, isAlertOn, elapsed>>
    /\ UNCHANGED <<interval, uptime>>

\* EmerAlert_Update_Periodic, interval < 0: off.
UpdateOff ==
    /\ interval < 0
    /\ EmerAlert_Off
    /\ elapsed' = uptime
    /\ UNCHANGED <<interval, uptime>>

\* EmerAlert_Update_Periodic, interval = 0: steadily on.
UpdateOn ==
    /\ interval = 0
    /\ EmerAlert_On
    /\ elapsed' = uptime
    /\ UNCHANGED <<interval, uptime>>

\* EmerAlert_Set_Interval, for an interval other than the present one.
EmerAlert_Set_Interval(ms) ==
    /\ interval' = ms
    /\ UNCHANGED <<isAlertOn, uptime, elapsed>>

=============================================================================
