-------------------------------- MODULE Leds --------------------------------
(* BSW/IO/LED.c: three logical lights over four port pins.                    *)
(*                                                                           *)
(* The driver keeps a flag per light (isOn) next to the pins it drives; every *)
(* operation writes both.  A side received from the network is a byte, so it *)
(* may name no light: the switch of every operation then returns early, but  *)
(* LED_GetData indexes isOn without a check.                                 *)
EXTENDS Integers

LED_BACK == 0
LED_FRONT_DOWN == 1
LED_FRONT_UP == 2

LedSide == {LED_BACK, LED_FRONT_DOWN, LED_FRONT_UP}

LedPins == 1 .. 4

VARIABLES
    ledIsOn,    \* isOn[LED_SIDE_COUNT]
    ledPin      \* the output level GPIO_SetLed / GPIO_ToggleLed leave on a pin

ledVars == <<ledIsOn, ledPin>>

LedTypeOK ==
    /\ ledIsOn \in [LedSide -> BOOLEAN]
    /\ ledPin \in [LedPins -> BOOLEAN]

-----------------------------------------------------------------------------

\* The pins the switch of LED_On, LED_Off and LED_Toggle drives for a side.
PinsOf(side) ==
    CASE side = LED_BACK -> {3, 4}
      [] side = LED_FRONT_DOWN -> {2}
      [] OTHER -> {1}

LED_Init ==
    /\ ledPin = [i \in LedPins |-> FALSE]
    /\ ledIsOn = [side \in LedSide |-> FALSE]

LED_On(side) ==
    IF side \in LedSide
    THEN /\ ledPin' = [i \in LedPins |-> IF i \in PinsOf(side) THEN TRUE ELSE ledPin[i]]
         /\ ledIsOn' = [ledIsOn EXCEPT ![side] = TRUE]
    ELSE UNCHANGED ledVars

LED_Off(side) ==
    IF side \in LedSide
    THEN /\ ledPin' = [i \in LedPins |-> IF i \in PinsOf(side) THEN FALSE ELSE ledPin[i]]
         /\ ledIsOn' = [ledIsOn EXCEPT ![side] = FALSE]
    ELSE UNCHANGED ledVars

LED_Toggle(side) ==
    IF side \in LedSide
    THEN /\ ledPin' = [i \in LedPins |-> IF i \in PinsOf(side) THEN ~ledPin[i] ELSE ledPin[i]]
         /\ ledIsOn' = [ledIsOn EXCEPT ![side] = ~ledIsOn[side]]
    ELSE UNCHANGED ledVars

\* What LED_GetData may return for the flag: beyond the array, any byte.
LED_GetData(side) == IF side \in LedSide THEN {ledIsOn[side]} ELSE BOOLEAN

-----------------------------------------------------------------------------

\* The flags the replies are built from agree with the pins.
LedsShow == \A side \in LedSide : \A i \in PinsOf(side) : ledPin[i] = ledIsOn[side]

=============================================================================
