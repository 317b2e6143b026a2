----------------------------- MODULE Gpt12Proofs -----------------------------
(* The two timer interrupts against the main loop: the pins of port P10 for   *)
(* any number of periods between two triggers, and the tone for any range of  *)
(* frequencies.                                                              *)
EXTENDS Gpt12, TLAPS

-----------------------------------------------------------------------------
(* The pins.                                                                 *)

\* While a store is due, the copy holds what was asked for; the interrupt
\* changes no direction under it.
CopyAsAsked ==
    pc = "store" => \A channel \in Channels : copy[channel] = asked[channel]

\* A build that writes in one access has no store due.
AtomicIdle == atomic => pc = "idle"

PinsInv == TypeOK /\ DirectionsAsAsked /\ TriggerIsShort /\ CopyAsAsked /\ AtomicIdle

LEMMA InitPinsInv == Init => PinsInv
  BY PortAssumption
  DEF Init, PinsInv, TypeOK, DirectionsAsAsked, TriggerIsShort, CopyAsAsked, AtomicIdle,
      Channels, Pins, UltTrig

\* The interrupt: it toggles the one pin that is no direction.
LEMMA TriggerPinsInv == PinsInv /\ Ultrasonic_Trigger => PinsInv'
<1> SUFFICES ASSUME PinsInv, Ultrasonic_Trigger PROVE PinsInv'
  OBVIOUS
<1> USE DEF PinsInv, Ultrasonic_Trigger, Channels, Pins, UltTrig
<1>1. CNT_MAX \in Nat /\ CNT_MAX > 2 /\ cntDelay \in 0 .. CNT_MAX - 1
  BY PortAssumption DEF TypeOK
<1>2. /\ cntDelay' \in 0 .. CNT_MAX - 1
      /\ cntDelay' = IF cntDelay = CNT_MAX - 1 THEN 0 ELSE cntDelay + 1
  <2>1. CASE cntDelay = CNT_MAX - 1
    BY <1>1, <2>1
  <2>2. CASE cntDelay # CNT_MAX - 1
    BY <1>1, <2>2
  <2> QED
    BY <2>1, <2>2
<1>3. out' \in [Pins -> BOOLEAN] /\ \A channel \in Channels : out'[channel] = out[channel]
  BY DEF TypeOK
<1>4. TypeOK'
  BY <1>2, <1>3 DEF TypeOK
<1>5. DirectionsAsAsked'
  BY <1>3 DEF DirectionsAsAsked
<1>6. TriggerIsShort'
  <2> SUFFICES ASSUME atomic PROVE out'[UltTrig] <=> cntDelay' = 1
    BY DEF TriggerIsShort
  <2>1. out \in [Pins -> BOOLEAN] /\ (out[UltTrig] <=> cntDelay = 1)
    BY DEF TypeOK, TriggerIsShort
  <2>2. (cntDelay' = 1) <=> (cntDelay = 0)
    BY <1>1, <1>2
  <2>3. CASE cntDelay = 0
    <3>1. cntDelay < 2 /\ cntDelay # 1
      BY <2>3
    <3>2. out'[UltTrig] = ~out[UltTrig]
      BY <2>1, <3>1
    <3> QED
      BY <2>1, <2>2, <2>3, <3>1, <3>2, Zenon
  <2>4. CASE cntDelay = 1
    <3>1. cntDelay < 2 /\ cntDelay # 0
      BY <2>4
    <3>2. out'[UltTrig] = ~out[UltTrig]
      BY <2>1, <3>1
    <3> QED
      BY <2>1, <2>2, <2>4, <3>1, <3>2, Zenon
  <2>5. CASE cntDelay \notin {0, 1}
    <3>1. ~(cntDelay < 2) /\ cntDelay # 0 /\ cntDelay # 1
      BY <1>1, <2>5
    <3>2. out' = out
      BY <3>1
    <3> QED
      BY <2>1, <2>2, <3>1, <3>2, Zenon
  <2> QED
    BY <2>3, <2>4, <2>5
<1>7. CopyAsAsked' /\ AtomicIdle'
  BY DEF CopyAsAsked, AtomicIdle
<1> QED
  BY <1>4, <1>5, <1>6, <1>7

\* The main loop: it sets a direction in one access, or in two.
LEMMA MainLoopPinsInv ==
    ASSUME PinsInv,
           \/ StorePort
           \/ \E channel \in Channels, dir \in BOOLEAN :
                  GPIO_SetMotorDir(channel, dir) \/ LoadPort(channel, dir)
    PROVE  PinsInv'
<1> USE DEF PinsInv, Channels, Pins, UltTrig
<1>1. CASE StorePort
  BY <1>1 DEF StorePort, TypeOK, DirectionsAsAsked, TriggerIsShort, CopyAsAsked, AtomicIdle
<1>2. ASSUME NEW channel \in Channels, NEW dir \in BOOLEAN, GPIO_SetMotorDir(channel, dir)
      PROVE  PinsInv'
  <2>1. /\ asked' \in [Channels -> BOOLEAN]
        /\ out' \in [Pins -> BOOLEAN]
        /\ out'[UltTrig] = out[UltTrig]
    BY <1>2 DEF GPIO_SetMotorDir, TypeOK
  <2>2. TypeOK'
    BY <1>2, <2>1 DEF GPIO_SetMotorDir, TypeOK
  <2>3. DirectionsAsAsked'
    BY <1>2 DEF GPIO_SetMotorDir, TypeOK, DirectionsAsAsked
  <2>4. TriggerIsShort'
    BY <1>2, <2>1, Zenon DEF GPIO_SetMotorDir, TriggerIsShort
  <2>5. CopyAsAsked' /\ AtomicIdle'
    BY <1>2 DEF GPIO_SetMotorDir, CopyAsAsked, AtomicIdle
  <2> QED
    BY <2>2, <2>3, <2>4, <2>5
<1>3. ASSUME NEW channel \in Channels, NEW dir \in BOOLEAN, LoadPort(channel, dir)
      PROVE  PinsInv'
  BY <1>3 DEF LoadPort, TypeOK, DirectionsAsAsked, TriggerIsShort, CopyAsAsked, AtomicIdle
<1> QED
  BY <1>1, <1>2, <1>3

-----------------------------------------------------------------------------
(* The tone.                                                                 *)

\* How long it is until the count is 0: on a steady tone the count tells what
\* is left of the half-period, and from the first interrupt after a change it
\* is below the new divisor and not behind the interrupts counted.
CountInv ==
    IF steady
    THEN /\ since < cntMax
         /\ toneDelay = IF since = cntMax - 1 THEN 0 ELSE since + 1
    ELSE /\ since <= cntMax
         /\ since > 0 => toneDelay < cntMax /\ (toneDelay = 0 \/ since <= toneDelay)

ToneInv == ToneTypeOK /\ cntMax \in 1 .. MAX_FREQ /\ CountInv

\* One interrupt more, below the divisor and from anywhere (Buzzer.c:69).
LEMMA NextCount ==
    ASSUME NEW delay \in Nat, cntMax \in Nat \ {0}
    PROVE  /\ NextDelay(delay) \in 0 .. cntMax - 1
           /\ delay < cntMax => NextDelay(delay) = IF delay = cntMax - 1 THEN 0 ELSE delay + 1
  BY DEF NextDelay

\* A valid frequency has a divisor (Buzzer.c:38).
LEMMA Divisor == ASSUME NEW freq \in Frequencies PROVE MAX_FREQ \div freq \in 1 .. MAX_FREQ
  BY MaxFreqAssumption DEF Frequencies

LEMMA InitToneInv == ToneInit => ToneInv
<1> SUFFICES ASSUME ToneInit PROVE ToneInv
  OBVIOUS
<1>1. /\ MAX_FREQ \in Nat \ {0}
      /\ frequency \in Frequencies /\ cntMax \in 1 .. MAX_FREQ /\ cntMax \in Nat
  BY MaxFreqAssumption DEF ToneInit, Buzzer_Init, Frequencies
<1>2. toneDelay \in 0 .. MAX_FREQ - 1 /\ since \in 0 .. MAX_FREQ
  BY <1>1 DEF ToneInit
<1>3. ~steady /\ {buzzerIsOn, t6Running, buzzerPin, t6Request, steady} \subseteq BOOLEAN
  BY DEF ToneInit, Buzzer_Init
<1>4. CountInv
  <2>1. since <= cntMax /\ ~(since > 0)
    BY <1>1 DEF ToneInit
  <2> QED
    BY <1>3, <2>1, Zenon DEF CountInv
<1> QED
  BY <1>1, <1>2, <1>3, <1>4, Zenon DEF ToneInv, ToneTypeOK, BuzzerTypeOK

LEMMA BuzzToneInv == ToneInv /\ Buzzer_Buzz => ToneInv'
<1> SUFFICES ASSUME ToneInv, Buzzer_Buzz PROVE ToneInv'
  OBVIOUS
<1>1. /\ MAX_FREQ \in Nat \ {0} /\ cntMax \in 1 .. MAX_FREQ /\ cntMax' = cntMax
      /\ toneDelay \in 0 .. MAX_FREQ - 1 /\ since \in 0 .. MAX_FREQ
  BY MaxFreqAssumption DEF ToneInv, ToneTypeOK, Buzzer_Buzz, buzzerVars
<1>2. /\ toneDelay' \in 0 .. cntMax - 1
      /\ toneDelay < cntMax
             => toneDelay' = IF toneDelay = cntMax - 1 THEN 0 ELSE toneDelay + 1
  BY <1>1, NextCount DEF Buzzer_Buzz
<1>3. CountInv'
  BY <1>1, <1>2 DEF ToneInv, CountInv, Buzzer_Buzz
<1>4. BuzzerTypeOK' /\ t6Request' \in BOOLEAN
  BY DEF ToneInv, ToneTypeOK, BuzzerTypeOK, Buzzer_Buzz, buzzerVars
<1>5. buzzerPin' \in BOOLEAN /\ steady' \in BOOLEAN
  BY DEF ToneInv, ToneTypeOK, Buzzer_Buzz
<1>6. toneDelay' \in 0 .. MAX_FREQ - 1 /\ since' \in 0 .. MAX_FREQ
  BY <1>1, <1>2 DEF ToneInv, CountInv, Buzzer_Buzz
<1> QED
  BY <1>1, <1>3, <1>4, <1>5, <1>6 DEF ToneInv, ToneTypeOK

\* The main loop and the timer leave the count alone; a new divisor starts the
\* history anew.
LEMMA RequestToneInv ==
    ASSUME ToneInv, SwitchTone \/ UnderflowT6 \/ \E freq \in 0 .. MAX_FREQ + 1 : ChangeTone(freq)
    PROVE  ToneInv'
<1>1. CASE SwitchTone
  BY <1>1 DEF SwitchTone, Buzzer_On, Buzzer_Off, ToneInv, ToneTypeOK, BuzzerTypeOK, CountInv
<1>2. CASE UnderflowT6
  BY <1>2 DEF UnderflowT6, buzzerVars, ToneInv, ToneTypeOK, BuzzerTypeOK, CountInv
<1>3. ASSUME NEW freq \in 0 .. MAX_FREQ + 1, ChangeTone(freq) PROVE ToneInv'
  <2>1. frequency' \in Frequencies /\ cntMax' \in 1 .. MAX_FREQ /\ cntMax' \in Nat
    BY <1>3, Divisor DEF ChangeTone, Buzzer_SetFrequency, ToneInv, ToneTypeOK, BuzzerTypeOK
  <2>2. CASE cntMax' = cntMax
    BY <1>3, <2>1, <2>2 DEF ChangeTone, ToneInv, ToneTypeOK, BuzzerTypeOK, CountInv
  <2>3. CASE cntMax' # cntMax
    <3>1. since' = 0 /\ steady' = FALSE
      BY <1>3, <2>3 DEF ChangeTone
    <3>2. since' \in 0 .. MAX_FREQ /\ since' <= cntMax' /\ ~(since' > 0)
      BY <2>1, <3>1, MaxFreqAssumption
    <3>3. CountInv'
      BY <3>1, <3>2, Zenon DEF CountInv
    <3>4. /\ {buzzerIsOn', t6Running', buzzerPin', t6Request', steady'} \subseteq BOOLEAN
          /\ toneDelay' \in 0 .. MAX_FREQ - 1
      BY <1>3, <3>1 DEF ChangeTone, ToneInv, ToneTypeOK, BuzzerTypeOK
    <3> QED
      BY <2>1, <3>2, <3>3, <3>4, Zenon DEF ToneInv, ToneTypeOK, BuzzerTypeOK
  <2> QED
    BY <2>2, <2>3
<1> QED
  BY <1>1, <1>2, <1>3

-----------------------------------------------------------------------------
(* Both.                                                                     *)

GptInv == PinsInv /\ ToneInv

LEMMA Stutters ==
    /\ PinsInv /\ UNCHANGED vars => PinsInv'
    /\ ToneInv /\ UNCHANGED toneVars => ToneInv'
<1>1. PinsInv /\ UNCHANGED vars => PinsInv'
  BY DEF PinsInv, TypeOK, DirectionsAsAsked, TriggerIsShort, CopyAsAsked, AtomicIdle, vars
<1>2. ToneInv /\ UNCHANGED toneVars => ToneInv'
  BY DEF ToneInv, ToneTypeOK, BuzzerTypeOK, CountInv, toneVars, buzzerVars
<1> QED
  BY <1>1, <1>2

LEMMA NextGptInv == GptInv /\ [GptNext]_gptVars => GptInv'
<1> SUFFICES ASSUME GptInv, [GptNext]_gptVars PROVE GptInv'
  OBVIOUS
<1>1. CASE Interrupts
  BY <1>1, Stutters, TriggerPinsInv, RequestToneInv, BuzzToneInv DEF GptInv, Interrupts
<1>2. CASE MotorRequest
  BY <1>2, Stutters, MainLoopPinsInv DEF GptInv, MotorRequest
<1>3. CASE BuzzerRequest
  BY <1>3, Stutters, RequestToneInv DEF GptInv, BuzzerRequest
<1>4. CASE UNCHANGED gptVars
  BY <1>4, Stutters DEF GptInv, gptVars
<1> QED
  BY <1>1, <1>2, <1>3, <1>4 DEF GptNext

LEMMA Invariance == GptSpec => []GptInv
<1>1. GptInit => GptInv
  BY InitPinsInv, InitToneInv DEF GptInit, GptInv
<1> QED
  BY <1>1, NextGptInv, PTL DEF GptSpec

\* Pins and counts keep their types, so no count passes its limit, and the tone
\* interrupt never divides by zero.
THEOREM TypeCorrect == GptSpec => [](TypeOK /\ ToneTypeOK /\ cntMax # 0)
<1>1. GptInv => TypeOK /\ ToneTypeOK /\ cntMax # 0
  BY MaxFreqAssumption DEF GptInv, PinsInv, ToneInv
<1> QED
  BY <1>1, Invariance, PTL

\* In either build, no order of interrupts and writes undoes a direction.
THEOREM DirectionsKept == GptSpec => []DirectionsAsAsked
<1>1. GptInv => DirectionsAsAsked
  BY DEF GptInv, PinsInv
<1> QED
  BY <1>1, Invariance, PTL

\* A build that writes a pin in one access never stretches the trigger.
THEOREM TriggerShort == GptSpec => []TriggerIsShort
<1>1. GptInv => TriggerIsShort
  BY DEF GptInv, PinsInv
<1> QED
  BY <1>1, Invariance, PTL

\* Buzzer.c:60: wherever the count is when a request or the alert changes the
\* divisor, the pin toggles soon after, and at the new frequency from then on.
THEOREM ToneFollows == GptSpec => ToneFollowsFrequency
<1>1. ASSUME GptInv, GptInv', [GptNext]_gptVars
      PROVE  [/\ since' <= cntMax'
              /\ buzzerPin' # buzzerPin /\ steady => since = cntMax - 1]_toneVars
  <2>1. since' <= cntMax'
    <3>1. since' \in Int /\ cntMax' \in Int /\ CountInv'
      BY <1>1 DEF GptInv, ToneInv, ToneTypeOK
    <3>2. since' < cntMax' \/ since' <= cntMax'
      BY <3>1, Zenon DEF CountInv
    <3> QED
      BY <3>1, <3>2
  <2>2. ASSUME buzzerPin' # buzzerPin, steady PROVE since = cntMax - 1
    <3>1. Buzzer_Buzz
      BY <1>1, <2>2
      DEF GptNext, gptVars, Interrupts, MotorRequest, BuzzerRequest, UnderflowT6, SwitchTone,
          ChangeTone, toneVars
    <3>2. toneDelay = 0
      BY <2>2, <3>1 DEF Buzzer_Buzz
    <3> QED
      BY <1>1, <2>2, <3>2 DEF GptInv, ToneInv, ToneTypeOK, CountInv
  <2> QED
    BY <2>1, <2>2
<1> QED
  BY <1>1, Invariance, PTL DEF GptSpec, ToneFollowsFrequency

=============================================================================
