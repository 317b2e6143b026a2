-------------------------------- MODULE Gpt12 --------------------------------
(* The two timer interrupts of BSW/Driver/gpt12.c against the main loop: T3   *)
(* triggers the ultrasonic sensors on the port of the motor directions, T6    *)
(* makes the tone.  While the main loop is between the load and the store of  *)
(* a port it does nothing else; the interrupts come at any time.              *)
EXTENDS PortPins, BuzzerTone

gptVars == <<vars, toneVars>>

-----------------------------------------------------------------------------

GptInit == Init /\ ToneInit

\* T3 and T6 and their handlers.
Interrupts ==
    \/ Ultrasonic_Trigger /\ UNCHANGED toneVars
    \/ (UnderflowT6 \/ Buzzer_Buzz) /\ UNCHANGED vars

MotorRequest ==
    /\ \/ StorePort
       \/ \E channel \in Channels, dir \in BOOLEAN :
              GPIO_SetMotorDir(channel, dir) \/ LoadPort(channel, dir)
    /\ UNCHANGED toneVars

\* Frequencies the setter takes, and one beyond either limit.
BuzzerRequest ==
    /\ pc = "idle"
    /\ SwitchTone \/ \E freq \in 0 .. MAX_FREQ + 1 : ChangeTone(freq)
    /\ UNCHANGED vars

GptNext == Interrupts \/ MotorRequest \/ BuzzerRequest

GptSpec == GptInit /\ [][GptNext]_gptVars

=============================================================================
