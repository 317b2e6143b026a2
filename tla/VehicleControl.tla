--------------------------- MODULE VehicleControl ---------------------------
(* The control plane of the TC375: the main loop of Cpu0_Main.c with the     *)
(* SOME/IP services that actuate (SOMEIP/someip.c, services 2 and 3), the    *)
(* emergency alert and the light, buzzer and motor drivers under them.       *)
(*                                                                           *)
(* An iteration of the loop takes at most one Ethernet frame                 *)
(* (Ifx_Lwip_pollReceiveFlags), so at most one request, and then runs        *)
(* EmerAlert_Update_Periodic.  The handlers run to completion in the main    *)
(* loop; no interrupt writes their state.  The sensor queues, the lwIP       *)
(* timers and the service offers, which share no state with these, are other *)
(* modules' business.                                                        *)
(*                                                                           *)
(* A request is given by its decoded fields.  A frame too short for the      *)
(* fields its method reads leaves them to what the stack held (rxBuf is not  *)
(* initialised), which the sets of inputs cover.                             *)
EXTENDS EmerAlert, MotorController

CONSTANTS
    FREQUENCIES,    \* buzzer frequencies asked for, valid or not
    SIDES,          \* bytes received as a light
    POSITIONS       \* joystick coordinates received, valid or not

ASSUME InputsAssumption ==
    /\ FREQUENCIES \subseteq Int
    /\ SIDES \subseteq Nat
    /\ POSITIONS \subseteq Int

VARIABLES
    pc,             \* what the loop does next: "receive" or "update"
    alertReply,     \* emerAlert_latest_data.interval_ms of service 3
    motorReply,     \* motor_controller_latest_data of service 3
    reply           \* the response sent in this iteration

outputs == <<ledVars, buzzerVars>>
actuators == <<ledVars, buzzerVars, motorVars>>
caches == <<alertReply, motorReply>>
vars == <<actuators, alertVars, pc, caches, reply>>

NoReply == [method |-> "none"]

BuzzerReplies == [method : {"buzzer"}, isOn : BOOLEAN, frequency : Frequencies]
LedReplies == [method : {"led"}, side : SIDES, isOn : BOOLEAN]
AlertReplies == [method : {"alert"}, interval_ms : INTERVALS \cup {0}]
MotorReplies == [method : {"motor"}, data : MotorData]

Replies ==
    {NoReply} \cup BuzzerReplies \cup LedReplies \cup AlertReplies \cup MotorReplies

TypeOK ==
    /\ LedTypeOK
    /\ BuzzerTypeOK
    /\ AlertTypeOK
    /\ MotorTypeOK
    /\ pc \in {"receive", "update"}
    /\ alertReply \in INTERVALS \cup {0}
    /\ motorReply \in MotorData
    /\ reply \in Replies

-----------------------------------------------------------------------------

Init ==
    /\ LED_Init
    /\ Buzzer_Init
    /\ EmerAlert_Init
    /\ Motor_Init
    /\ pc = "receive"
    /\ alertReply = 0
    /\ motorReply = [x |-> 0, y |-> 0, motorChA_speed |-> 0, motorChB_speed |-> 0]
    /\ reply = NoReply

\* A plausible slip: frames are taken until none is left, then the loop goes on.
Received_Drain ==
    \/ pc = "receive" /\ pc' = "update"
    \/ pc = "receive" /\ pc' = "receive"

\* Ifx_Lwip_pollReceiveFlags hands over one frame at most.
Received == pc = "receive" /\ pc' = "update"

\* SOMEIP_Send_Data: the response goes out, or no pbuf is left or udp_sendto
\* fails and it does not.
SOMEIP_Send_Data(response) == reply' \in {response, NoReply}

\* SOMEIP_Service2_Callback, line 199.
isEmerAlertOn == interval >= 0

\* No frame, a frame that is not for us, or a request the length, service,
\* type or method tests turn away: nothing is done and nothing is sent.
NoRequest ==
    /\ Received
    /\ reply' = NoReply
    /\ UNCHANGED <<actuators, alertVars, caches>>

\* The two commands of method 0x0201 and the bytes that are neither.
BuzzerCommand(command) ==
    CASE command = 0 -> Buzzer_Off
      [] command = 1 -> Buzzer_On
      [] OTHER -> UNCHANGED <<t6Running, buzzerIsOn>>

\* A plausible slip: the alert does not keep the buzzer from clients.
Service2_Buzzer_Unguarded(command, freq) ==
    /\ Received
    /\ Buzzer_SetFrequency(freq)
    /\ BuzzerCommand(command)
    /\ SOMEIP_Send_Data([method |-> "buzzer", isOn |-> buzzerIsOn',
                         frequency |-> frequency'])
    /\ UNCHANGED <<ledVars, alertVars, motorVars, caches>>

\* Method 0x0201.  The result of Buzzer_SetFrequency is ignored.
Service2_Buzzer(command, freq) ==
    /\ Received
    /\ IF ~isEmerAlertOn
       THEN Buzzer_SetFrequency(freq) /\ BuzzerCommand(command)
       ELSE UNCHANGED buzzerVars
    /\ SOMEIP_Send_Data([method |-> "buzzer", isOn |-> buzzerIsOn',
                         frequency |-> frequency'])
    /\ UNCHANGED <<ledVars, alertVars, motorVars, caches>>

LedCommand(side, command) ==
    CASE command = 0 -> LED_Off(side)
      [] command = 1 -> LED_On(side)
      [] command = 2 -> LED_Toggle(side)
      [] OTHER -> UNCHANGED ledVars

\* A plausible slip: the alert's light is open to clients while it blinks off.
Service2_Led_WhileDark(side, command) ==
    /\ Received
    /\ IF ~(side = LED_BACK /\ isAlertOn)
       THEN LedCommand(side, command)
       ELSE UNCHANGED ledVars
    /\ \E isOn \in LED_GetData(side)' :
           SOMEIP_Send_Data([method |-> "led", side |-> side, isOn |-> isOn])
    /\ UNCHANGED <<buzzerVars, alertVars, motorVars, caches>>

\* Method 0x0202: only the rear light is the alert's.
Service2_Led(side, command) ==
    /\ Received
    /\ IF ~(side = LED_BACK /\ isEmerAlertOn)
       THEN LedCommand(side, command)
       ELSE UNCHANGED ledVars
    /\ \E isOn \in LED_GetData(side)' :
           SOMEIP_Send_Data([method |-> "led", side |-> side, isOn |-> isOn])
    /\ UNCHANGED <<buzzerVars, alertVars, motorVars, caches>>

\* A plausible slip: the kept reply is refreshed before the interval is set.
Service3_Alert_Early(ms) ==
    /\ Received
    /\ IF ms # interval
       THEN EmerAlert_Set_Interval(ms) /\ alertReply' = interval
       ELSE UNCHANGED <<alertVars, alertReply>>
    /\ SOMEIP_Send_Data([method |-> "alert", interval_ms |-> alertReply'])
    /\ UNCHANGED <<actuators, motorReply>>

\* Method 0x0301.  The kept reply is refreshed only by a change.
Service3_Alert(ms) ==
    /\ Received
    /\ IF ms # interval
       THEN EmerAlert_Set_Interval(ms) /\ alertReply' = ms
       ELSE UNCHANGED <<alertVars, alertReply>>
    /\ SOMEIP_Send_Data([method |-> "alert", interval_ms |-> alertReply'])
    /\ UNCHANGED <<actuators, motorReply>>

\* Method 0x0302.  The kept reply is refreshed only by an accepted position.
Service3_Motor(x, y) ==
    /\ Received
    /\ IF JoystickAccepted(x, y)
       THEN ProcessJoystickInput(x, y) /\ motorReply' = latest_data'
       ELSE UNCHANGED <<motorVars, motorReply>>
    /\ SOMEIP_Send_Data([method |-> "motor", data |-> motorReply'])
    /\ UNCHANGED <<ledVars, buzzerVars, alertVars, alertReply>>

\* EmerAlert_Update_Periodic, at the end of the iteration.
Update ==
    /\ pc = "update"
    /\ pc' = "receive"
    /\ reply' = NoReply
    /\ UpdateBlinking \/ UpdateOff \/ UpdateOn
    /\ UNCHANGED <<motorVars, caches>>

Tick == STM0_Tick /\ UNCHANGED <<actuators, interval, isAlertOn, pc, caches, reply>>

Receive ==
    \/ NoRequest
    \/ \E command \in 0 .. 2, freq \in FREQUENCIES : Service2_Buzzer(command, freq)
    \/ \E side \in SIDES, command \in 0 .. 3 : Service2_Led(side, command)
    \/ \E ms \in INTERVALS : Service3_Alert(ms)
    \/ \E x, y \in POSITIONS : Service3_Motor(x, y)

Next == Receive \/ Update \/ Tick

\* The loop has no blocking call in it and the timer never stops.
Fairness == WF_vars(Receive \/ Update) /\ WF_vars(Tick)

Spec == Init /\ [][Next]_vars

FairSpec == Spec /\ Fairness

-----------------------------------------------------------------------------
(* Safety.                                                                   *)

\* While the alert is on, the rear light is lit and the buzzer sounds at the
\* alert's frequency: nothing a client sends between two updates undoes what
\* EmerAlert_On or EmerAlert_Toggle did (the guards of service 2).
AlertIsSeenAndHeard ==
    isAlertOn =>
        /\ ledIsOn[LED_BACK]
        /\ \A i \in PinsOf(LED_BACK) : ledPin[i]
        /\ buzzerIsOn
        /\ t6Running
        /\ frequency = ALERT_FREQ

\* Whenever the next request is taken, the alert has already followed the
\* interval: off for a negative one, on for zero.  Service 2 guards the
\* outputs with the interval, not with isAlertOn, so it is this that keeps a
\* client from the outputs of an alert that is still on.
AlertFollowedInterval ==
    pc = "receive" =>
        /\ interval < 0 => ~isAlertOn
        /\ interval = 0 => isAlertOn

\* What the replies are built from is what the actuators do: the light flags
\* agree with the pins, the buzzer flag with the timer, the divisor the tone
\* interrupt takes a remainder by with the frequency (and it is never 0), the
\* motor reply with the two channels.
ReportsMatchActuators ==
    /\ LedsShow
    /\ buzzerIsOn = t6Running
    /\ cntMax = MAX_FREQ \div frequency
    /\ cntMax >= 1
    /\ motorReply = latest_data
    /\ MotorsShow

\* The reply kept for the alert service is the interval in force, but for the
\* time before the first change, when it is the zero the static starts with.
AlertReplyStaleOnlyAtFirst ==
    alertReply = interval \/ (alertReply = 0 /\ interval = -1 /\ ~isAlertOn)

\* emer_alert.c:68 reads "toggle_interval_ms == 0 -> on" and :63
\* "toggle_interval_ms < 0 -> off": a reply to 0x0301 tells the client which
\* of the three modes is in force.
AlertReplyTellsMode ==
    reply \in AlertReplies =>
        /\ reply.interval_ms = 0 <=> interval = 0
        /\ reply.interval_ms < 0 <=> interval < 0

-----------------------------------------------------------------------------
(* Action properties.                                                        *)

\* While the alert is active the rear light and the buzzer change only when
\* the alert itself turns on or off, whatever requests arrive.
OnlyAlertMovesItsOutputs ==
    [][ interval >= 0 /\ interval' >= 0 /\ isAlertOn' = isAlertOn =>
            /\ ledIsOn'[LED_BACK] = ledIsOn[LED_BACK]
            /\ \A i \in PinsOf(LED_BACK) : ledPin'[i] = ledPin[i]
            /\ UNCHANGED buzzerVars ]_vars

\* A request that is refused, repeated or about something else leaves the
\* wheels alone: they move only for a new position, and then both to the
\* speeds that position stands for.
WheelsMoveOnlyForNewPosition ==
    [][ UNCHANGED <<chA, chB>> \/
            /\ pre' # pre
            /\ ChannelShows(chA', RightSpeed(pre'.x, pre'.y))
            /\ ChannelShows(chB', LeftSpeed(pre'.x, pre'.y)) ]_vars

-----------------------------------------------------------------------------
(* Liveness.                                                                 *)

\* The alert obeys the interval that clients settle on: it ends up off, ends
\* up on, or blinks for ever.
AlertObeysInterval ==
    /\ <>[](interval < 0) => <>[]~isAlertOn
    /\ <>[](interval = 0) => <>[]isAlertOn
    /\ \A ms \in INTERVALS \cap 1 .. HORIZON :
           <>[](interval = ms) => []<>isAlertOn /\ []<>~isAlertOn

=============================================================================
