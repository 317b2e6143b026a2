------------------------- MODULE VehicleControlProofs -------------------------
(* What holds of the control plane for every set of intervals, sides,        *)
(* frequencies and positions, every horizon and every alert frequency.       *)
EXTENDS VehicleControl, TLAPS

-----------------------------------------------------------------------------
(* The operators.                                                            *)

\* C division of an integer by a positive one is an integer (the divisions of
\* motor_controller.c:55 and :78).
LEMMA QuotientInt == ASSUME NEW a \in Int, NEW b \in Nat \ {0}
                     PROVE  Quotient(a, b) \in Int
  BY DEF Quotient

\* The divisor Buzzer_Init sets is the one of the highest frequency.
LEMMA DivSelf == ASSUME NEW n \in Nat \ {0} PROVE n \div n = 1
  OBVIOUS

\* A clamped integer lies between the limits (my_clamp).
LEMMA ClampRange == ASSUME NEW v \in Int
                    PROVE  my_clamp(v, MOTOR_SPEED_MIN, MOTOR_SPEED_MAX) \in Speed
  BY DEF my_clamp, Speed, MOTOR_SPEED_MIN, MOTOR_SPEED_MAX

\* Both wheels get a speed in range, whatever position was accepted.
LEMMA SpeedRange == ASSUME NEW x \in Joystick, NEW y \in Joystick
                    PROVE  LeftSpeed(x, y) \in Speed /\ RightSpeed(x, y) \in Speed
  <1>1. ASSUME NEW v \in Joystick, NEW d \in {0, JOYSTICK_DEADZONE}
        PROVE  MapJoystickValue(v, d) \in Int
    <2> DEFINE offset == v - JOYSTICK_CENTER
               beyond == IF offset > 0 THEN offset - d ELSE offset + d
               reach == JOYSTICK_CENTER - d
               most == IF reach <= 0 THEN 1 ELSE reach
    <2>1. beyond * 100 \in Int /\ most \in Nat \ {0}
      BY DEF Joystick, JOYSTICK_MIN, JOYSTICK_MAX, JOYSTICK_CENTER, JOYSTICK_DEADZONE
    <2>2. Quotient(beyond * 100, most) \in Int
      BY <2>1, QuotientInt
    <2> QED  BY <2>2 DEF MapJoystickValue
  <1>2. YSpeed(y) \in Int /\ MapJoystickValue(x, JOYSTICK_DEADZONE) * 60 \in Int
    BY <1>1 DEF YSpeed
  <1>3. XSpeed(x) \in Int
    BY <1>2, QuotientInt DEF XSpeed
  <1>4. YSpeed(y) + XSpeed(x) \in Int /\ YSpeed(y) - XSpeed(x) \in Int
    BY <1>2, <1>3
  <1> QED  BY <1>4, ClampRange DEF LeftSpeed, RightSpeed

\* A channel driven at a speed in range is well formed and shows that speed.
LEMMA ChannelAtShows == ASSUME NEW speed \in Speed
                        PROVE  /\ ChannelAt(speed) \in Channel
                               /\ ChannelShows(ChannelAt(speed), speed)
  <1> DEFINE pulse == my_abs(speed) * 10
             forward == speed >= 0
             held == ~(my_abs(speed) > 0)
             ch == [duty |-> pulse, dir |-> forward, brake |-> held]
  <1>1. /\ pulse \in 0 .. 1000
        /\ forward \in BOOLEAN
        /\ held \in BOOLEAN
        /\ held <=> speed = 0
    BY DEF my_abs, Speed, MOTOR_SPEED_MIN, MOTOR_SPEED_MAX
  <1>2. ChannelAt(speed) = ch
    BY DEF ChannelAt, Motor_SetCh
  <1> HIDE DEF pulse, forward, held
  <1>3. /\ ch \in Channel
        /\ ch.duty = pulse
        /\ ch.dir <=> forward
        /\ ch.brake <=> held
    BY <1>1 DEF Channel
  <1> QED  BY <1>1, <1>2, <1>3 DEF ChannelShows, pulse, forward

\* The divisor of the tone interrupt is a positive number for every valid
\* frequency: the remainder Buzzer_Buzz takes is defined.
LEMMA DivisorPositive == ASSUME NEW f \in Frequencies
                         PROVE  MAX_FREQ \div f \in Nat /\ MAX_FREQ \div f >= 1
  BY MaxFreqAssumption DEF Frequencies

-----------------------------------------------------------------------------
(* The drivers.                                                              *)

LedInv == LedTypeOK /\ LedsShow

BuzzerInv ==
    /\ BuzzerTypeOK
    /\ buzzerIsOn = t6Running
    /\ cntMax = MAX_FREQ \div frequency
    /\ cntMax >= 1

MotorInv == MotorTypeOK /\ MotorsShow

\* The switch of LED.c gives every light pins of its own.
LEMMA PinsApart == /\ \A s \in LedSide : PinsOf(s) \subseteq LedPins
                   /\ \A s, t \in LedSide : s # t => PinsOf(s) \cap PinsOf(t) = {}
                   /\ LED_BACK \in LedSide
  BY DEF PinsOf, LedSide, LedPins, LED_BACK, LED_FRONT_DOWN, LED_FRONT_UP

\* Every operation of LED.c keeps the flags and the pins in step, for every
\* byte received as a side.
LEMMA LedOps == ASSUME LedInv, NEW side,
                       \/ LED_On(side) \/ LED_Off(side) \/ LED_Toggle(side)
                       \/ UNCHANGED ledVars
                PROVE  LedInv'
  <1>1. CASE UNCHANGED ledVars
    BY <1>1 DEF LedInv, ledVars, LedTypeOK, LedsShow, PinsOf
  <1>2. ASSUME side \in LedSide,
               \/ LED_On(side) \/ LED_Off(side) \/ LED_Toggle(side)
        PROVE  LedInv'
    <2>1. LedTypeOK'
      BY <1>2, Zenon DEF LedInv, LedTypeOK, LED_On, LED_Off, LED_Toggle
    <2>2. ASSUME NEW s \in LedSide, NEW i \in PinsOf(s)
          PROVE  ledPin'[i] = ledIsOn'[s]
      <3>1. i \in LedPins /\ ledPin[i] \in BOOLEAN /\ ledPin[i] = ledIsOn[s]
        BY <2>2, PinsApart, Zenon DEF LedInv, LedTypeOK, LedsShow
      <3>2. CASE s = side
        BY <1>2, <2>2, <3>1, <3>2, Zenon
        DEF LedInv, LedTypeOK, LED_On, LED_Off, LED_Toggle
      <3>3. CASE s # side
        <4>1. i \notin PinsOf(side)
          BY <1>2, <2>2, <3>3, PinsApart
        <4>2. ledIsOn'[s] = ledIsOn[s]
          BY <1>2, <3>3, Zenon DEF LedInv, LedTypeOK, LED_On, LED_Off, LED_Toggle
        <4>3. ledPin'[i] = ledPin[i]
          <5>1. CASE LED_On(side)
            BY <1>2, <3>1, <4>1, <5>1, Zenon DEF LED_On
          <5>2. CASE LED_Off(side)
            BY <1>2, <3>1, <4>1, <5>2, Zenon DEF LED_Off
          <5>3. CASE LED_Toggle(side)
            BY <1>2, <3>1, <4>1, <5>3, Zenon DEF LED_Toggle
          <5> QED  BY <1>2, <5>1, <5>2, <5>3
        <4> QED  BY <3>1, <4>2, <4>3
      <3> QED  BY <3>2, <3>3
    <2> QED  BY <2>1, <2>2 DEF LedInv, LedsShow, PinsOf
  <1> QED  BY <1>1, <1>2, Zenon DEF LED_On, LED_Off, LED_Toggle

\* An operation on another light leaves the rear one alone.
LEMMA OtherLight == ASSUME LedInv, NEW side, side # LED_BACK,
                           \/ LED_On(side) \/ LED_Off(side) \/ LED_Toggle(side)
                           \/ UNCHANGED ledVars
                    PROVE  /\ ledIsOn'[LED_BACK] = ledIsOn[LED_BACK]
                           /\ \A i \in PinsOf(LED_BACK) : ledPin'[i] = ledPin[i]
  <1>1. CASE UNCHANGED ledVars
    BY <1>1 DEF ledVars
  <1>2. ASSUME side \in LedSide,
               \/ LED_On(side) \/ LED_Off(side) \/ LED_Toggle(side)
        PROVE  /\ ledIsOn'[LED_BACK] = ledIsOn[LED_BACK]
               /\ \A i \in PinsOf(LED_BACK) : ledPin'[i] = ledPin[i]
    <2>1. ledIsOn'[LED_BACK] = ledIsOn[LED_BACK]
      BY <1>2, PinsApart, Zenon DEF LedInv, LedTypeOK, LED_On, LED_Off, LED_Toggle
    <2>2. ASSUME NEW i \in PinsOf(LED_BACK) PROVE ledPin'[i] = ledPin[i]
      <3>1. i \in LedPins /\ i \notin PinsOf(side) /\ ledPin[i] \in BOOLEAN
        BY <1>2, <2>2, PinsApart DEF LedInv, LedTypeOK
      <3>2. CASE LED_On(side)
        BY <1>2, <3>1, <3>2, Zenon DEF LED_On
      <3>3. CASE LED_Off(side)
        BY <1>2, <3>1, <3>3, Zenon DEF LED_Off
      <3>4. CASE LED_Toggle(side)
        BY <1>2, <3>1, <3>4, Zenon DEF LED_Toggle
      <3> QED  BY <1>2, <3>2, <3>3, <3>4
    <2> QED  BY <2>1, <2>2
  <1> QED  BY <1>1, <1>2, Zenon DEF LED_On, LED_Off, LED_Toggle

\* The rear light is lit, flag and pins, after LED_On(LED_BACK).
LEMMA RearLightLit == ASSUME LedInv, LED_On(LED_BACK)
                      PROVE  ledIsOn'[LED_BACK] /\ \A i \in PinsOf(LED_BACK) : ledPin'[i]
  BY PinsApart, Zenon DEF LedInv, LED_On, LedTypeOK

\* Every sequence the handlers make of the operations of Buzzer.c keeps the
\* timer in step with the flag and the divisor in step with the frequency.
LEMMA BuzzerOps == ASSUME BuzzerInv,
                          \/ \E freq \in Int : Buzzer_SetFrequency(freq)
                          \/ UNCHANGED <<frequency, cntMax>>,
                          \/ Buzzer_On \/ Buzzer_Off
                          \/ UNCHANGED <<t6Running, buzzerIsOn>>
                   PROVE  BuzzerInv'
  <1>1. /\ frequency' \in Frequencies /\ cntMax' = MAX_FREQ \div frequency'
        /\ cntMax' \in Nat /\ cntMax' >= 1
    BY DivisorPositive DEF BuzzerInv, BuzzerTypeOK, Buzzer_SetFrequency
  <1>2. /\ buzzerIsOn' \in BOOLEAN /\ t6Running' \in BOOLEAN
        /\ buzzerIsOn' = t6Running'
    BY Zenon DEF BuzzerInv, BuzzerTypeOK, Buzzer_On, Buzzer_Off
  <1> QED  BY <1>1, <1>2 DEF BuzzerInv, BuzzerTypeOK

\* An accepted position leaves both channels showing the speeds reported.
LEMMA MotorOps == ASSUME MotorInv, NEW x, NEW y,
                         JoystickAccepted(x, y), ProcessJoystickInput(x, y)
                  PROVE  MotorInv'
  <1>1. x \in Joystick /\ y \in Joystick
    BY DEF JoystickAccepted
  <1>2. LeftSpeed(x, y) \in Speed /\ RightSpeed(x, y) \in Speed
    BY <1>1, SpeedRange
  <1>3. /\ latest_data' \in MotorData
        /\ latest_data'.motorChA_speed = RightSpeed(x, y)
        /\ latest_data'.motorChB_speed = LeftSpeed(x, y)
        /\ pre' \in [x : Joystick, y : Joystick]
    BY <1>1, <1>2 DEF ProcessJoystickInput, MotorData
  <1>4. /\ chA' \in Channel /\ ChannelShows(chA', RightSpeed(x, y))
        /\ chB' \in Channel /\ ChannelShows(chB', LeftSpeed(x, y))
    BY <1>2, ChannelAtShows DEF ProcessJoystickInput
  <1> QED  BY <1>3, <1>4 DEF MotorInv, MotorTypeOK, MotorsShow

-----------------------------------------------------------------------------
(* The inductive invariant: what the runs check, with the pieces grouped by  *)
(* the driver they are about.                                                *)

LoopTypeOK ==
    /\ pc \in {"receive", "update"}
    /\ alertReply \in INTERVALS \cup {0}
    /\ reply \in Replies

CacheInv == motorReply \in MotorData /\ motorReply = latest_data

IInv ==
    /\ LedInv
    /\ BuzzerInv
    /\ MotorInv
    /\ AlertTypeOK
    /\ LoopTypeOK
    /\ CacheInv
    /\ AlertIsSeenAndHeard
    /\ AlertFollowedInterval
    /\ AlertReplyStaleOnlyAtFirst

\* Each reply is well formed.
LEMMA RepliesOK ==
    /\ NoReply \in Replies
    /\ \A on \in BOOLEAN, freq \in Frequencies :
           [method |-> "buzzer", isOn |-> on, frequency |-> freq] \in Replies
    /\ \A side \in SIDES, on \in BOOLEAN :
           [method |-> "led", side |-> side, isOn |-> on] \in Replies
    /\ \A ms \in INTERVALS \cup {0} :
           [method |-> "alert", interval_ms |-> ms] \in Replies
    /\ \A data \in MotorData : [method |-> "motor", data |-> data] \in Replies
  <1>1. NoReply \in Replies
    BY DEF Replies
  <1>2. ASSUME NEW on \in BOOLEAN, NEW freq \in Frequencies
        PROVE  [method |-> "buzzer", isOn |-> on, frequency |-> freq] \in Replies
    BY DEF Replies, BuzzerReplies
  <1>3. ASSUME NEW side \in SIDES, NEW on \in BOOLEAN
        PROVE  [method |-> "led", side |-> side, isOn |-> on] \in Replies
    BY DEF Replies, LedReplies
  <1>4. ASSUME NEW ms \in INTERVALS \cup {0}
        PROVE  [method |-> "alert", interval_ms |-> ms] \in Replies
    BY DEF Replies, AlertReplies
  <1>5. ASSUME NEW data \in MotorData
        PROVE  [method |-> "motor", data |-> data] \in Replies
    BY DEF Replies, MotorReplies
  <1> QED  BY <1>1, <1>2, <1>3, <1>4, <1>5

\* The state the statics and core0_init leave.
LEMMA InitIInv == Init => IInv
  <1> SUFFICES ASSUME Init PROVE IInv
    OBVIOUS
  <1> USE DEF Init
  <1>1. LedInv
    <2>1. LedTypeOK
      BY Zenon DEF LED_Init, LedTypeOK
    <2>2. ASSUME NEW side \in LedSide, NEW i \in PinsOf(side)
          PROVE  ledPin[i] = ledIsOn[side]
      <3>1. i \in LedPins
        BY <2>2, PinsApart
      <3> QED  BY <2>2, <3>1, Zenon DEF LED_Init
    <2> QED  BY <2>1, <2>2, Zenon DEF LedInv, LedsShow
  <1>2. BuzzerInv
    <2>1. MAX_FREQ \div MAX_FREQ = 1
      BY MaxFreqAssumption, DivSelf, Zenon
    <2>2. MAX_FREQ \in Frequencies
      BY MaxFreqAssumption DEF Frequencies
    <2>3. cntMax = MAX_FREQ \div frequency /\ buzzerIsOn = t6Running
      BY <2>1, Zenon DEF Buzzer_Init
    <2>4. cntMax \in Nat /\ cntMax >= 1
      BY DEF Buzzer_Init
    <2>5. frequency \in Frequencies /\ buzzerIsOn \in BOOLEAN /\ t6Running \in BOOLEAN
      BY <2>2, Zenon DEF Buzzer_Init
    <2> QED  BY <2>3, <2>4, <2>5, Zenon DEF BuzzerInv, BuzzerTypeOK
  <1>3. MotorInv
    <2>1. ChannelShows(chA, 0) /\ ChannelShows(chB, 0)
      BY DEF Motor_Init, ChannelShows, my_abs
    <2>2. 0 \in Joystick /\ 0 \in Speed /\ 0 \in 0 .. 1000
      BY DEF Joystick, Speed, JOYSTICK_MIN, JOYSTICK_MAX, MOTOR_SPEED_MIN,
             MOTOR_SPEED_MAX
    <2>3. MotorTypeOK
      BY <2>2 DEF Motor_Init, MotorTypeOK, MotorData, Channel
    <2> QED  BY <2>1, <2>3 DEF Motor_Init, MotorInv, MotorsShow
  <1>4. AlertTypeOK
    BY AlertAssumption DEF EmerAlert_Init, AlertTypeOK
  <1>5. LoopTypeOK
    BY RepliesOK DEF LoopTypeOK
  <1>6. CacheInv
    BY <1>3 DEF CacheInv, Motor_Init, MotorInv, MotorTypeOK
  <1>7. AlertIsSeenAndHeard /\ AlertFollowedInterval /\ AlertReplyStaleOnlyAtFirst
    BY DEF EmerAlert_Init, AlertIsSeenAndHeard, AlertFollowedInterval,
           AlertReplyStaleOnlyAtFirst
  <1> QED  BY <1>1, <1>2, <1>3, <1>4, <1>5, <1>6, <1>7 DEF IInv

-----------------------------------------------------------------------------
(* One lemma per action.                                                     *)

\* What a step that leaves a driver alone keeps of it.
LEMMA Untouched ==
    /\ LedInv /\ UNCHANGED ledVars => LedInv'
    /\ BuzzerInv /\ UNCHANGED buzzerVars => BuzzerInv'
    /\ MotorInv /\ UNCHANGED motorVars => MotorInv'
  <1>1. LedInv /\ UNCHANGED ledVars => LedInv'
    BY DEF LedInv, ledVars, LedTypeOK, LedsShow
  <1>2. BuzzerInv /\ UNCHANGED buzzerVars => BuzzerInv'
    BY DEF BuzzerInv, buzzerVars, BuzzerTypeOK
  <1>3. MotorInv /\ UNCHANGED motorVars => MotorInv'
    BY DEF MotorInv, motorVars, MotorTypeOK, MotorsShow
  <1> QED  BY <1>1, <1>2, <1>3

\* The part of the invariant that is about the alert, which a step keeps that
\* leaves its interval, its flag and its outputs alone.
AlertInv ==
    /\ AlertTypeOK
    /\ AlertIsSeenAndHeard
    /\ AlertReplyStaleOnlyAtFirst
    /\ alertReply \in INTERVALS \cup {0}

\* What a step that leaves the alert alone keeps of it.
LEMMA AlertUntouched ==
    ASSUME AlertInv, UNCHANGED <<alertVars, alertReply>>,
           \/ UNCHANGED <<ledVars, buzzerVars>>
           \/ ~isAlertOn
    PROVE  AlertInv'
  BY DEF AlertInv, alertVars, AlertTypeOK, AlertIsSeenAndHeard,
         AlertReplyStaleOnlyAtFirst, ledVars, buzzerVars

\* A request about nothing we serve.
LEMMA NoRequestKeeps == IInv /\ NoRequest => IInv'
  <1> SUFFICES ASSUME IInv, NoRequest PROVE IInv'
    OBVIOUS
  <1> USE DEF NoRequest, actuators, caches
  <1>1. LedInv' /\ BuzzerInv' /\ MotorInv'
    BY Untouched DEF IInv
  <1>2. AlertInv'
    BY AlertUntouched DEF IInv, AlertInv, LoopTypeOK
  <1>3. LoopTypeOK' /\ AlertFollowedInterval'
    BY RepliesOK DEF IInv, LoopTypeOK, AlertFollowedInterval, Received
  <1>4. CacheInv'
    BY DEF IInv, CacheInv, motorVars
  <1> QED  BY <1>1, <1>2, <1>3, <1>4 DEF IInv, AlertInv

\* Method 0x0201: while a client may move the buzzer the alert is off.
LEMMA BuzzerKeeps == ASSUME IInv, NEW command \in 0 .. 2, NEW freq \in FREQUENCIES,
                            Service2_Buzzer(command, freq)
                     PROVE  IInv'
  <1> USE DEF Service2_Buzzer
  <1>1. LedInv' /\ MotorInv'
    BY Untouched DEF IInv
  <1>2. BuzzerInv'
    <2>1. CASE isEmerAlertOn
      BY <2>1, Untouched DEF IInv
    <2>2. CASE ~isEmerAlertOn
      <3>1. freq \in Int
        BY InputsAssumption
      <3>2. Buzzer_On \/ Buzzer_Off \/ UNCHANGED <<t6Running, buzzerIsOn>>
        BY <2>2 DEF BuzzerCommand
      <3> QED  BY <2>2, <3>1, <3>2, BuzzerOps DEF IInv
    <2> QED  BY <2>1, <2>2
  <1>3. AlertInv'
    <2>1. CASE isEmerAlertOn
      BY <2>1, AlertUntouched DEF IInv, AlertInv, LoopTypeOK, caches
    <2>2. CASE ~isEmerAlertOn
      <3>1. ~isAlertOn
        BY <2>2, AlertAssumption
        DEF isEmerAlertOn, IInv, AlertFollowedInterval, Received, AlertTypeOK
      <3> QED  BY <3>1, AlertUntouched DEF IInv, AlertInv, LoopTypeOK, caches
    <2> QED  BY <2>1, <2>2
  <1>4. LoopTypeOK' /\ AlertFollowedInterval'
    <2>1. [method |-> "buzzer", isOn |-> buzzerIsOn', frequency |-> frequency']
            \in Replies
      BY <1>2, RepliesOK DEF BuzzerInv, BuzzerTypeOK
    <2> QED  BY <2>1, RepliesOK DEF IInv, LoopTypeOK, AlertFollowedInterval,
                Received, SOMEIP_Send_Data, caches
  <1>5. CacheInv'
    BY DEF IInv, CacheInv, motorVars, caches
  <1> QED  BY <1>1, <1>2, <1>3, <1>4, <1>5 DEF IInv, AlertInv

\* Method 0x0202: the rear light is out of a client's reach while the interval
\* says the alert is active, and the alert is off when it does not.
LEMMA LedKeeps == ASSUME IInv, NEW side \in SIDES, NEW command \in 0 .. 3,
                         Service2_Led(side, command)
                  PROVE  IInv'
  <1> USE DEF Service2_Led
  <1>1. BuzzerInv' /\ MotorInv'
    BY Untouched DEF IInv
  <1>2. LedInv'
    <2>1. \/ LED_On(side) \/ LED_Off(side) \/ LED_Toggle(side)
          \/ UNCHANGED ledVars
      BY DEF LedCommand
    <2> QED  BY <2>1, LedOps DEF IInv
  <1>3. AlertInv'
    <2>1. CASE side = LED_BACK /\ isEmerAlertOn
      BY <2>1, AlertUntouched DEF IInv, AlertInv, LoopTypeOK, caches
    <2>2. CASE ~isEmerAlertOn
      <3>1. ~isAlertOn
        BY <2>2, AlertAssumption
        DEF isEmerAlertOn, IInv, AlertFollowedInterval, Received, AlertTypeOK
      <3> QED  BY <3>1, AlertUntouched DEF IInv, AlertInv, LoopTypeOK, caches
    <2>3. CASE side # LED_BACK
      <3>1. /\ ledIsOn'[LED_BACK] = ledIsOn[LED_BACK]
            /\ \A i \in PinsOf(LED_BACK) : ledPin'[i] = ledPin[i]
        BY <2>3, OtherLight DEF IInv, LedCommand
      <3> QED  BY <3>1 DEF IInv, AlertInv, AlertTypeOK, AlertIsSeenAndHeard,
                  AlertReplyStaleOnlyAtFirst, LoopTypeOK, caches, alertVars,
                  buzzerVars
    <2> QED  BY <2>1, <2>2, <2>3
  <1>4. LoopTypeOK' /\ AlertFollowedInterval'
    <2>1. PICK isOn \in LED_GetData(side)' :
            SOMEIP_Send_Data([method |-> "led", side |-> side, isOn |-> isOn])
      OBVIOUS
    <2>2. isOn \in BOOLEAN
      BY <1>2, <2>1, Zenon DEF LED_GetData, LedInv, LedTypeOK
    <2>3. reply' \in Replies
      BY <2>1, <2>2, RepliesOK DEF SOMEIP_Send_Data
    <2> QED  BY <2>3 DEF IInv, LoopTypeOK, AlertFollowedInterval, Received,
                caches, alertVars
  <1>5. CacheInv'
    BY DEF IInv, CacheInv, motorVars, caches
  <1> QED  BY <1>1, <1>2, <1>3, <1>4, <1>5 DEF IInv, AlertInv

\* Method 0x0301: only the interval and the kept reply change.
LEMMA AlertKeeps == ASSUME IInv, NEW ms \in INTERVALS, Service3_Alert(ms)
                    PROVE  IInv'
  <1> USE DEF Service3_Alert, actuators
  <1>1. LedInv' /\ BuzzerInv' /\ MotorInv'
    BY Untouched DEF IInv
  <1>2. AlertInv'
    <2>1. AlertTypeOK' /\ AlertIsSeenAndHeard'
      BY DEF IInv, AlertTypeOK, AlertIsSeenAndHeard, EmerAlert_Set_Interval,
             alertVars, ledVars, buzzerVars
    <2>2. alertReply' \in INTERVALS \cup {0} /\ AlertReplyStaleOnlyAtFirst'
      BY DEF IInv, LoopTypeOK, AlertReplyStaleOnlyAtFirst,
             EmerAlert_Set_Interval, alertVars
    <2> QED  BY <2>1, <2>2 DEF AlertInv
  <1>3. LoopTypeOK' /\ AlertFollowedInterval'
    <2>1. [method |-> "alert", interval_ms |-> alertReply'] \in Replies
      BY <1>2, RepliesOK DEF AlertInv
    <2> QED  BY <1>2, <2>1, RepliesOK DEF AlertInv, LoopTypeOK,
                AlertFollowedInterval, Received, SOMEIP_Send_Data
  <1>4. CacheInv'
    BY DEF IInv, CacheInv, motorVars
  <1> QED  BY <1>1, <1>2, <1>3, <1>4 DEF IInv, AlertInv

\* Method 0x0302: the kept reply follows what was last set.
LEMMA MotorKeeps == ASSUME IInv, NEW x \in POSITIONS, NEW y \in POSITIONS,
                           Service3_Motor(x, y)
                    PROVE  IInv'
  <1> USE DEF Service3_Motor
  <1>1. LedInv' /\ BuzzerInv'
    BY Untouched DEF IInv
  <1>2. MotorInv' /\ CacheInv'
    <2>1. CASE JoystickAccepted(x, y)
      <3>1. MotorInv'
        BY <2>1, MotorOps DEF IInv
      <3> QED  BY <2>1, <3>1 DEF MotorInv, MotorTypeOK, CacheInv
    <2>2. CASE ~JoystickAccepted(x, y)
      BY <2>2, Untouched DEF IInv, CacheInv, motorVars
    <2> QED  BY <2>1, <2>2
  <1>3. AlertInv'
    BY AlertUntouched DEF IInv, AlertInv, LoopTypeOK
  <1>4. LoopTypeOK' /\ AlertFollowedInterval'
    <2>1. [method |-> "motor", data |-> motorReply'] \in Replies
      BY <1>2, RepliesOK DEF CacheInv
    <2> QED  BY <2>1, RepliesOK DEF IInv, LoopTypeOK, AlertFollowedInterval,
                Received, SOMEIP_Send_Data
  <1> QED  BY <1>1, <1>2, <1>3, <1>4 DEF IInv, AlertInv

\* What turning the alert on does: its outputs are on whatever they were.
LEMMA OutputsOn == ASSUME LedInv, BuzzerInv, AlertOutputsOn
                   PROVE  /\ LedInv' /\ BuzzerInv'
                          /\ ledIsOn'[LED_BACK]
                          /\ \A i \in PinsOf(LED_BACK) : ledPin'[i]
                          /\ buzzerIsOn' /\ t6Running'
                          /\ frequency' = ALERT_FREQ
  <1> USE DEF AlertOutputsOn
  <1>1. LedInv'
    BY LedOps
  <1>2. BuzzerInv'
    <2>1. ALERT_FREQ \in Int
      BY AlertAssumption, MaxFreqAssumption DEF Frequencies
    <2> QED  BY <2>1, BuzzerOps
  <1>3. ledIsOn'[LED_BACK] /\ \A i \in PinsOf(LED_BACK) : ledPin'[i]
    BY RearLightLit
  <1>4. buzzerIsOn' /\ t6Running'
    BY Zenon DEF Buzzer_On, BuzzerInv, BuzzerTypeOK
  <1>5. frequency' = ALERT_FREQ
    BY AlertAssumption DEF Buzzer_SetFrequency
  <1> QED  BY <1>1, <1>2, <1>3, <1>4, <1>5

\* What turning it off does.
LEMMA OutputsOff == ASSUME LedInv, BuzzerInv, AlertOutputsOff
                    PROVE  LedInv' /\ BuzzerInv'
  <1>1. LedInv'
    BY LedOps DEF AlertOutputsOff
  <1>2. BuzzerInv'
    BY BuzzerOps DEF AlertOutputsOff
  <1> QED  BY <1>1, <1>2

\* EmerAlert_Update_Periodic: after it the alert has followed the interval.
LEMMA UpdateKeeps == IInv /\ Update => IInv'
  <1> SUFFICES ASSUME IInv, Update PROVE IInv'
    OBVIOUS
  <1> DEFINE Goal == /\ LedInv' /\ BuzzerInv'
                     /\ isAlertOn' \in BOOLEAN
                     /\ isAlertOn' =>
                           /\ ledIsOn'[LED_BACK]
                           /\ \A i \in PinsOf(LED_BACK) : ledPin'[i]
                           /\ buzzerIsOn' /\ t6Running'
                           /\ frequency' = ALERT_FREQ
  <1>1. isAlertOn \in BOOLEAN /\ LedInv /\ BuzzerInv /\ AlertIsSeenAndHeard
    BY DEF IInv, AlertTypeOK
  <1>2. ASSUME UNCHANGED <<ledVars, buzzerVars, isAlertOn>> PROVE Goal
    <2>1. LedInv' /\ BuzzerInv'
      BY <1>1, <1>2, Untouched
    <2> QED  BY <1>1, <1>2, <2>1 DEF AlertIsSeenAndHeard, ledVars, buzzerVars
  <1>3. ASSUME AlertOutputsOn, isAlertOn' = TRUE PROVE Goal
    BY <1>1, <1>3, OutputsOn
  <1>4. ASSUME AlertOutputsOff, isAlertOn' = FALSE PROVE Goal
    BY <1>1, <1>4, OutputsOff
  <1>5. Goal
    <2>1. CASE UpdateBlinking
      BY <1>1, <1>2, <1>3, <1>4, <2>1 DEF UpdateBlinking, EmerAlert_Toggle
    <2>2. CASE UpdateOff
      BY <1>2, <1>4, <2>2 DEF UpdateOff, EmerAlert_Off
    <2>3. CASE UpdateOn
      BY <1>2, <1>3, <2>3 DEF UpdateOn, EmerAlert_On
    <2> QED  BY <2>1, <2>2, <2>3 DEF Update
  <1>6. /\ interval' = interval /\ uptime' = uptime
        /\ elapsed' \in 0 .. HORIZON
    BY AlertAssumption
    DEF Update, UpdateBlinking, UpdateOff, UpdateOn, IInv, AlertTypeOK
  <1>7. AlertTypeOK'
    BY <1>5, <1>6 DEF IInv, AlertTypeOK
  <1>8. interval < 0 => isAlertOn' = FALSE
    <2>1. interval < 0 => ~(interval > 0) /\ interval # 0
      BY AlertAssumption DEF IInv, AlertTypeOK
    <2>2. interval < 0 => EmerAlert_Off
      BY <2>1 DEF Update, UpdateBlinking, UpdateOff, UpdateOn
    <2> QED  BY <1>1, <2>2, Zenon DEF EmerAlert_Off
  <1>9. interval = 0 => isAlertOn' = TRUE
    BY <1>1 DEF Update, UpdateBlinking, UpdateOff, UpdateOn, EmerAlert_On
  <1>10. AlertIsSeenAndHeard'
    BY <1>5 DEF AlertIsSeenAndHeard
  <1>11. AlertFollowedInterval'
    BY <1>6, <1>8, <1>9 DEF AlertFollowedInterval
  <1>12. AlertReplyStaleOnlyAtFirst'
    BY <1>6, <1>8 DEF Update, caches, IInv, AlertReplyStaleOnlyAtFirst
  <1>13. LoopTypeOK'
    BY RepliesOK DEF Update, caches, IInv, LoopTypeOK
  <1>14. MotorInv' /\ CacheInv'
    BY Untouched DEF Update, caches, IInv, CacheInv, motorVars
  <1> QED  BY <1>5, <1>7, <1>10, <1>11, <1>12, <1>13, <1>14 DEF IInv

\* The millisecond counter.
LEMMA TickKeeps == IInv /\ Tick => IInv'
  <1> SUFFICES ASSUME IInv, Tick PROVE IInv'
    OBVIOUS
  <1> USE DEF Tick, actuators, caches
  <1>1. LedInv' /\ BuzzerInv' /\ MotorInv'
    BY Untouched DEF IInv
  <1>2. AlertTypeOK'
    BY AlertAssumption DEF IInv, AlertTypeOK, STM0_Tick, Count
  <1>3. /\ AlertIsSeenAndHeard' /\ AlertFollowedInterval'
        /\ AlertReplyStaleOnlyAtFirst'
    BY DEF IInv, AlertIsSeenAndHeard, AlertFollowedInterval,
           AlertReplyStaleOnlyAtFirst, ledVars, buzzerVars
  <1>4. LoopTypeOK' /\ CacheInv'
    BY DEF IInv, LoopTypeOK, CacheInv, motorVars
  <1> QED  BY <1>1, <1>2, <1>3, <1>4 DEF IInv

\* A step that changes nothing.
LEMMA StutterKeeps == IInv /\ UNCHANGED vars => IInv'
  <1> SUFFICES ASSUME IInv, UNCHANGED vars PROVE IInv'
    OBVIOUS
  <1> USE DEF vars, actuators, caches
  <1>1. LedInv' /\ BuzzerInv' /\ MotorInv'
    BY Untouched DEF IInv
  <1>2. AlertTypeOK'
    BY DEF IInv, AlertTypeOK, alertVars
  <1>3. /\ AlertIsSeenAndHeard' /\ AlertFollowedInterval'
        /\ AlertReplyStaleOnlyAtFirst'
    BY DEF IInv, AlertIsSeenAndHeard, AlertFollowedInterval,
           AlertReplyStaleOnlyAtFirst, ledVars, buzzerVars, alertVars
  <1>4. LoopTypeOK' /\ CacheInv'
    BY DEF IInv, LoopTypeOK, CacheInv, motorVars
  <1> QED  BY <1>1, <1>2, <1>3, <1>4 DEF IInv

-----------------------------------------------------------------------------
(* The theorems.                                                             *)

\* The invariant is inductive, so it holds of every reachable state.
THEOREM Inductive == Spec => []IInv
  <1>1. Init => IInv
    BY InitIInv
  <1>2. IInv /\ [Next]_vars => IInv'
    BY NoRequestKeeps, BuzzerKeeps, LedKeeps, AlertKeeps, MotorKeeps,
       UpdateKeeps, TickKeeps, StutterKeeps
    DEF Next, Receive
  <1> QED  BY <1>1, <1>2, PTL DEF Spec

\* Every variable keeps its type.
THEOREM TypeCorrect == Spec => []TypeOK
  <1>1. IInv => TypeOK
    BY DEF IInv, TypeOK, LedInv, BuzzerInv, MotorInv, LoopTypeOK, CacheInv
  <1> QED  BY <1>1, Inductive, PTL

\* Whatever requests arrive, an alert that is on is seen and heard.
THEOREM SeenAndHeard == Spec => []AlertIsSeenAndHeard
  <1>1. IInv => AlertIsSeenAndHeard
    BY DEF IInv
  <1> QED  BY <1>1, Inductive, PTL

\* A request is only ever taken after the alert followed the interval.
THEOREM FollowedInterval == Spec => []AlertFollowedInterval
  <1>1. IInv => AlertFollowedInterval
    BY DEF IInv
  <1> QED  BY <1>1, Inductive, PTL

\* Replies are built from state that matches the actuators.
THEOREM ReportsMatch == Spec => []ReportsMatchActuators
  <1>1. IInv => ReportsMatchActuators
    BY DEF IInv, ReportsMatchActuators, LedInv, BuzzerInv, MotorInv, CacheInv
  <1> QED  BY <1>1, Inductive, PTL

\* The reply kept for the alert is stale only before the first change.
THEOREM ReplyStaleOnlyAtFirst == Spec => []AlertReplyStaleOnlyAtFirst
  <1>1. IInv => AlertReplyStaleOnlyAtFirst
    BY DEF IInv
  <1> QED  BY <1>1, Inductive, PTL

-----------------------------------------------------------------------------
(* The action properties.                                                    *)

RearLightSame ==
    /\ ledIsOn'[LED_BACK] = ledIsOn[LED_BACK]
    /\ \A i \in PinsOf(LED_BACK) : ledPin'[i] = ledPin[i]

\* While the alert is active only the alert moves the rear light and the buzzer.
THEOREM AlertOwnsItsOutputs == Spec => OnlyAlertMovesItsOutputs
  <1> DEFINE Step == interval >= 0 /\ interval' >= 0 /\ isAlertOn' = isAlertOn
                        => RearLightSame /\ UNCHANGED buzzerVars
  <1>1. ASSUME IInv, [Next]_vars PROVE Step
    <2> SUFFICES ASSUME interval >= 0, isAlertOn' = isAlertOn
                 PROVE  RearLightSame /\ UNCHANGED buzzerVars
      OBVIOUS
    <2>1. isEmerAlertOn /\ isAlertOn \in BOOLEAN /\ LedInv
      BY <1>1 DEF isEmerAlertOn, IInv, AlertTypeOK
    <2>2. ASSUME UNCHANGED outputs PROVE RearLightSame /\ UNCHANGED buzzerVars
      BY <2>2 DEF outputs, RearLightSame, ledVars
    <2>3. CASE NoRequest
      BY <2>2, <2>3 DEF NoRequest, actuators, outputs
    <2>4. ASSUME NEW command \in 0 .. 2, NEW freq \in FREQUENCIES,
                 Service2_Buzzer(command, freq)
          PROVE  RearLightSame /\ UNCHANGED buzzerVars
      BY <2>1, <2>2, <2>4 DEF Service2_Buzzer, outputs
    <2>5. ASSUME NEW side \in SIDES, NEW command \in 0 .. 3,
                 Service2_Led(side, command)
          PROVE  RearLightSame /\ UNCHANGED buzzerVars
      <3>1. CASE side = LED_BACK
        BY <2>1, <2>2, <2>5, <3>1 DEF Service2_Led, outputs
      <3>2. CASE side # LED_BACK
        BY <2>1, <2>5, <3>2, OtherLight DEF Service2_Led, LedCommand, RearLightSame
      <3> QED  BY <3>1, <3>2
    <2>6. ASSUME NEW ms \in INTERVALS, Service3_Alert(ms)
          PROVE  RearLightSame /\ UNCHANGED buzzerVars
      BY <2>2, <2>6 DEF Service3_Alert, actuators, outputs
    <2>7. ASSUME NEW x \in POSITIONS, NEW y \in POSITIONS, Service3_Motor(x, y)
          PROVE  RearLightSame /\ UNCHANGED buzzerVars
      BY <2>2, <2>7 DEF Service3_Motor, outputs
    <2>8. CASE Update
      <3>1. UNCHANGED outputs
        BY <1>1, <2>1, <2>8, Zenon
        DEF Update, UpdateBlinking, UpdateOff, UpdateOn, EmerAlert_Toggle,
            EmerAlert_Off, EmerAlert_On, outputs
      <3> QED  BY <2>2, <3>1
    <2>9. CASE Tick
      BY <2>2, <2>9 DEF Tick, actuators, outputs
    <2>10. CASE UNCHANGED vars
      BY <2>2, <2>10 DEF vars, actuators, outputs
    <2> QED  BY <1>1, <2>3, <2>4, <2>5, <2>6, <2>7, <2>8, <2>9, <2>10
             DEF Next, Receive
  <1>2. Spec => [][Step]_vars
    BY <1>1, Inductive, PTL DEF Spec
  <1> QED  BY <1>2, PTL DEF OnlyAlertMovesItsOutputs, RearLightSame

\* The wheels move only for a new position, to the speeds it stands for.
THEOREM WheelsMove == Spec => WheelsMoveOnlyForNewPosition
  <1> DEFINE Moved == /\ pre' # pre
                      /\ ChannelShows(chA', RightSpeed(pre'.x, pre'.y))
                      /\ ChannelShows(chB', LeftSpeed(pre'.x, pre'.y))
             Step == UNCHANGED <<chA, chB>> \/ Moved
  <1>1. ASSUME IInv, [Next]_vars PROVE Step
    <2>1. ASSUME UNCHANGED motorVars PROVE Step
      BY <2>1 DEF motorVars
    <2>2. ASSUME NEW x \in POSITIONS, NEW y \in POSITIONS, Service3_Motor(x, y)
          PROVE  Step
      <3>1. CASE JoystickAccepted(x, y)
        <4>1. x \in Joystick /\ y \in Joystick
          BY <3>1 DEF JoystickAccepted
        <4>2. pre' = [x |-> x, y |-> y] /\ pre' # pre
          BY <2>2, <3>1 DEF Service3_Motor, ProcessJoystickInput, JoystickAccepted
        <4>3. /\ ChannelShows(chA', RightSpeed(x, y))
              /\ ChannelShows(chB', LeftSpeed(x, y))
          BY <2>2, <3>1, <4>1, SpeedRange, ChannelAtShows
          DEF Service3_Motor, ProcessJoystickInput
        <4> QED  BY <4>2, <4>3
      <3>2. CASE ~JoystickAccepted(x, y)
        BY <2>1, <2>2, <3>2 DEF Service3_Motor
      <3> QED  BY <3>1, <3>2
    <2>3. CASE \E x, y \in POSITIONS : Service3_Motor(x, y)
      BY <2>2, <2>3
    <2>4. ASSUME ~(\E x, y \in POSITIONS : Service3_Motor(x, y))
          PROVE  UNCHANGED motorVars
      BY <1>1, <2>4
      DEF Next, Receive, NoRequest, Service2_Buzzer, Service2_Led, Service3_Alert,
          Update, Tick, actuators, vars
    <2> QED  BY <2>1, <2>3, <2>4
  <1>2. Spec => [][Step]_vars
    BY <1>1, Inductive, PTL DEF Spec
  <1> QED  BY <1>2, PTL DEF WheelsMoveOnlyForNewPosition

=============================================================================
