--------------------------- MODULE MotorController ---------------------------
(* BSW/Controller/motor_controller.c over BSW/IO/Motor.c: a joystick position *)
(* becomes two signed wheel speeds, and each speed a duty, a direction and a *)
(* brake on its H-bridge channel.                                            *)
(*                                                                           *)
(* int is 32 bit in the code; every quantity here stays below 10^4, so the   *)
(* unbounded integers of TLA+ lose nothing.                                  *)
EXTENDS Integers

MOTOR_SPEED_MAX == 100
MOTOR_SPEED_MIN == -100
JOYSTICK_MAX == 99
JOYSTICK_MIN == 0
JOYSTICK_CENTER == 50
JOYSTICK_DEADZONE == 8

Joystick == JOYSTICK_MIN .. JOYSTICK_MAX
Speed == MOTOR_SPEED_MIN .. MOTOR_SPEED_MAX

VARIABLES
    latest_data,    \* latest_data: the position and speeds last set
    pre,            \* pre_x, pre_y: the position last accepted
    chA,            \* duty, direction and brake of the right wheel
    chB             \* duty, direction and brake of the left wheel

motorVars == <<latest_data, pre, chA, chB>>

MotorData ==
    [x : Joystick, y : Joystick, motorChA_speed : Speed, motorChB_speed : Speed]

Channel == [duty : 0 .. 1000, dir : BOOLEAN, brake : BOOLEAN]

MotorTypeOK ==
    /\ latest_data \in MotorData
    /\ pre \in [x : Joystick, y : Joystick]
    /\ chA \in Channel
    /\ chB \in Channel

-----------------------------------------------------------------------------
(* The arithmetic.                                                           *)

my_abs(v) == IF v < 0 THEN -v ELSE v

my_clamp(v, min, max) == IF v > max THEN max ELSE IF v < min THEN min ELSE v

\* C division by a positive number: towards zero.
Quotient(a, b) == IF a < 0 THEN -((-a) \div b) ELSE a \div b

MapJoystickValue(value, deadzone) ==
    LET offset == value - JOYSTICK_CENTER
        beyond == IF offset > 0 THEN offset - deadzone ELSE offset + deadzone
        reach == JOYSTICK_CENTER - deadzone
        max_offset == IF reach <= 0 THEN 1 ELSE reach
    IN  IF my_abs(offset) < deadzone THEN 0 ELSE Quotient(beyond * 100, max_offset)

\* Steering at 60 %, then both wheels clamped.
XSpeed(x) == Quotient(MapJoystickValue(x, JOYSTICK_DEADZONE) * 60, 100)
YSpeed(y) == MapJoystickValue(y, 0)

LeftSpeed(x, y) == my_clamp(YSpeed(y) + XSpeed(x), MOTOR_SPEED_MIN, MOTOR_SPEED_MAX)

RightSpeed(x, y) == my_clamp(YSpeed(y) - XSpeed(x), MOTOR_SPEED_MIN, MOTOR_SPEED_MAX)

-----------------------------------------------------------------------------
(* The operations.                                                           *)

\* Motor_SetChA and Motor_SetChB: the three outputs of a channel.
Motor_SetCh(duty, dir) == [duty |-> duty * 10, dir |-> dir, brake |-> ~(duty > 0)]

ChannelAt(speed) == Motor_SetCh(my_abs(speed), speed >= 0)

Motor_Init ==
    /\ chA = [duty |-> 0, dir |-> TRUE, brake |-> TRUE]
    /\ chB = [duty |-> 0, dir |-> TRUE, brake |-> TRUE]
    /\ latest_data = [x |-> 0, y |-> 0, motorChA_speed |-> 0, motorChB_speed |-> 0]
    /\ pre = [x |-> 0, y |-> 0]

\* The two early returns of MotorController_ProcessJoystickInput.
JoystickAccepted(x, y) ==
    /\ x \in Joystick
    /\ y \in Joystick
    /\ ~(x = pre.x /\ y = pre.y)

\* A plausible slip: the speeds are reported for the wrong wheels.
ProcessJoystickInput_Swapped(x, y) ==
    LET left == LeftSpeed(x, y)
        right == RightSpeed(x, y)
    IN  /\ pre' = [x |-> x, y |-> y]
        /\ latest_data' = [x |-> x, y |-> y, motorChA_speed |-> left,
                           motorChB_speed |-> right]
        /\ chA' = ChannelAt(right)
        /\ chB' = ChannelAt(left)

\* The rest of it, with MotorController_SetSpeed.
ProcessJoystickInput(x, y) ==
    LET left == LeftSpeed(x, y)
        right == RightSpeed(x, y)
    IN  /\ pre' = [x |-> x, y |-> y]
        /\ latest_data' = [x |-> x, y |-> y, motorChA_speed |-> right,
                           motorChB_speed |-> left]
        /\ chA' = ChannelAt(right)
        /\ chB' = ChannelAt(left)

-----------------------------------------------------------------------------

\* The speed last reported for a wheel is the one its channel is driven with,
\* and a wheel is braked exactly when its speed is zero.
ChannelShows(ch, speed) ==
    /\ ch.duty = my_abs(speed) * 10
    /\ ch.brake <=> speed = 0
    /\ ch.dir <=> speed >= 0

MotorsShow ==
    /\ ChannelShows(chA, latest_data.motorChA_speed)
    /\ ChannelShows(chB, latest_data.motorChB_speed)

=============================================================================
