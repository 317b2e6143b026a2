--------------------------- MODULE MCVehicleControl ---------------------------
(* Instances of VehicleControl for TLC.                                      *)
EXTENDS VehicleControl

\* Off, on, the boot time, the horizon, and one never reached.
MCIntervals == {-1, 0, 1, 2, 3}

\* A few values each side of every limit the code tests.
MCFrequencies == {0, 500, 250000, 250001}
MCSides == {LED_BACK, LED_FRONT_DOWN, 3}
\* Around both ends of the range, and around one edge of the dead zone.
MCPositions == {-1, 0, 42, 43, 58, 99, 100}

\* For the first reply: little but the alert.
FewIntervals == {-1, 0, 2}
AlertFrequency == {500}
RearLight == {LED_BACK}
Standing == {0}

=============================================================================
