------------------------------ MODULE MCSensors -------------------------------
(***************************************************************************)
(* One pair of sensors for each way of sharing: one attribute (enable_mag   *)
(* and delay_mag), the accelerometer of the hub between its own user and   *)
(* one of the compass, the glance bit, and a pair that shares nothing.     *)
(***************************************************************************)
EXTENDS Sensors

Pairs == {{"M", "UM"}, {"A", "OR"}, {"GLANCE", "MOTO_GLANCE"}, {"L", "P"}}
TwoDelays == {1, 2}
TwoIntervals == {1, 2}
=============================================================================
