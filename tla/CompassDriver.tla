----------------------------- MODULE CompassDriver -----------------------------
(***************************************************************************)
(* The kernel driver of the compass, as AkmSensor and akmd use it: the     *)
(* attributes AkmSensor writes and akmd reads, and the input events akmd    *)
(* reports and AkmSensor reads.                                            *)
(***************************************************************************)
EXTENDS Naturals, Sequences

CONSTANT MaxCalls       \* bound: calls of the framework, and faults

ASSUME CallsAssumption == MaxCalls \in Nat

VARIABLES
    calls,          \* how many times the framework has called the HAL
    compass,        \* external: the attributes
    inputs,         \* external: the input events nobody has read
    faults          \* how many things have failed outside the HAL

driverVars == <<compass, inputs>>

NoDelay == 0        \* -1 in the code, never batched

(* What AKD_GetOpenStatus() waits for, and AKD_GetCloseStatus() the end of *)
Enabled == compass.enable_mag = 1 \/ compass.enable_fusion = 1
=============================================================================
