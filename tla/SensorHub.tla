------------------------------- MODULE SensorHub ------------------------------
(***************************************************************************)
(* The module through which algorithms of the sensor hub are asked for     *)
(* (sensors/STML0XX/sensorhub.c).  It remembers the mask of the algorithms *)
(* that run and, for each, the parts that are asked for; the driver, which *)
(* is external, has a mask of its own and may refuse any call.              *)
(*                                                                         *)
(* Every operation holds one lock from end to end and is one step.  The    *)
(* parts that are asked for are a number, 0 for none; durations are left   *)
(* out.  enable() is called for movements only.                            *)
(***************************************************************************)
EXTENDS Integers

CONSTANTS
    Algos,          \* the algorithms with requests
    PartSets        \* the sets of parts that may be asked for, with none

ASSUME SensorHubAssumption ==
    PartSets \subseteq Nat /\ 0 \in PartSets /\ Algos \cap {"movement", "mask"} = {}

VARIABLES
    control_fd,     \* it is open
    active_algos,
    active_parts,
    driverAlgos,    \* external: the mask the driver was last given
    refused         \* history: algorithms whose first parts were taken, or last
                    \* ones given up, by a call whose mask was then refused;
                    \* and Mask, as long as none was taken since the open

moduleVars == <<control_fd, active_algos, active_parts, driverAlgos, refused>>

NoParts == [a \in Algos |-> 0]
MOVEMENT == "movement"          \* its two bits
Mask == "mask"

SensorHubInit ==
    /\ control_fd = FALSE /\ active_algos = {} /\ active_parts = NoParts
    /\ driverAlgos = {} /\ refused = {}

(* A new context is zero, whatever the driver was left with                *)
sensorhub_open ==
    /\ ~control_fd
    /\ control_fd' = TRUE /\ active_algos' = {} /\ active_parts' = NoParts
    /\ refused' = {Mask}
    /\ UNCHANGED driverAlgos

sensorhub_close ==
    /\ control_fd
    /\ control_fd' = FALSE
    /\ UNCHANGED <<active_algos, active_parts, driverAlgos, refused>>

(* The durations, or the mask, may be refused                              *)
sensorhub_enable(enable) ==
    /\ control_fd
    /\ LET data == IF enable THEN active_algos \cup {MOVEMENT} ELSE active_algos \ {MOVEMENT}
       IN \/ active_algos' = data /\ driverAlgos' = data /\ refused' = refused \ {Mask}
          \/ UNCHANGED <<active_algos, driverAlgos, refused>>
    /\ UNCHANGED <<control_fd, active_parts>>

TogglesOn(a, parts) == active_parts[a] = 0 /\ parts # 0

(* The bit of an algorithm changes with its first parts and its last ones  *)
Toggles(a, parts) == (active_parts[a] = 0) # (parts = 0)

MaskWith(a, parts) ==
    IF ~Toggles(a, parts) THEN active_algos
    ELSE IF parts # 0 THEN active_algos \cup {a} ELSE active_algos \ {a}

(* The parts are remembered before the mask is given to the driver         *)
sensorhub_algo_req(a, parts) ==
    /\ control_fd
    /\ \/ UNCHANGED <<active_algos, active_parts, driverAlgos, refused>>
       \/ /\ active_parts' = [active_parts EXCEPT ![a] = parts]
          /\ \/ /\ active_algos' = MaskWith(a, parts) /\ driverAlgos' = active_algos'
                /\ refused' = refused \ (IF Toggles(a, parts) THEN {a, Mask} ELSE {Mask})
             \/ /\ refused' = IF Toggles(a, parts) THEN refused \cup {a} ELSE refused
                /\ UNCHANGED <<active_algos, driverAlgos>>
    /\ UNCHANGED control_fd

SensorHubNext ==
    \/ sensorhub_open \/ sensorhub_close
    \/ \E enable \in BOOLEAN : sensorhub_enable(enable)
    \/ \E a \in Algos, parts \in PartSets : sensorhub_algo_req(a, parts)

SensorHubSpec == SensorHubInit /\ [][SensorHubNext]_moduleVars

-----------------------------------------------------------------------------
ModuleTypeOK ==
    /\ control_fd \in BOOLEAN
    /\ active_algos \subseteq Algos \cup {MOVEMENT}
    /\ driverAlgos \subseteq Algos \cup {MOVEMENT}
    /\ active_parts \in [Algos -> PartSets]
    /\ refused \subseteq Algos \cup {Mask}

(* Requests of several algorithms, of which the driver refuses some: an     *)
(* algorithm runs just when it has parts, unless the mask was refused after *)
(* its first parts were taken or its last given up, which asking again does *)
(* not mend; and the driver has the mask that the module remembers          *)
AlgoFollowsParts ==
    ModuleTypeOK /\ (control_fd =>
        /\ \A a \in Algos \ refused : a \in active_algos <=> active_parts[a] # 0
        /\ Mask \notin refused => driverAlgos = active_algos)
=============================================================================
