---------------------------- MODULE CameraWrapper -----------------------------
(***************************************************************************)
(* The wrapper around the vendor's camera module (CameraWrapper.cpp).  A    *)
(* device forwards every call to the vendor's device; the settings of each *)
(* camera and the callbacks of the client are kept in globals.              *)
(*                                                                         *)
(* One client uses each camera and makes one call at a time, as the code   *)
(* assumes of the camera service; the clients of two cameras may be at     *)
(* work at once.  A string of settings is alive or freed: what it says is  *)
(* left out.  The vendor's module and its devices are external.             *)
(***************************************************************************)
EXTENDS FiniteSets

CONSTANT Cameras        \* the cameras the vendor's module has

ASSUME CameraAssumption == Cameras # {} /\ IsFiniteSet(Cameras)

VARIABLES
    gVendorModule,      \* it was found
    fixed_set_params,   \* NULL or, for each camera, its last settings
    gUserCallbacks,     \* the camera whose client the callbacks are of
    gUserCameraDevice,  \* the camera whose client the argument is of
    camera,             \* the wrapper's devices: closed, open or released
    setting,            \* how far a client is in set_callbacks()
    vendor,             \* external: the vendor's devices
    called,             \* history: whom the last callback of the vendor reached
    overlapped,         \* history: a second camera was opened since none was open
    misused             \* history: a string was freed twice, or a device of the
                        \* vendor was not released once before it was closed

userVars == <<gUserCallbacks, gUserCameraDevice>>
cameraVars == <<gVendorModule, fixed_set_params, userVars, camera, setting, vendor,
                called, overlapped, misused>>

Nobody == "nobody"
NoTable == <<>>
Fresh == [c \in Cameras |-> "none"]
Opened == [state |-> "open", told |-> FALSE, runs |-> {}]
Closed == [Opened EXCEPT !.state = "closed"]
Quiet == [from |-> Nobody, callbacks |-> Nobody, device |-> Nobody]

CameraInit ==
    /\ gVendorModule = FALSE
    /\ fixed_set_params = NoTable
    /\ gUserCallbacks = Nobody /\ gUserCameraDevice = Nobody
    /\ camera = [c \in Cameras |-> "closed"]
    /\ setting = [c \in Cameras |-> "no"]
    /\ vendor = [c \in Cameras |-> Closed]
    /\ called = Quiet /\ overlapped = FALSE /\ misused = FALSE

OpenCameras == {c \in Cameras : camera[c] # "closed"}

-----------------------------------------------------------------------------
(* The module                                                              *)

check_vendor_module == gVendorModule' \in {gVendorModule, TRUE}

camera_get_number_of_cameras ==
    /\ check_vendor_module
    /\ UNCHANGED <<fixed_set_params, userVars, camera, setting, vendor, called,
                   overlapped, misused>>

(* Every open makes a table of its own and forgets the one before it.      *)
(* refused: the number is not that of a camera, there is no memory for the *)
(* device, or the vendor does not open its own, which it does only once.   *)
(* A device without memory for its operations leaves the vendor's open     *)
Outcomes(c) ==
    IF vendor[c].state = "closed" THEN {"table", "refused", "ops", "opened"}
    ELSE {"table", "refused"}

camera_device_open(c) ==
    /\ camera[c] = "closed"
    /\ check_vendor_module
    /\ overlapped' = (overlapped \/ OpenCameras # {})
    /\ IF ~gVendorModule' THEN UNCHANGED <<fixed_set_params, camera, vendor>>
       ELSE \E outcome \in Outcomes(c) :
              /\ fixed_set_params' = IF outcome = "table" THEN NoTable ELSE Fresh
              /\ camera' = [camera EXCEPT ![c] = IF outcome = "opened" THEN "open" ELSE @]
              /\ vendor' = [vendor EXCEPT ![c] = IF outcome \in {"ops", "opened"}
                                                 THEN Opened ELSE @]
    /\ UNCHANGED <<userVars, setting, called, misused>>

(* free() of the settings of some cameras                                  *)
Freed(ids) ==
    [c \in Cameras |-> IF c \in ids /\ fixed_set_params[c] # "none" THEN "freed"
                       ELSE fixed_set_params[c]]

FreedWrongly(ids) ==
    fixed_set_params = NoTable \/ \E c \in ids : fixed_set_params[c] = "freed"

ReleasesFirst(c) == camera[c] # "released"

(* Every camera's settings are freed, whichever is closed, and the table   *)
(* keeps their addresses.  The threads of the vendor end with its device    *)
camera_device_close(c) ==
    /\ camera[c] # "closed" /\ setting[c] = "no"
    /\ fixed_set_params' = IF fixed_set_params = NoTable THEN NoTable ELSE Freed(Cameras)
    /\ misused' = \/ FreedWrongly(Cameras)
                  \/ ReleasesFirst(c) # (vendor[c].state = "open")
    /\ vendor' = [vendor EXCEPT ![c] = Closed]
    /\ camera' = [camera EXCEPT ![c] = "closed"]
    /\ overlapped' = (overlapped /\ (misused' \/ OpenCameras # {c}))
    /\ called' = Quiet
    /\ UNCHANGED <<gVendorModule, userVars, setting>>

-----------------------------------------------------------------------------
(* The operations of a device.  A client calls them until it releases it   *)

Callable(c) == camera[c] = "open" /\ setting[c] = "no"

Forwards(c, activity) ==
    /\ Callable(c)
    /\ \E runs \in {vendor[c].runs \cup {activity}, vendor[c].runs \ {activity}} :
         vendor' = [vendor EXCEPT ![c].runs = runs]
    /\ UNCHANGED <<gVendorModule, fixed_set_params, userVars, camera, setting, called,
                   overlapped, misused>>

(* Messages are enabled and disabled; previews, recordings and pictures are *)
(* started and stopped                                                     *)
MessageCalls(c) == Forwards(c, "messages")
CaptureCalls(c) == Forwards(c, "capture")

camera_release(c) ==
    /\ Callable(c)
    /\ misused' = (vendor[c].state # "open")
    /\ vendor' = [vendor EXCEPT ![c].state = "released", ![c].runs = {}]
    /\ camera' = [camera EXCEPT ![c] = "released"]
    /\ UNCHANGED <<gVendorModule, fixed_set_params, userVars, setting, called, overlapped>>

(* The settings of before are freed, and the vendor is given the new ones  *)
camera_set_parameters(c) ==
    /\ Callable(c)
    /\ misused' = FreedWrongly({c})
    /\ fixed_set_params' = IF fixed_set_params = NoTable THEN NoTable
                           ELSE [Freed({c}) EXCEPT ![c] = "alive"]
    /\ UNCHANGED <<gVendorModule, userVars, camera, setting, vendor, called, overlapped>>

-----------------------------------------------------------------------------
(* set_callbacks(): the globals are written one after the other, without a *)
(* lock, before the vendor is told where to call                           *)

Sets(c, from, to) ==
    /\ setting[c] = from
    /\ setting' = [setting EXCEPT ![c] = to]
    /\ UNCHANGED <<gVendorModule, fixed_set_params, camera, called, overlapped, misused>>

camera_set_callbacks(c) ==
    /\ Callable(c)
    /\ Sets(c, "no", "callbacks")
    /\ gUserCallbacks' = c
    /\ UNCHANGED <<gUserCameraDevice, vendor>>

TellsVendorFirst(c) ==
    \/ /\ Sets(c, "callbacks", "device")
       /\ vendor' = [vendor EXCEPT ![c].told = TRUE]
       /\ UNCHANGED userVars
    \/ /\ Sets(c, "device", "no")
       /\ gUserCameraDevice' = c
       /\ UNCHANGED <<gUserCallbacks, vendor>>

SetsDevice(c) ==
    \/ /\ Sets(c, "callbacks", "device")
       /\ gUserCameraDevice' = c
       /\ UNCHANGED <<gUserCallbacks, vendor>>
    \/ /\ Sets(c, "device", "no")
       /\ vendor' = [vendor EXCEPT ![c].told = TRUE]
       /\ UNCHANGED userVars

(* A thread of the vendor calls camera_notify_cb(), camera_data_cb() or    *)
(* camera_get_memory(), which take no notice of the argument they are given *)
Callback(c) ==
    /\ vendor[c].told /\ vendor[c].runs # {}
    /\ called' = [from |-> c, callbacks |-> gUserCallbacks, device |-> gUserCameraDevice]
    /\ UNCHANGED <<gVendorModule, fixed_set_params, userVars, camera, setting, vendor,
                   overlapped, misused>>

(* Nothing is said of what follows a misuse                                *)
CameraNext ==
    /\ ~misused
    /\ \/ camera_get_number_of_cameras
       \/ \E c \in Cameras :
            \/ camera_device_open(c) \/ camera_device_close(c)
            \/ MessageCalls(c) \/ CaptureCalls(c)
            \/ camera_release(c) \/ camera_set_parameters(c)
            \/ camera_set_callbacks(c) \/ SetsDevice(c)
            \/ Callback(c)

CameraSpec == CameraInit /\ [][CameraNext]_cameraVars

-----------------------------------------------------------------------------
CameraTypeOK ==
    /\ gVendorModule \in BOOLEAN
    /\ fixed_set_params \in {NoTable} \cup [Cameras -> {"none", "alive", "freed"}]
    /\ {gUserCallbacks, gUserCameraDevice} \subseteq Cameras \cup {Nobody}
    /\ camera \in [Cameras -> {"closed", "open", "released"}]
    /\ setting \in [Cameras -> {"no", "callbacks", "device"}]
    /\ \A c \in Cameras : vendor[c].state \in {"closed", "open", "released"}
    /\ \A c \in Cameras : setting[c] # "no" => camera[c] = "open"

(* While the clients take turns, so that no camera is opened before the    *)
(* one in use is closed: no settings are freed twice or through a table    *)
(* that is not there, none are left when the last camera is closed, a      *)
(* device of the vendor is released once and before it is closed, and a    *)
(* callback of the vendor reaches the client that uses its camera with that *)
(* client's argument, never an earlier one's or one half written.  Two     *)
(* cameras at once do free settings twice, in camera_device_close(), and    *)
(* share the callbacks of whoever set them last                            *)
CameraSafe ==
    /\ CameraTypeOK
    /\ misused => overlapped
    /\ OpenCameras = {} /\ fixed_set_params # NoTable =>
         \A c \in Cameras : fixed_set_params[c] # "alive"
    /\ called # Quiet /\ ~overlapped =>
         called.callbacks = called.from /\ called.device = called.from
=============================================================================
