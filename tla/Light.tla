-------------------------------- MODULE Light ---------------------------------
(***************************************************************************)
(* The light service (light/Light.cpp, service.cpp): the panel's backlight, *)
(* and one LED for the battery, attention and notifications, which blinks   *)
(* where there is a blinking LED and is the charging LED elsewhere.         *)
(*                                                                         *)
(* The service has one thread.  Each file is a C++ stream: after a write    *)
(* that fails it takes no other, and the tests of the stream are false.     *)
(* A light that was not set yet has an undefined state.                     *)
(***************************************************************************)
EXTENDS Integers

CONSTANTS
    Levels,         \* the levels of grey a backlight is set to, in 0 .. 255
    Maxima,         \* what max_brightness may hold
    MaxFailures,    \* a bound of the model: writes that fail
    Unset           \* what a light or a file holds before it is set

ASSUME LightAssumption ==
    Levels \subseteq 0 .. 255 /\ Maxima \subseteq Nat /\ MaxFailures \in Nat

DEFAULT_MAX_BRIGHTNESS == 255

Types == {"BACKLIGHT", "BATTERY", "ATTENTION", "NOTIFICATIONS"}
Speaker == Types \ {"BACKLIGHT"}
Files == {"lcd", "blinking", "charging"}

(* The state of a light: dark, or lit with or without an interval          *)
LightStates == {"dark", "lit", "timed"}
isLit(state) == state # "dark"

VARIABLES
    good,           \* the streams that are open and did not fail
    mLights,        \* the types that are supported; none: the service gave up
    second,         \* mLcdBacklight.second, the largest value of the panel
    state,          \* mBatteryState, mAttentionState, mNotificationState
    shows,          \* external: what each file was last given
    failures,       \* writes that failed
    asked           \* history: what each light was last set to, if it was

lightVars == <<good, mLights, second, state, shows, failures, asked>>

(* main(): the backlight and its maximum are needed, and one of the LEDs    *)
LightInit ==
    /\ good \in SUBSET Files
    /\ second \in Maxima
    /\ mLights = IF "lcd" \notin good \/ good = {"lcd"} THEN {}
                 ELSE {"BACKLIGHT", "BATTERY"}
                      \cup IF "blinking" \in good THEN {"ATTENTION", "NOTIFICATIONS"} ELSE {}
    /\ state \in [Speaker -> LightStates]
    /\ shows = [f \in Files |-> Unset]
    /\ failures = 0
    /\ asked = [t \in Types |-> Unset]

(* What a stream is given reaches its file, or is lost with all that is    *)
(* given to it afterwards                                                  *)
Written(file, value) ==
    \/ /\ file \in good
       /\ shows' = [shows EXCEPT ![file] = value]
       /\ UNCHANGED <<good, failures>>
    \/ /\ file \in good /\ failures < MaxFailures
       /\ good' = good \ {file} /\ failures' = failures + 1
       /\ UNCHANGED shows
    \/ file \notin good /\ UNCHANGED <<good, shows, failures>>

rgbToBrightness(r, g, b) == (77 * r + 150 * g + 29 * b) \div 256

(* The scaling, without the cut to whole numbers it makes on the way       *)
Scaled(brightness) ==
    IF second # DEFAULT_MAX_BRIGHTNESS THEN (brightness * second) \div DEFAULT_MAX_BRIGHTNESS
    ELSE brightness

setLcdBacklight(level) ==
    /\ Written("lcd", Scaled(rgbToBrightness(level, level, level)))
    /\ UNCHANGED state

(* setSpeakerLightLocked(), for the states s: the file that is written     *)
(* and what it is given                                                    *)
Blinks(s) ==
    IF isLit(s["NOTIFICATIONS"])
    THEN IF s["NOTIFICATIONS"] = "timed" THEN "blinks" ELSE "on"
    ELSE IF isLit(s["BATTERY"]) \/ isLit(s["ATTENTION"]) THEN "on" ELSE "off"

setSpeakerLightLocked(s) ==
    IF "blinking" \in good THEN Written("blinking", Blinks(s))
    ELSE Written("charging", IF isLit(s["BATTERY"]) THEN "on" ELSE "off")

SetsAnother(type, to) ==
    /\ setSpeakerLightLocked(state)
    /\ state' = [state EXCEPT ![type] = to]

(* setBatteryLight(), setAttentionLight(), setNotificationLight()          *)
setSpeakerLight(type, to) ==
    /\ state' = [state EXCEPT ![type] = to]
    /\ setSpeakerLightLocked(state')

(* A type that is not supported is refused and changes nothing             *)
setLight(type, to) ==
    /\ type \in mLights
    /\ asked' = [asked EXCEPT ![type] = to]
    /\ UNCHANGED <<mLights, second>>

SetBacklight == \E level \in Levels : setLight("BACKLIGHT", level) /\ setLcdBacklight(level)
SetSpeaker ==
    \E type \in Speaker, to \in LightStates : setLight(type, to) /\ setSpeakerLight(type, to)

LightNext == SetBacklight \/ SetSpeaker

LightSpec == LightInit /\ [][LightNext]_lightVars

-----------------------------------------------------------------------------
LightTypeOK ==
    /\ good \subseteq Files /\ mLights \subseteq Types /\ second \in Maxima
    /\ state \in [Speaker -> LightStates]
    /\ failures \in 0 .. MaxFailures

(* What the LED should show for what its lights were set to: the most      *)
(* important that is lit decides                                           *)
Wanted ==
    LET lit == {t \in Speaker \cap mLights : asked[t] # "dark"}
    IN IF lit = {} THEN "off"
       ELSE IF "NOTIFICATIONS" \in lit /\ asked["NOTIFICATIONS"] = "timed" THEN "blinks"
       ELSE "on"

(* As long as no write failed, once each light was set at least once, the   *)
(* LED shows the most important one that is lit, whatever the order of the  *)
(* calls; and a backlight is at its darkest, at its brightest, and lit, as  *)
(* it was asked for, whatever the panel's maximum above that of the service *)
LightsFollow ==
    LightTypeOK /\ (failures = 0 /\ mLights # {} =>
        /\ (\A t \in Speaker \cap mLights : asked[t] # Unset) =>
              shows[IF "NOTIFICATIONS" \in mLights THEN "blinking" ELSE "charging"] = Wanted
        /\ asked["BACKLIGHT"] # Unset =>
              /\ shows["lcd"] \in 0 .. second
              /\ asked["BACKLIGHT"] = 0 => shows["lcd"] = 0
              /\ asked["BACKLIGHT"] = 255 => shows["lcd"] = second
              /\ asked["BACKLIGHT"] > 0 /\ second >= DEFAULT_MAX_BRIGHTNESS => shows["lcd"] > 0)
=============================================================================
