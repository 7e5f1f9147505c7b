------------------------------ MODULE SensorHal -------------------------------
(***************************************************************************)
(* The sensors HAL with a magnetometer (SensorHal.cpp, SensorsPollContext, *)
(* HubSensor, AkmSensor, InputEventReader).  One thread of the framework    *)
(* batches, activates and flushes sensors; another polls.  They share the  *)
(* enables of both drivers and input_sysfs_path, the buffer in which       *)
(* AkmSensor puts together the name of the attribute it is about to write. *)
(*                                                                         *)
(* External are the hub, which accepts every ioctl and queues what it      *)
(* measures, and the driver of the compass: its attributes, which refuse a *)
(* value meant for another one, and its queue of input events.  The        *)
(* framework batches a sensor before it activates it, one call at a time.  *)
(***************************************************************************)
EXTENDS CompassDriver, SequencesExt, FiniteSetsExt

CONSTANTS
    Handles,        \* the sets of sensors the framework may use together
    Delays,         \* the delays it asks for, in the unit of the hub
    Count,          \* the events poll() has room for
    NumEvents,      \* the capacity of the reader of input events
    MaxData,        \* bound: measurements the hub sends
    MaxRecords      \* bound: records of the hub nobody has read

Fusion == {"A", "OR", "RV"}             \* these share the accelerometer
Mag == {"M", "UM"}                      \* these share enable_mag, delay_mag
Ori == {"OR", "RV"}                     \* these share enable_fusion, delay_fusion
Akm == Mag \cup Ori
Glances == {"GLANCE", "MOTO_GLANCE"}    \* these share M_GLANCE
Wake == {"P"} \cup Glances
Hub == {"A", "L"} \cup Wake
Default == 200

ASSUME SensorAssumption ==
    /\ Handles \subseteq SUBSET (Akm \cup Hub) /\ Handles # {}
    /\ Delays \subseteq 1 .. Default - 1 /\ Delays # {}
    /\ Count \in Nat /\ Count >= 2
    /\ NumEvents \in Nat \ {0}
    /\ MaxData \in Nat /\ MaxRecords \in Nat

VARIABLES
    mFusionEnabled, \* HubSensor: the users of the accelerometer
    mFusionDelay,
    mEnabled,       \* bits of the sensors that are on, as the hub was told
    mWakeEnabled,   \* bits of the wake sensors that are on, likewise
    mEnabledHandles,
    akmEnabled,     \* AkmSensor: mEnabled of that class
    mDelay,
    mPendingMask,
    mInputReader,   \* the events it holds, each a set of sensors with new data
    input_sysfs_path,
    used,           \* the sensors the framework uses
    call,           \* the call of the framework in progress
    on,             \* the sensors activate() has enabled, as the framework knows
    lost,           \* history: attributes whose last write met another name
    poller,         \* what the thread in poll() does next
    data,           \* the events it has put in the buffer
    revents,
    hub             \* external: accelerometer delay, records, how many so far

hubVars == <<mFusionEnabled, mFusionDelay, mEnabled, mWakeEnabled, mEnabledHandles>>
readVars == <<mPendingMask, mInputReader>>
callVars == <<used, call, on, lost, calls>>
pollVars == <<poller, data, revents>>
halVars == <<hubVars, akmEnabled, mDelay, readVars, input_sysfs_path, callVars,
             pollVars, hub>>

Idle == [op |-> "none"]
Attributes == {"enable_mag", "enable_fusion", "delay_mag", "delay_fusion"}

(* A write of an attribute; the call fails with it only if it must succeed *)
To(attribute, value, must) == [attr |-> attribute, value |-> value, must |-> must]

LowestOf(users, delays, otherwise) ==
    Min({delays[h] : h \in users} \cup {otherwise})

(* Every sensor in use has been batched once, and none is on.  With none  *)
(* on, a delay they share is that of the one batched last                  *)
Shared(users, delays, last, otherwise) ==
    CASE users = {} -> {otherwise}
      [] last \in users -> {delays[last]}
      [] OTHER -> {delays[h] : h \in users}

HalInit ==
    /\ used \in Handles
    /\ \E delays \in [used -> Delays], last \in used :
         /\ mFusionDelay = [h \in Fusion |-> IF h \in used THEN delays[h] ELSE Default]
         /\ mDelay = [h \in Akm |-> IF h \in used THEN delays[h] ELSE NoDelay]
         /\ \E mag \in Shared(used \cap Mag, delays, last, NoDelay),
              ori \in Shared(used \cap Ori, delays, last, NoDelay),
              accel \in Shared(used \cap Fusion, delays, last, Default) :
              /\ compass = [enable_mag |-> 0, enable_fusion |-> 0,
                            delay_mag |-> mag, delay_fusion |-> ori]
              /\ hub = [delay |-> accel, records |-> <<>>, sent |-> 0]
    /\ inputs = <<>>
    /\ mFusionEnabled = {} /\ mEnabled = {} /\ mWakeEnabled = {}
    /\ mEnabledHandles = {} /\ akmEnabled = {}
    /\ mPendingMask = {} /\ mInputReader = <<>>
    /\ input_sysfs_path = ""
    /\ call = Idle /\ on = {} /\ lost = {} /\ calls = 0
    /\ poller = "poll" /\ data = <<>> /\ revents = {}

-----------------------------------------------------------------------------
(* HubSensor                                                               *)

(* The accelerometer's own user sets the delay, the others only lower it *)
FusionDelay(users, delays, otherwise) ==
    LowestOf(users \ {"A"}, delays, IF "A" \in users THEN delays["A"] ELSE otherwise)

Switched(bits, bit, en) == IF en THEN bits \cup {bit} ELSE bits \ {bit}

MayAlwaysTurn(h) == TRUE

(* A glance sensor leaves the bit alone while the other one is enabled *)
MayTurn(h) == h \in Glances => mEnabledHandles \cap (Glances \ {h}) = {}

HubSetEnable(h, en) ==
    /\ mEnabledHandles' = Switched(mEnabledHandles, h, en)
    /\ IF h \in Fusion
         THEN /\ mFusionEnabled' = Switched(mFusionEnabled, h, en)
              /\ hub' = [hub EXCEPT !.delay =
                            FusionDelay(mFusionEnabled', mFusionDelay, Default)]
              /\ mEnabled' = Switched(mEnabled, "ACCEL", mFusionEnabled' # {})
         ELSE /\ mEnabled' = IF h = "L" THEN Switched(mEnabled, "ALS", en) ELSE mEnabled
              /\ UNCHANGED <<mFusionEnabled, hub>>
    /\ mWakeEnabled' =
         IF h \in Wake /\ MayTurn(h)
         THEN Switched(mWakeEnabled, IF h \in Glances THEN "GLANCE" ELSE h, en)
         ELSE mWakeEnabled
    /\ UNCHANGED mFusionDelay

HubSetDelay(h, d) ==
    IF h \in Fusion
    THEN /\ mFusionDelay' = [mFusionDelay EXCEPT ![h] = d]
         /\ hub' = [hub EXCEPT !.delay = FusionDelay(mFusionEnabled, mFusionDelay', d)]
         /\ UNCHANGED <<mFusionEnabled, mEnabled, mWakeEnabled, mEnabledHandles>>
    ELSE UNCHANGED <<hubVars, hub>>

-----------------------------------------------------------------------------
(* AkmSensor: what it writes to the driver                                 *)

Digit(users) == IF users = {} THEN 0 ELSE 1

MagDelay(enabled) ==
    IF enabled \cap Mag = {} THEN <<>>
    ELSE <<To("delay_mag", Min({mDelay[h] : h \in enabled \cap Mag}), FALSE)>>

AkmSetEnable(h, en) ==
    /\ akmEnabled' = Switched(akmEnabled, h, en)
    /\ call' = [op |-> "enable", handle |-> h, arg |-> en, pointed |-> FALSE,
                writes |-> IF h \in Mag
                           THEN Append(MagDelay(akmEnabled'),
                                       To("enable_mag", Digit(akmEnabled' \cap Mag), TRUE))
                           ELSE <<To("enable_fusion", Digit(akmEnabled' \cap Ori), TRUE)>>]
    /\ UNCHANGED mDelay

(* The other magnetic sensor may want a shorter delay *)
Resolved(h, d) == LowestOf((akmEnabled \cap Mag) \ {h}, mDelay, d)

AkmSetDelay(h, d) ==
    /\ mDelay' = [mDelay EXCEPT ![h] = d]
    /\ call' = [op |-> "delay", handle |-> h, arg |-> d, pointed |-> FALSE,
                writes |-> <<IF h \in Mag THEN To("delay_mag", Resolved(h, d), TRUE)
                             ELSE To("delay_fusion", d, TRUE)>>]
    /\ UNCHANGED akmEnabled

(* strcpy() of the attribute's name *)
Point ==
    /\ call # Idle /\ call.writes # <<>> /\ ~call.pointed
    /\ input_sysfs_path' = Head(call.writes).attr
    /\ call' = [call EXCEPT !.pointed = TRUE]
    /\ UNCHANGED <<hubVars, akmEnabled, mDelay, readVars, used, on, lost, calls, pollVars,
                   hub, driverVars>>

(* write_sys_attribute() of whatever the buffer now names *)
WriteAttribute ==
    /\ call # Idle /\ call.writes # <<>> /\ call.pointed
    /\ LET w == Head(call.writes)
       IN IF input_sysfs_path = w.attr
          THEN /\ compass' = [compass EXCEPT ![w.attr] = w.value]
               /\ lost' = lost \ {w.attr}
               /\ call' = [call EXCEPT !.writes = Tail(@), !.pointed = FALSE]
          ELSE /\ compass' = compass
               /\ lost' = lost \cup {w.attr}
               /\ call' = IF w.must THEN Idle
                          ELSE [call EXCEPT !.writes = Tail(@), !.pointed = FALSE]
    /\ UNCHANGED <<hubVars, akmEnabled, mDelay, readVars, input_sysfs_path,
                   used, on, calls, pollVars, hub, inputs>>

-----------------------------------------------------------------------------
(* SensorsPollContext: the calls of the framework                          *)

Called == call = Idle /\ calls + faults < MaxCalls /\ calls' = calls + 1

Returned(h, en) == on' = Switched(on, h, en)

(* A call the hub alone answers is over at once; one to the compass goes  *)
(* on write by write                                                       *)
activate(h, en) ==
    /\ Called
    /\ ~en => h \in on
    /\ IF h \in Akm
         THEN /\ AkmSetEnable(h, en)
              /\ on' = IF en THEN on ELSE on \ {h}
              /\ UNCHANGED <<hubVars, hub>>
         ELSE /\ HubSetEnable(h, en)
              /\ Returned(h, en)
              /\ UNCHANGED <<akmEnabled, mDelay, call>>
    /\ UNCHANGED <<used, lost, readVars, input_sysfs_path, pollVars, driverVars>>

setDelay(h, d) ==
    /\ Called
    /\ IF h \in Akm
         THEN AkmSetDelay(h, d) /\ UNCHANGED <<hubVars, hub>>
         ELSE HubSetDelay(h, d) /\ UNCHANGED <<akmEnabled, mDelay, call>>
    /\ UNCHANGED <<used, on, lost, readVars, input_sysfs_path, pollVars,
                   driverVars>>

(* The compass was told; the orientation sensors also need the hub *)
Finish ==
    /\ call # Idle /\ call.writes = <<>>
    /\ call' = Idle
    /\ IF call.op = "enable"
         THEN /\ IF call.handle \in Ori
                   THEN HubSetEnable(call.handle, call.arg)
                   ELSE UNCHANGED <<hubVars, hub>>
              /\ Returned(call.handle, call.arg)
         ELSE /\ IF call.handle \in Ori
                   THEN HubSetDelay(call.handle, call.arg)
                   ELSE UNCHANGED <<hubVars, hub>>
              /\ UNCHANGED on
    /\ UNCHANGED <<akmEnabled, mDelay, readVars, input_sysfs_path, used, lost, calls,
                   pollVars, driverVars>>

(* The hub answers a flush with a record, even one for a sensor of akm *)
flush(h) ==
    /\ Called /\ h \in on /\ Len(hub.records) < MaxRecords
    /\ hub' = [hub EXCEPT !.records = Append(@, "FLUSH")]
    /\ UNCHANGED <<hubVars, akmEnabled, mDelay, readVars, input_sysfs_path, used,
                   call, on, lost, pollVars, driverVars>>

-----------------------------------------------------------------------------
(* SensorsPollContext::pollEvents(), in the loop of poll__poll()           *)

Unread == Count - Len(data)

poll ==
    /\ poller = "poll"
    /\ LET ready == (IF hub.records # <<>> THEN {"sensor_hub"} ELSE {})
                      \cup (IF inputs # <<>> THEN {"akm"} ELSE {})
       IN /\ ready # {}
          /\ revents' = ready
          /\ poller' = IF "sensor_hub" \in ready THEN "hub" ELSE "akm"
    /\ data' = <<>>
    /\ UNCHANGED <<hubVars, akmEnabled, mDelay, readVars, input_sysfs_path,
                   callVars, hub, driverVars>>

HasOneSlot == Unread > 0

(* One record of the hub may be two events: one slot is kept back *)
HasRoom == Unread > 1

Only(h, sensors) == IF h \in sensors THEN <<h>> ELSE <<>>

Events(record) ==
    CASE record = "ACCEL" -> <<"A">>
      [] record = "FLUSH" -> <<"FLUSH">>
      [] record = "GLANCE" ->
           Only("MOTO_GLANCE", mEnabledHandles) \o Only("GLANCE", mEnabledHandles)
      [] OTHER -> <<>>

HubReadEvents ==
    /\ poller = "hub"
    /\ IF hub.records # <<>> /\ HasRoom
         THEN /\ data' = data \o Events(Head(hub.records))
              /\ hub' = [hub EXCEPT !.records = Tail(@)]
              /\ UNCHANGED poller
         ELSE /\ poller' = IF data # <<>> THEN "accel" ELSE "akm"
              /\ UNCHANGED <<data, hub>>
    /\ UNCHANGED <<hubVars, akmEnabled, mDelay, readVars, input_sysfs_path,
                   callVars, revents, driverVars>>

(* The loop over the events steps backwards from the first one: it finds  *)
(* that one, and what lies before the buffer may look like another.  The   *)
(* six bytes it then writes change no other attribute                      *)
setAccel ==
    /\ poller = "accel"
    /\ \/ /\ Head(data) = "A" \/ Len(data) > 1
          /\ input_sysfs_path' = "accel"
       \/ /\ Head(data) # "A"
          /\ UNCHANGED input_sysfs_path
    /\ poller' = "akm"
    /\ UNCHANGED <<hubVars, akmEnabled, mDelay, readVars, callVars, data, revents,
                   hub, driverVars>>

(* InputEventCircularReader::fill() takes what it has space for *)
fill ==
    LET n == Min({NumEvents - Len(mInputReader), Len(inputs)})
    IN [reader |-> mInputReader \o SubSeq(inputs, 1, n),
        unread |-> SubSeq(inputs, n + 1, Len(inputs))]

Order == <<"M", "UM", "OR", "RV">>

InOrder(sensors) ==
    Only(Order[1], sensors) \o Only(Order[2], sensors)
      \o Only(Order[3], sensors) \o Only(Order[4], sensors)

(* The pending events up to the one that takes the last slot *)
Passed(pending) ==
    LET enabled == InOrder(pending \cap akmEnabled)
    IN SubSeq(enabled, 1, Min({Unread, Len(enabled)}))

(* What stays pending when there is no slot left after those *)
Left(pending) ==
    IF Len(Passed(pending)) < Unread THEN {}
    ELSE LET last == CHOOSE i \in 1 .. 4 : Order[i] = Last(Passed(pending))
         IN {h \in pending : \E i \in 1 .. 4 : i > last /\ Order[i] = h}

(* The reader is filled only when poll() saw something to read.  Then one *)
(* event of it after the other: the data of some sensors and EV_SYN.  What *)
(* has no slot stays pending, and the EV_SYN with it                       *)
AkmReadEvents ==
    /\ poller \in {"akm", "events"}
    /\ LET filled == IF poller = "akm" THEN fill.reader ELSE mInputReader
           pending == mPendingMask \cup Head(filled)
       IN IF Unread > 0 /\ "akm" \in revents /\ filled # <<>>
          THEN /\ data' = data \o Passed(pending)
               /\ mPendingMask' = Left(pending)
               /\ mInputReader' = IF Left(pending) = {} THEN Tail(filled)
                                  ELSE <<{}>> \o Tail(filled)
               /\ inputs' = IF poller = "akm" THEN fill.unread ELSE inputs
               /\ poller' = "events"
          ELSE poller' = "return" /\ UNCHANGED <<data, readVars, inputs>>
    /\ UNCHANGED <<hubVars, akmEnabled, mDelay, input_sysfs_path, callVars,
                   revents, hub, compass>>

(* With no event the loop of poll__poll() polls again *)
pollReturns ==
    /\ poller = "return"
    /\ poller' = "poll"
    /\ revents' = {}
    /\ data' = <<>>
    /\ UNCHANGED <<hubVars, akmEnabled, mDelay, readVars, input_sysfs_path,
                   callVars, hub, driverVars>>

Poller == poll \/ HubReadEvents \/ setAccel \/ AkmReadEvents \/ pollReturns

Caller == Point \/ WriteAttribute \/ Finish

(* The hub measures for the sensors the framework reads *)
HubMeasures ==
    /\ hub.sent < MaxData /\ Len(hub.records) < MaxRecords
    /\ \E record \in {"ACCEL" : h \in on \cap {"A"}} \cup (mWakeEnabled \cap {"GLANCE"}) :
         hub' = [hub EXCEPT !.records = Append(@, record), !.sent = @ + 1]
    /\ UNCHANGED <<hubVars, akmEnabled, mDelay, readVars, input_sysfs_path,
                   callVars, pollVars, driverVars>>
=============================================================================
