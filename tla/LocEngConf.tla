------------------------------ MODULE LocEngConf ------------------------------
(***************************************************************************)
(* What the location engine has the modem remember: gps.conf and sap.conf, *)
(* the servers of the framework, whether data is allowed, the GPS lock and  *)
(* that the framework measures (loc_eng.cpp, loc.cpp, LocApiBase.cpp).  The *)
(* engine keeps a copy of all but the lock and gives it to the modem again  *)
(* when it has restarted.                                                  *)
(*                                                                         *)
(* Two threads read and write the copies: the framework's, which changes   *)
(* one and sends it, and the MsgTask, which after a restart reads each and *)
(* sends it to itself.  Both send through the one queue, msgs.             *)
(*                                                                         *)
(* The modem is external: a call to it does nothing unless it is up and    *)
(* has a client; a restart forgets everything but the lock, which it keeps *)
(* in non-volatile memory.  The calls of the framework are serialized.  A  *)
(* setting is a number: 0 is what the modem has by itself, 1 what the      *)
(* files of the build say.                                                 *)
(***************************************************************************)
EXTENDS Naturals, Sequences, FiniteSets, SequencesExt

CONSTANTS
    Updated,        \* settings loc_eng_configuration_update() sends
    Fixed,          \* settings of the files only loc_eng_reinit() sends
    Servers,        \* what loc_eng_set_server_proxy() keeps
    Values,         \* values the framework gives, at least 2
    Locks,          \* values of gps.conf's GPS_LOCK, other than 0 and 1
    MaxCalls,       \* bound: calls of the framework once it has called loc_init()
    MaxRestarts     \* bound: restarts of the modem

ASSUME LocEngConfAssumption ==
    /\ Values \subseteq Nat \ {0, 1}
    /\ Locks \subseteq Nat \ {0, 1}
    /\ "DATA" \notin Updated \cup Fixed \cup Servers
    /\ "LOCK" \notin Updated \cup Fixed \cup Servers
    /\ Updated \cap Fixed = {} /\ (Updated \cup Fixed) \cap Servers = {}
    /\ IsFiniteSet(Updated) /\ IsFiniteSet(Fixed) /\ IsFiniteSet(Servers)
    /\ MaxCalls \in Nat /\ MaxRestarts \in Nat

Settings == Updated \cup Fixed \cup Servers \cup {"DATA"}
AllValues == Values \cup {0, 1}

VARIABLES
    adapter,        \* loc_eng_init() has made the adapter
    agps_status_cb, \* loc_eng_agps_init() has been called
    copy,           \* of each setting: gps_conf, sap_conf, the buffers of the
                    \* servers (0 is unset) and agpsStatus
    given,          \* history: of each server, what the framework last set
    GPS_LOCK,       \* of gps.conf
    gnss_measurement_cb, \* the framework wants measurements
    mPowerVote,     \* loc_init() sets it, loc_cleanup() clears it
    calls,
    msgs,           \* the queue of the MsgTask
    outgoing,       \* what a handler has still to read and send
    holding,        \* what it has read and not yet sent: <<>> or one message
    modem,          \* up, open: a client, settings, lock, reports measurements
    restarts,
    behind          \* settings the code does not promise the modem has

halVars == <<adapter, agps_status_cb, copy, given, GPS_LOCK, gnss_measurement_cb,
             mPowerVote, calls>>
taskVars == <<outgoing, holding>>
vars == <<halVars, msgs, taskVars, modem, restarts, behind>>

Msg(type) == [type |-> type]
Set(s, v) == [type |-> "set", setting |-> s, value |-> v]
Lock(v) == [type |-> "lock", value |-> v]
Registration(on) == [type |-> "registration", on |-> on]

Messages ==
    [type : {"open", "init", "ssr", "up"}]
    \cup [type : {"set"}, setting : Settings, value : AllValues]
    \cup [type : {"registration"}, on : BOOLEAN]
    \cup [type : {"lock"}, value : Locks \cup {0, 1}]

Init ==
    /\ adapter = FALSE /\ agps_status_cb = FALSE
    /\ copy = [s \in Settings |-> IF s \in Updated \cup Fixed THEN 1 ELSE 0]
    /\ given = [s \in Servers |-> 0]
    /\ GPS_LOCK \in Locks
    /\ gnss_measurement_cb = FALSE /\ mPowerVote = FALSE /\ calls = 0
    /\ msgs = <<>> /\ outgoing = <<>> /\ holding = <<>>
    /\ modem = [up |-> TRUE, open |-> FALSE, lock |-> 0, measures |-> FALSE,
                settings |-> [s \in Settings |-> 0]]
    /\ restarts = 0
    /\ behind = Settings \cup {"LOCK"}

-----------------------------------------------------------------------------
(* The thread of the framework *)

(* The settings S change and are sent: what a handler has read of them and *)
(* not sent is out of date, and may overtake them                          *)
Changed(S) ==
    behind' = (behind \ S) \cup {s \in S : holding # <<>> /\ holding[1].setting = s}

(* agps_reinit(): the servers that were set, in the order of the code *)
ServersSet == SetToSeq({s \in Servers : copy[s] # 0})
SetServers == [i \in DOMAIN ServersSet |-> Set(ServersSet[i], copy[ServersSet[i]])]

Call ==
    /\ calls < MaxCalls
    /\ calls' = IF adapter THEN calls + 1 ELSE calls
    /\ UNCHANGED <<taskVars, modem, restarts>>

(* It clears the servers that were set and the callbacks with the rest of *)
(* loc_afw_data, the first time only                                       *)
loc_eng_init(sent) ==
    /\ adapter' = TRUE
    /\ IF adapter
       THEN /\ msgs' = msgs \o sent
            /\ UNCHANGED <<agps_status_cb, copy, gnss_measurement_cb>>
       ELSE /\ msgs' = msgs \o <<Msg("open"), Msg("init")>> \o sent
            /\ agps_status_cb' = FALSE /\ gnss_measurement_cb' = FALSE
            /\ copy' = [s \in Settings |-> IF s \in Servers THEN 0 ELSE copy[s]]

(* With or without a new adapter, the modem is unlocked *)
loc_init ==
    /\ Call
    /\ loc_eng_init(<<Lock(0)>>)
    /\ mPowerVote' = TRUE
    /\ behind' = IF adapter THEN behind \ {"LOCK"} ELSE {s \in Servers : copy[s] # 0}
    /\ UNCHANGED <<given, GPS_LOCK>>

(* It dereferences the adapter: the framework calls it after loc_init() *)
loc_cleanup ==
    /\ Call
    /\ adapter
    /\ mPowerVote' = FALSE
    /\ msgs' = Append(msgs, Lock(GPS_LOCK))
    /\ behind' = behind \ {"LOCK"}
    /\ UNCHANGED <<adapter, agps_status_cb, copy, given, GPS_LOCK, gnss_measurement_cb>>

loc_eng_set_server_proxy ==
    \E s \in Servers, v \in Values :
        /\ Call
        /\ copy' = [copy EXCEPT ![s] = v]
        /\ given' = [given EXCEPT ![s] = v]
        /\ IF adapter
           THEN msgs' = Append(msgs, Set(s, v)) /\ Changed({s})
           ELSE UNCHANGED <<msgs, behind>>
        /\ UNCHANGED <<adapter, agps_status_cb, GPS_LOCK, gnss_measurement_cb, mPowerVote>>

loc_eng_agps_init ==
    /\ Call
    /\ adapter /\ ~agps_status_cb
    /\ agps_status_cb' = TRUE
    /\ msgs' = msgs \o SetServers
    /\ Changed({s \in Servers : copy[s] # 0})
    /\ UNCHANGED <<adapter, copy, given, GPS_LOCK, gnss_measurement_cb, mPowerVote>>

(* Without an APN the change is kept and sent after the next restart only *)
loc_eng_agps_ril_update_network_availability ==
    \E available \in {0, 1}, apn \in BOOLEAN :
        /\ Call
        /\ copy' = [copy EXCEPT !["DATA"] = available]
        /\ IF adapter /\ apn
           THEN msgs' = Append(msgs, Set("DATA", available)) /\ Changed({"DATA"})
           ELSE behind' = behind \cup {"DATA"} /\ UNCHANGED msgs
        /\ UNCHANGED <<adapter, agps_status_cb, given, GPS_LOCK, gnss_measurement_cb, mPowerVote>>

(* The lock goes out with every update, whether or not it has changed *)
LockToSend(lock) == IF mPowerVote THEN 0 ELSE lock

loc_eng_configuration_update ==
    \E changes \in [Updated -> Values \cup {1}], lock \in Locks :
        LET changed == SetToSeq({s \in Updated : changes[s] # copy[s]})
            sent == [i \in DOMAIN changed |-> Set(changed[i], changes[changed[i]])]
        IN  /\ Call
            /\ copy' = [s \in Settings |-> IF s \in Updated THEN changes[s] ELSE copy[s]]
            /\ GPS_LOCK' = lock
            /\ IF adapter
               THEN msgs' = msgs \o Append(sent, Lock(LockToSend(lock)))
                    /\ Changed(ToSet(changed) \cup {"LOCK"})
               ELSE UNCHANGED <<msgs, behind>>
            /\ UNCHANGED <<adapter, agps_status_cb, given, gnss_measurement_cb, mPowerVote>>

loc_eng_gps_measurement_init ==
    /\ Call
    /\ adapter /\ ~gnss_measurement_cb
    /\ msgs' = Append(msgs, Registration(TRUE))
    /\ gnss_measurement_cb' = TRUE
    /\ UNCHANGED <<adapter, agps_status_cb, copy, given, GPS_LOCK, mPowerVote, behind>>

loc_eng_gps_measurement_close ==
    /\ Call
    /\ adapter
    /\ msgs' = Append(msgs, Registration(FALSE))
    /\ gnss_measurement_cb' = FALSE
    /\ UNCHANGED <<adapter, agps_status_cb, copy, given, GPS_LOCK, mPowerVote, behind>>

-----------------------------------------------------------------------------
(* The MsgTask *)

Reachable == modem.up /\ modem.open

Take(type) ==
    /\ outgoing = <<>> /\ holding = <<>>
    /\ msgs # <<>>
    /\ Head(msgs).type = type
    /\ msgs' = Tail(msgs)

(* The mask of the adapter includes measurements, whoever has closed them *)
Opened == [modem EXCEPT !.open = modem.up, !.measures = modem.up]

LocOpenMsg ==
    /\ Take("open")
    /\ modem' = Opened
    /\ UNCHANGED <<halVars, taskVars, restarts, behind>>

LocSsrMsg ==
    /\ Take("ssr")
    /\ modem' = Opened
    /\ UNCHANGED <<halVars, taskVars, restarts, behind>>

LocEngSet ==
    /\ Take("set")
    /\ modem' = IF Reachable
                THEN [modem EXCEPT !.settings[Head(msgs).setting] = Head(msgs).value]
                ELSE modem
    /\ UNCHANGED <<halVars, taskVars, restarts, behind>>

LocEngUpdateRegistrationMask ==
    /\ Take("registration")
    /\ modem' = IF Reachable THEN [modem EXCEPT !.measures = Head(msgs).on] ELSE modem
    /\ UNCHANGED <<halVars, taskVars, restarts, behind>>

(* Nothing sends a lock again that was set while the modem was away *)
setGpsLock(value) ==
    /\ modem' = IF Reachable THEN [modem EXCEPT !.lock = value] ELSE modem
    /\ behind' = IF Reachable THEN behind ELSE behind \cup {"LOCK"}

LocEngAdapterGpsLock ==
    /\ Take("lock")
    /\ setGpsLock(Head(msgs).value)
    /\ UNCHANGED <<halVars, taskVars, restarts>>

(* What loc_eng_reinit() and loc_eng_agps_reinit() send, in their order *)
Reinit == SetToSeq(Updated \cup Fixed) \o <<"DATA">>
AgpsReinit == SetToSeq(Servers)

InitSkipsSettings ==
    /\ Take("init")
    /\ outgoing' = <<"LOCK">>
    /\ UNCHANGED <<halVars, holding, modem, restarts, behind>>

LocEngInit ==
    /\ Take("init")
    /\ outgoing' = Append(Reinit, "LOCK")
    /\ UNCHANGED <<halVars, holding, modem, restarts, behind>>

EngineUpSkipsServers ==
    /\ Take("up")
    /\ outgoing' = Reinit
    /\ UNCHANGED <<halVars, holding, modem, restarts, behind>>

loc_eng_handle_engine_up ==
    /\ Take("up")
    /\ outgoing' = Reinit \o AgpsReinit
    /\ UNCHANGED <<halVars, holding, modem, restarts, behind>>

(* One argument of a message of the handler is read, or the setting skipped *)
ReinitRead ==
    LET s == Head(outgoing)
    IN  /\ outgoing # <<>> /\ holding = <<>>
        /\ s # "LOCK"
        /\ outgoing' = Tail(outgoing)
        /\ holding' = IF s \in Servers /\ ~(agps_status_cb /\ copy[s] # 0)
                      THEN <<>> ELSE <<Set(s, copy[s])>>
        /\ behind' = IF holding' = <<>> THEN behind ELSE behind \ {s}
        /\ UNCHANGED <<halVars, msgs, modem, restarts>>

ReinitSend ==
    /\ holding # <<>>
    /\ msgs' = msgs \o holding
    /\ holding' = <<>>
    /\ UNCHANGED <<halVars, outgoing, modem, restarts, behind>>

(* LocEngInit calls the modem itself to lock, before the next message *)
InitLockQueued ==
    /\ outgoing = <<"LOCK">> /\ holding = <<>>
    /\ outgoing' = <<>>
    /\ msgs' = Append(msgs, Lock(1))
    /\ UNCHANGED <<halVars, holding, modem, restarts, behind>>

InitLock ==
    /\ outgoing = <<"LOCK">> /\ holding = <<>>
    /\ outgoing' = <<>>
    /\ setGpsLock(1)
    /\ UNCHANGED <<halVars, msgs, holding, restarts>>

MsgTask ==
    \/ LocOpenMsg \/ LocSsrMsg \/ LocEngSet \/ LocEngAdapterGpsLock
    \/ LocEngUpdateRegistrationMask
    \/ LocEngInit \/ loc_eng_handle_engine_up
    \/ ReinitRead \/ ReinitSend \/ InitLock

-----------------------------------------------------------------------------
(* The modem, external; it restarts once it has a client, whose end tells *)

ModemDown ==
    /\ modem.up /\ adapter
    /\ restarts < MaxRestarts
    /\ restarts' = restarts + 1
    /\ modem' = [modem EXCEPT !.up = FALSE, !.open = FALSE, !.measures = FALSE,
                              !.settings = [s \in Settings |-> 0]]
    /\ UNCHANGED <<halVars, msgs, taskVars, behind>>

handleEngineUpEvent ==
    /\ ~modem.up
    /\ modem' = [modem EXCEPT !.up = TRUE]
    /\ msgs' = msgs \o <<Msg("ssr"), Msg("up")>>
    /\ UNCHANGED <<halVars, taskVars, restarts, behind>>

Framework ==
    \/ loc_init \/ loc_cleanup \/ loc_eng_set_server_proxy \/ loc_eng_agps_init
    \/ loc_eng_agps_ril_update_network_availability \/ loc_eng_configuration_update
    \/ loc_eng_gps_measurement_init \/ loc_eng_gps_measurement_close

Next == Framework \/ MsgTask \/ ModemDown \/ handleEngineUpEvent

(* The MsgTask runs; a modem that is down comes back *)
Spec == Init /\ [][Next]_vars /\ WF_vars(MsgTask) /\ WF_vars(handleEngineUpEvent)

-----------------------------------------------------------------------------
(* The copies and what is on its way have the values the framework gives *)
TypeOK ==
    /\ adapter \in BOOLEAN /\ agps_status_cb \in BOOLEAN /\ mPowerVote \in BOOLEAN
    /\ gnss_measurement_cb \in BOOLEAN
    /\ copy \in [Settings -> AllValues] /\ given \in [Servers -> AllValues]
    /\ GPS_LOCK \in Locks /\ calls \in 0..MaxCalls
    /\ msgs \in Seq(Messages)
    /\ outgoing \in Seq(Settings \cup {"LOCK"})
    /\ holding \in {<<>>} \cup {<<Set(s, v)>> : s \in Settings, v \in AllValues}
    /\ modem \in [up : BOOLEAN, open : BOOLEAN, measures : BOOLEAN, lock : Locks \cup {0, 1},
                  settings : [Settings -> AllValues]]
    /\ restarts \in 0..MaxRestarts
    /\ behind \subseteq Settings \cup {"LOCK"}

Settled == msgs = <<>> /\ outgoing = <<>> /\ holding = <<>> /\ Reachable

(* Servers are sent again once the AGPS interface is initialized *)
Promised(s) == s \notin behind /\ (s \in Servers => agps_status_cb)

Value(s) == IF s \in Servers THEN given[s] ELSE copy[s]

(* Whatever the framework changed while the modem restarted or was given   *)
(* its settings again, the modem ends with the last value, except a        *)
(* setting that changed between the reading and the sending of the old one, *)
(* and a server that was set before loc_init() and not after it; and it    *)
(* reports measurements as long as the framework wants them                *)
SettingsReachModem ==
    /\ TypeOK
    /\ Settled =>
         /\ \A s \in Settings : Promised(s) => modem.settings[s] = Value(s)
         /\ gnss_measurement_cb => modem.measures

(* A server that is set before loc_init() is kept and sent to the modem, as *)
(* the comments of loc_eng_set_server_proxy() and loc_eng_agps_reinit() say *)
ServersKept ==
    Settled /\ agps_status_cb =>
        \A s \in Servers : modem.settings[s] = given[s]

(* The modem is unlocked while the framework uses the HAL and has the lock *)
(* of gps.conf when it does not, unless it was away when the lock was set  *)
LockFollowsPower ==
    Settled /\ "LOCK" \notin behind => modem.lock = IF mPowerVote THEN 0 ELSE GPS_LOCK

(* The files and what the framework has configured reach the modem in the  *)
(* end, through its restarts                                               *)
EventuallyConfigured ==
    \A s \in Updated \cup Fixed :
        adapter ~> (modem.settings[s] = copy[s] \/ s \in behind)
=============================================================================
