-------------------------------- MODULE LocEng --------------------------------
(***************************************************************************)
(* Sessions of the location engine (loc_eng.cpp, loc.cpp, LocEngAdapter).  *)
(* A call of the framework becomes a message of the adapter's MsgTask; so  *)
(* does what the modem reports.  The handlers share the session flag of    *)
(* the adapter, mNavigating, with the thread of the framework, which reads *)
(* it in loc_eng_cleanup(), and follow a modem that restarts at any time   *)
(* and forgets the session.  The settings the modem also forgets are in    *)
(* LocEngConf, network initiated requests in LocEngNi.                     *)
(*                                                                         *)
(* The modem is external: a call to it fails with ENGINE_DOWN unless it is *)
(* up and LocSsrMsg has opened a client since it came up.  The framework   *)
(* sets a position mode before each session it starts, calls start and stop *)
(* in turn and stops the session before loc_cleanup().                     *)
(***************************************************************************)
EXTENDS Naturals, Sequences

CONSTANTS
    INTERMEDIATE_POS,   \* gps.conf: intermediate positions are passed on
    Modes,              \* the position modes the framework asks for
    Recurrences,        \* a subset of {"single", "periodic"}
    Kinds,              \* bound: the positions the modem reports
    Aiding,             \* kinds of aiding data
    Masks,              \* bound: the sets of them the framework asks to delete
    MaxCalls,           \* bound: calls of the framework
    MaxReports,         \* bound: positions and mute requests of the modem
    MaxRestarts         \* bound: restarts of the modem

ASSUME LocEngAssumption ==
    /\ INTERMEDIATE_POS \in BOOLEAN
    /\ "INVALID" \notin Modes
    /\ Recurrences \subseteq {"single", "periodic"}
    /\ Kinds \subseteq {"fix", "network", "intermediate", "coarse", "failure"}
    /\ Masks \subseteq SUBSET Aiding
    /\ MaxCalls \in Nat /\ MaxReports \in Nat /\ MaxRestarts \in Nat

Criteria == [mode : Modes \cup {"INVALID"}, recurrence : Recurrences \cup {"none"}]
Unset == [mode |-> "INVALID", recurrence |-> "none"]

VARIABLES
    wanted,         \* the framework has started a session and not stopped it
    asked,          \* the criteria it has set since the last stop
    started,        \* the recurrence of the last session it started
    calls,
    msgs,           \* the queue of the MsgTask
    mNavigating,    \* the adapter is in a session
    mFixCriteria,   \* the copy of the adapter
    refused,        \* the modem was there, and did not take the last start
    engine_status,
    fix_session_status,
    mute_session_state,
    aiding_data_for_deletion,
    deletion,       \* history: of each kind of aiding data, what became of it
    shown,          \* the statuses loc_inform_gps_status() gave last
    modem,          \* up, open: a client, fixing, criteria, engine: it is on
    reports,
    restarts

halVars == <<wanted, asked, started, calls>>
sessionVars == <<mNavigating, mFixCriteria, refused>>
statusVars == <<engine_status, fix_session_status, mute_session_state, shown>>
aidingVars == <<aiding_data_for_deletion, deletion>>
modemVars == <<modem, reports, restarts>>
vars == <<halVars, msgs, sessionVars, statusVars, aidingVars, modemVars>>

Msg(type) == [type |-> type]
Mode(c) == [type |-> "mode", criteria |-> c]
DelAidData(f) == [type |-> "aiding", data |-> f]
Position(k) == [type |-> "position", kind |-> k]
Status(s) == [type |-> "status", status |-> s]

Messages ==
    [type : {"start", "stop", "ssr", "up", "down", "mute"}]
    \cup [type : {"mode"}, criteria : Criteria]
    \cup [type : {"aiding"}, data : Masks]
    \cup [type : {"position"}, kind : Kinds]
    \cup [type : {"status"}, status : {"begin", "end", "on", "off"}]

(* The next message is one of this type, and is taken off the queue *)
Take(type) ==
    /\ msgs # <<>>
    /\ Head(msgs).type = type
    /\ msgs' = Tail(msgs)

Init ==
    /\ wanted = FALSE /\ asked = Unset /\ started = "none" /\ calls = 0
    /\ msgs = <<>>
    /\ mNavigating = FALSE /\ mFixCriteria = Unset /\ refused = FALSE
    /\ engine_status = "none" /\ fix_session_status = "none"
    /\ mute_session_state = "none"
    /\ shown = [session |-> "none", engine |-> "none"]
    /\ aiding_data_for_deletion = {} /\ deletion = [d \in Aiding |-> "none"]
    /\ modem = [up |-> TRUE, open |-> TRUE, fixing |-> FALSE,
                criteria |-> Unset, engine |-> FALSE]
    /\ reports = 0 /\ restarts = 0

-----------------------------------------------------------------------------
(* The framework; loc_eng_init() has made the adapter and opened the client *)

Call(sent) ==
    /\ calls < MaxCalls
    /\ calls' = calls + 1
    /\ msgs' = msgs \o sent
    /\ UNCHANGED <<sessionVars, statusVars, aiding_data_for_deletion, modemVars>>

CallKeepsAiding(sent) == Call(sent) /\ UNCHANGED deletion

(* A running session is not made single or periodic *)
loc_eng_set_position_mode ==
    \E c \in [mode : Modes, recurrence : Recurrences] :
        /\ wanted => c.recurrence = asked.recurrence
        /\ CallKeepsAiding(<<Mode(c)>>)
        /\ asked' = c
        /\ UNCHANGED <<wanted, started>>

loc_eng_start ==
    /\ ~wanted /\ asked # Unset
    /\ CallKeepsAiding(<<Msg("start")>>)
    /\ wanted' = TRUE
    /\ started' = asked.recurrence
    /\ UNCHANGED asked

loc_eng_stop ==
    /\ wanted
    /\ CallKeepsAiding(<<Msg("stop")>>)
    /\ wanted' = FALSE
    /\ asked' = Unset
    /\ UNCHANGED started

loc_eng_delete_aiding_data ==
    /\ \E f \in Masks :
          /\ Call(<<DelAidData(f)>>)
          /\ deletion' = [d \in Aiding |-> IF d \in f THEN "asked" ELSE deletion[d]]
    /\ UNCHANGED <<wanted, asked, started>>

(* The stop a session that is still on gets here is a second one *)
loc_eng_cleanup ==
    /\ ~wanted
    /\ CallKeepsAiding(IF mNavigating THEN <<Msg("stop")>> ELSE <<>>)
    /\ UNCHANGED <<wanted, asked, started>>

-----------------------------------------------------------------------------
(* The handlers of the MsgTask *)

Reachable == modem.up /\ modem.open

(* setInSession(false); the flag alone changes with setInSession(true) *)
EndSession ==
    /\ mNavigating' = FALSE
    /\ mFixCriteria' = [mFixCriteria EXCEPT !.mode = "INVALID"]

(* What the modem answers to startFix().  ENGINE_DOWN, and PHONE_OFFLINE   *)
(* and INTERNAL of a modem that is there, are errors after which the        *)
(* adapter is in a session all the same; after a refusal it is in none     *)
StartAnswers ==
    IF Reachable THEN {"success", "offline", "refusal"} ELSE {"engine_down"}

StartHandlerEndsSession(criteria) ==
    \E ret \in StartAnswers :
        /\ refused' = (ret \in {"offline", "refusal"})
        /\ mNavigating' = (ret = "success")
        /\ mFixCriteria' = criteria
        /\ modem' = IF ret = "success"
                    THEN [modem EXCEPT !.fixing = TRUE, !.criteria = criteria] ELSE modem

loc_eng_start_handler(criteria) ==
    \E ret \in StartAnswers :
        /\ refused' = (ret \in {"offline", "refusal"})
        /\ mNavigating' = (ret # "refusal")
        /\ mFixCriteria' = criteria
        /\ modem' = IF ret = "success"
                    THEN [modem EXCEPT !.fixing = TRUE, !.criteria = criteria] ELSE modem

LocEngStartFix ==
    /\ Take("start")
    /\ IF mNavigating
       THEN UNCHANGED <<sessionVars, modem>>
       ELSE loc_eng_start_handler(mFixCriteria)
    /\ UNCHANGED <<halVars, statusVars, aidingVars, reports, restarts>>

stopFix == [modem EXCEPT !.fixing = @ /\ ~Reachable]

LocEngStopFix ==
    /\ Take("stop")
    /\ IF mNavigating
       THEN modem' = stopFix /\ EndSession
       ELSE UNCHANGED <<modem, mNavigating, mFixCriteria>>
    /\ UNCHANGED <<halVars, statusVars, aidingVars, refused, reports, restarts>>

PositionModeKeptFromModem ==
    /\ Take("mode")
    /\ mFixCriteria' = Head(msgs).criteria
    /\ modem' = modem
    /\ UNCHANGED <<halVars, statusVars, aidingVars, mNavigating, refused,
                   reports, restarts>>

LocEngPositionMode ==
    /\ Take("mode")
    /\ mFixCriteria' = Head(msgs).criteria
    /\ modem' = IF Reachable THEN [modem EXCEPT !.criteria = mFixCriteria'] ELSE modem
    /\ UNCHANGED <<halVars, statusVars, aidingVars, mNavigating, refused,
                   reports, restarts>>

(* Nobody looks at what deleteAidingData() returns                         *)
update_aiding_data_for_deletion(status, data, fate) ==
    /\ aiding_data_for_deletion' = IF status = "on" THEN data ELSE {}
    /\ deletion' = [d \in Aiding |->
                       IF status = "on" \/ d \notin data THEN fate[d]
                       ELSE IF Reachable THEN "deleted" ELSE "failed"]

Due == {d \in Aiding : deletion[d] \in {"waiting", "left"}}

(* What waited already is forgotten, unless it is asked for again          *)
LocEngDelAidData ==
    /\ Take("aiding")
    /\ LET data == Head(msgs).data
       IN update_aiding_data_for_deletion(engine_status, data,
             [d \in Aiding |-> IF d \in data THEN "waiting"
                               ELSE IF d \in Due THEN "replaced" ELSE deletion[d]])
    /\ UNCHANGED <<halVars, sessionVars, statusVars, modemVars>>

(* Whether a position is passed on: the code looks for the setting, and    *)
(* not the position, to be INTERMEDIATE                                    *)
Accepted(kind) ==
    \/ kind \in {"failure", "fix"}
    \/ INTERMEDIATE_POS /\ kind # "coarse"

LocEngReportPosition ==
    /\ Take("position")
    /\ LET kind == Head(msgs).kind
       IN  IF /\ mute_session_state # "in"
              /\ Accepted(kind)
              /\ mFixCriteria.recurrence = "single"
           THEN /\ modem' = IF kind \in {"intermediate", "coarse"} THEN stopFix ELSE modem
                /\ EndSession
           ELSE UNCHANGED <<modem, mNavigating, mFixCriteria>>
    /\ UNCHANGED <<halVars, refused, statusVars, aidingVars, reports, restarts>>

Muting(status) ==
    CASE status \in {"begin", "on"} /\ mute_session_state = "wait" -> "in"
      [] status \in {"end", "off"} /\ mute_session_state = "in" -> "none"
      [] OTHER -> mute_session_state

(* The framework is not told of a session it did not start or has not      *)
(* stopped, nor of one that is muted                                       *)
Inform(status, mute) ==
    IF \/ status = "end" /\ mNavigating
       \/ status = "begin" /\ ~mNavigating
       \/ mute = "in"
    THEN shown
    ELSE IF status \in {"begin", "end"} THEN [shown EXCEPT !.session = status]
                                        ELSE [shown EXCEPT !.engine = status]

loc_eng_report_status(status) ==
    /\ mute_session_state' = Muting(status)
    /\ shown' = Inform(status, Muting(status))
    /\ engine_status' = IF status \in {"on", "off"} THEN status ELSE engine_status
    /\ fix_session_status' = IF status \in {"begin", "end"} THEN status ELSE fix_session_status

ReportStatusComparesOld ==
    /\ Take("status")
    /\ loc_eng_report_status(Head(msgs).status)
    /\ update_aiding_data_for_deletion(engine_status, aiding_data_for_deletion, deletion)
    /\ UNCHANGED <<halVars, sessionVars, modemVars>>

LocEngReportStatus ==
    /\ Take("status")
    /\ loc_eng_report_status(Head(msgs).status)
    /\ update_aiding_data_for_deletion(engine_status', aiding_data_for_deletion, deletion)
    /\ UNCHANGED <<halVars, sessionVars, modemVars>>

(* A network initiated request that overrides the user's privacy: loc_eng_mute_one_session() *)
MuteOneSession ==
    /\ Take("mute")
    /\ mute_session_state' = "wait"
    /\ UNCHANGED <<halVars, sessionVars, engine_status, fix_session_status, shown,
                   aidingVars, modemVars>>

LocSsrMsg ==
    /\ Take("ssr")
    /\ modem' = [modem EXCEPT !.open = modem.up]
    /\ UNCHANGED <<halVars, sessionVars, statusVars, aidingVars, reports, restarts>>

(* The engine is off, and what waited for that waits on                    *)
loc_eng_handle_engine_down ==
    /\ Take("down")
    /\ loc_eng_report_status("off")
    /\ deletion' = [d \in Aiding |-> IF deletion[d] = "waiting" THEN "left" ELSE deletion[d]]
    /\ UNCHANGED <<halVars, sessionVars, aiding_data_for_deletion, modemVars>>

EngineUpForgetsSession ==
    /\ Take("up")
    /\ UNCHANGED <<halVars, sessionVars, statusVars, aidingVars, modemVars>>

loc_eng_handle_engine_up ==
    /\ Take("up")
    /\ IF mNavigating
       THEN loc_eng_start_handler([mFixCriteria EXCEPT !.mode = "INVALID"])
       ELSE UNCHANGED <<sessionVars, modem>>
    /\ UNCHANGED <<halVars, statusVars, aidingVars, reports, restarts>>

MsgTask ==
    \/ LocEngStartFix \/ LocEngStopFix \/ LocEngPositionMode
    \/ LocEngDelAidData \/ LocEngReportPosition \/ LocEngReportStatus
    \/ MuteOneSession
    \/ LocSsrMsg \/ loc_eng_handle_engine_down \/ loc_eng_handle_engine_up

-----------------------------------------------------------------------------
(* The modem, external *)

Send(sent) ==
    /\ msgs' = msgs \o sent
    /\ UNCHANGED <<halVars, sessionVars, statusVars, aidingVars>>

ModemOn ==
    /\ modem.fixing /\ ~modem.engine
    /\ modem' = [modem EXCEPT !.engine = TRUE]
    /\ Send(<<Status("begin"), Status("on")>>)
    /\ UNCHANGED <<reports, restarts>>

ModemOff ==
    /\ ~modem.fixing /\ modem.engine
    /\ modem' = [modem EXCEPT !.engine = FALSE]
    /\ Send(<<Status("end"), Status("off")>>)
    /\ UNCHANGED <<reports, restarts>>

(* A single session is over for the modem with a position that is not intermediate *)
ModemReport ==
    \E k \in Kinds :
        /\ modem.fixing /\ modem.engine
        /\ reports < MaxReports
        /\ reports' = reports + 1
        /\ modem' = [modem EXCEPT !.fixing =
                        \/ modem.criteria.recurrence # "single"
                        \/ k \in {"intermediate", "coarse"}]
        /\ Send(<<Position(k)>>)
        /\ UNCHANGED restarts

ModemMute ==
    /\ modem.up /\ modem.open
    /\ reports < MaxReports
    /\ reports' = reports + 1
    /\ Send(<<Msg("mute")>>)
    /\ UNCHANGED <<modem, restarts>>

handleEngineDownEvent ==
    /\ modem.up
    /\ restarts < MaxRestarts
    /\ restarts' = restarts + 1
    /\ modem' = [up |-> FALSE, open |-> FALSE, fixing |-> FALSE, criteria |-> Unset,
                 engine |-> FALSE]
    /\ Send(<<Msg("down")>>)
    /\ UNCHANGED reports

handleEngineUpEvent ==
    /\ ~modem.up
    /\ modem' = [modem EXCEPT !.up = TRUE]
    /\ Send(<<Msg("ssr"), Msg("up")>>)
    /\ UNCHANGED <<reports, restarts>>

Framework ==
    \/ loc_eng_set_position_mode \/ loc_eng_start \/ loc_eng_stop
    \/ loc_eng_delete_aiding_data \/ loc_eng_cleanup

Modem ==
    \/ ModemOn \/ ModemOff \/ ModemReport \/ ModemMute
    \/ handleEngineDownEvent \/ handleEngineUpEvent

Next == Framework \/ MsgTask \/ Modem

(* The MsgTask takes its messages; a modem that is down comes back *)
Spec == Init /\ [][Next]_vars /\ WF_vars(MsgTask) /\ WF_vars(handleEngineUpEvent)

-----------------------------------------------------------------------------
Fates == {"none", "asked", "waiting", "replaced", "left", "deleted", "failed"}

(* The variables have the types of loc_eng_data_s_type and LocEngAdapter *)
TypeOK ==
    /\ wanted \in BOOLEAN /\ asked \in Criteria
    /\ started \in Recurrences \cup {"none"} /\ calls \in 0..MaxCalls
    /\ msgs \in Seq(Messages)
    /\ mNavigating \in BOOLEAN /\ mFixCriteria \in Criteria /\ refused \in BOOLEAN
    /\ engine_status \in {"none", "on", "off"}
    /\ fix_session_status \in {"none", "begin", "end"}
    /\ mute_session_state \in {"none", "wait", "in"}
    /\ shown \in [session : {"none", "begin", "end"}, engine : {"none", "on", "off"}]
    /\ aiding_data_for_deletion \subseteq Aiding
    /\ deletion \in [Aiding -> Fates]
    /\ modem \in [up : BOOLEAN, open : BOOLEAN, fixing : BOOLEAN,
                  criteria : Criteria, engine : BOOLEAN]
    /\ reports \in 0..MaxReports /\ restarts \in 0..MaxRestarts

Settled == msgs = <<>> /\ Reachable

(* No session is muted but the one the mute was for: it ends with the      *)
(* engine, also when the modem restarts and never says that the session has *)
MuteEndsWithSession == Settled /\ ~modem.engine => mute_session_state # "in"

(* Nor is the framework left with a session it was told has begun, on an   *)
(* engine it was told is on, when the modem has neither.                   *)
NotStranded ==
    Settled /\ ~modem.engine /\ ~modem.fixing =>
        ~(shown.session = "begin" /\ shown.engine = "on")

(* However calls, reports and restarts of the modem interleave, once every *)
(* message is handled the modem is in a periodic session if and only if    *)
(* the framework wants one, unless it refused it, and what the reports     *)
(* leave behind has ended with the modem's session.                        *)
SessionFollowsWish ==
    /\ TypeOK /\ MuteEndsWithSession /\ NotStranded
    /\ Settled /\ started = "periodic" /\ ~refused => (modem.fixing <=> wanted)

(* The criteria of the session are those the framework asked for last,     *)
(* but for the mode, which a restart loses: loc_eng_handle_engine_up()     *)
(* sends the adapter's criteria, and these have never had the mode         *)
CriteriaInForce ==
    Settled /\ wanted /\ started = "periodic" /\ ~refused =>
        /\ modem.criteria.recurrence = "periodic"
        /\ modem.criteria.mode \in {asked.mode} \cup (IF restarts = 0 THEN {} ELSE {"INVALID"})

(* Whatever calls, statuses and restarts cross: aiding data the framework   *)
(* asked to have deleted is not waiting any more when all messages are     *)
(* handled and the engine is off.  Data that waited may have been          *)
(* forgotten for other data, or left by a restart, and what was left is    *)
(* still in the field the next status deletes                              *)
(* (update_aiding_data_for_deletion())                                      *)
AidingDeleted ==
    Settled /\ ~modem.engine =>
        \A d \in Aiding :
            /\ deletion[d] \notin {"asked", "waiting"}
            /\ deletion[d] = "left" => d \in aiding_data_for_deletion

(* It is deleted then, as loc_eng_delete_aiding_data() is documented: what  *)
(* is asked for while the engine is on is deleted when it is turned off    *)
AidingDeletedWhenOff ==
    Settled /\ ~modem.engine =>
        \A d \in Aiding : deletion[d] \in {"none", "deleted", "failed"}

(* A session the framework starts is started in the modem, across restarts, *)
(* unless the framework stops it, the modem does not take it, which nobody  *)
(* tries again, or it is a single one                                      *)
StartServed ==
    wanted ~> (modem.fixing \/ ~wanted \/ refused \/ started = "single")
=============================================================================
