------------------------------ MODULE LocEngAgps ------------------------------
(***************************************************************************)
(* Data connections for the modem (loc_eng_agps.cpp).  Each network        *)
(* interface, or NIF, has a state machine with a list of subscribers:      *)
(* requests of the modem, known by their handles.  The machine asks the    *)
(* framework for the connection when the first one subscribes and gives it *)
(* back when none is left.  Two machines talk to the framework; the third, *)
(* "ds", starts an emergency call with the data services, retries, and     *)
(* falls back on "agnss".                                                  *)
(*                                                                         *)
(* Everything runs as messages of the adapter's MsgTask, one FIFO for what *)
(* the modem, the framework and the machines themselves send, except the   *)
(* retry, which is on a timer thread.  A connection has no identity in     *)
(* what the framework reports, so a report can be about an older request.  *)
(***************************************************************************)
EXTENDS Naturals, Sequences, SequencesExt

CONSTANTS
    MaxHandles,     \* bound: requests the modem makes
    Nifs,           \* the state machines createAgnssNifs() makes
    AtlNifs,        \* bound: what the modem's ordinary requests are for
    MaxQueue,       \* bound: messages in the queue before the modem sends one
    MaxRetries,     \* MAX_START_DATA_CALL_RETRIES
    MaxRestarts     \* bound: restarts of the modem

Handles == 1..MaxHandles    \* each for one request, in this order
AllNifs == {"agnss", "internet", "ds"}

ASSUME AgpsAssumption ==
    /\ Nifs \in {{"internet"}, {"internet", "agnss"}, AllNifs}
    /\ AtlNifs \subseteq {"agnss", "internet"}
    /\ MaxHandles \in Nat
    /\ MaxQueue \in Nat
    /\ MaxRetries \in Nat
    /\ MaxRestarts \in Nat

VARIABLES
    nifs,           \* the machines there are
    agps_status_cb, \* loc_eng_agps_init() has been called
    mStatePtr,      \* of each machine
    sub,            \* of each machine: what each handle is in its list
    mRetries,       \* of "ds"
    timers,         \* the number of retry timers that have not expired
    msgs,           \* the queue of the MsgTask
    asked,          \* of each NIF: what the framework has yet to look at
    conn,           \* of each NIF: the framework's connection
    kind,           \* of each handle: what the modem asked for
    told,           \* the last status the modem was given for each handle
    answers,        \* how many times it was told opened or refused, up to 2
    released,       \* the modem has released the handle
    restarts

smVars == <<mStatePtr, sub>>
callVars == <<mRetries, timers>>
modemVars == <<kind, released, restarts>>
initVars == <<nifs, agps_status_cb>>
vars == <<initVars, smVars, callVars, msgs, asked, conn, told, answers, modemVars>>

AtlRequest(h, m) == [type |-> "requestATL", handle |-> h, nif |-> m]
EsRequest(h) == [type |-> "requestSuplES", handle |-> h]
Release(h) == [type |-> "releaseATL", handle |-> h]
Report(m, event) == [type |-> event, nif |-> m]
NifInit == [type |-> "nifInit"]
EngineUp == [type |-> "engineUp"]

Active(s, m) == {h \in Handles : s[m][h] = "active"}
Subscribers(s, m) == {h \in Handles : s[m][h] # "none"}
NoSubscribers == [h \in Handles |-> "none"]
Add(m, h) == [sub EXCEPT ![m][h] = IF @ = "none" THEN "active" ELSE @]

-----------------------------------------------------------------------------
(* What an operator below does to msgs starts from q, the messages behind  *)
(* the one being handled.                                                  *)

(* atlOpenStatus() and atlCloseStatus(); a restarted modem knows no handle *)
Tell(H, status) ==
    LET hear == {h \in H : told[h] # "forgotten"}
    IN  /\ told' = [h \in Handles |-> IF h \in hear THEN status ELSE told[h]]
        /\ answers' = [h \in Handles |->
              IF h \in hear /\ status # "closed" /\ answers[h] < 2
              THEN answers[h] + 1 ELSE answers[h]]

TellNobody == UNCHANGED <<told, answers>>

StatusOf(event) == CASE event = "GRANTED" -> "opened"
                     [] event = "DENIED" -> "refused"
                     [] OTHER -> "closed"

(* DSStateMachine::informStatus(RSRC_DENIED) *)
FallBack(H, q) ==
    /\ mRetries' = 0
    /\ \E order \in SetToSeqs(H) :
          msgs' = q \o [i \in 1..Len(order) |-> AtlRequest(order[i], "agnss")]

(* notifyRsrcStatus() of the subscribers H *)
Notify(m, H, event, q) ==
    \/ /\ m = "ds" /\ event = "DENIED" /\ H # {}
       /\ FallBack(H, q)
       /\ TellNobody
    \/ /\ m = "ds" /\ event = "RELEASED"        \* closeDataCall()
       /\ msgs' = q
       /\ TellNobody /\ UNCHANGED mRetries
    \/ /\ m # "ds" \/ event \in {"GRANTED", "UNSUBSCRIBE"} \/ H = {}
       /\ m = "ds" => event # "RELEASED"
       /\ Tell(H, StatusOf(event))
       /\ msgs' = q
       /\ UNCHANGED mRetries

-----------------------------------------------------------------------------
(* sendRsrcRequest() *)

(* it goes out; the servicer of "ds" looks at no subscribers *)
Ask(m, action) ==
    asked' = IF m = "ds" \/ ((Active(sub', m) = {}) <=> (action = "RELEASE"))
             THEN [asked EXCEPT ![m] = Append(@, action)] ELSE asked

RequestSentFirst(m, q) ==
    /\ asked' = IF m = "ds" \/ Active(sub, m) # {}
                THEN [asked EXCEPT ![m] = Append(@, "REQUEST")] ELSE asked
    /\ msgs' = q
    /\ TellNobody /\ UNCHANGED callVars

RequestSent(m, q) ==
    /\ Ask(m, "REQUEST")
    /\ msgs' = q
    /\ TellNobody /\ UNCHANGED callVars

Busy(q) ==
    IF mRetries + 1 > MaxRetries
    THEN \E h \in Active(sub', "ds") : FallBack({h}, q) /\ UNCHANGED timers
    ELSE /\ mRetries' = mRetries + 1
         /\ timers' \in {timers, timers + 1}    \* loc_timer_start() may fail
         /\ msgs' = q

(* the data services are busy, do not support the call, or fail otherwise, *)
(* and then nothing is done                                                *)
RequestFails(q) ==
    /\ \/ Busy(q)
       \/ \E h \in Active(sub', "ds") : FallBack({h}, q) /\ UNCHANGED timers
       \/ msgs' = q /\ UNCHANGED callVars
    /\ TellNobody /\ UNCHANGED asked

-----------------------------------------------------------------------------
(* RSRC_SUBSCRIBE *)

SubscribeReleased(m, h, q) ==
    /\ mStatePtr[m] = "released"
    /\ sub' = Add(m, h)
    /\ \/ RequestSent(m, q) /\ mStatePtr' = [mStatePtr EXCEPT ![m] = "pending"]
       \/ m = "ds" /\ RequestFails(q) /\ UNCHANGED mStatePtr

SubscribeWaiting(m, h, q) ==
    /\ mStatePtr[m] \in {"pending", "releasing"}
    /\ sub' = Add(m, h)
    /\ msgs' = q
    /\ TellNobody /\ UNCHANGED <<mStatePtr, callVars, asked>>

SubscribeAcquiredAll(m, h, q) ==
    /\ mStatePtr[m] = "acquired"
    /\ Notify(m, Active(sub, m) \cup {h}, "GRANTED", q)
    /\ sub' = Add(m, h)
    /\ UNCHANGED <<mStatePtr, timers, asked>>

SubscribeAcquired(m, h, q) ==
    /\ mStatePtr[m] = "acquired"
    /\ Notify(m, {h}, "GRANTED", q)
    /\ sub' = Add(m, h)
    /\ UNCHANGED <<mStatePtr, timers, asked>>

Subscribe(m, h, q) ==
    \/ SubscribeReleased(m, h, q)
    \/ SubscribeWaiting(m, h, q)
    \/ SubscribeAcquired(m, h, q)

(* RSRC_UNSUBSCRIBE of a handle in the list.  A subscriber of "ds" waits,  *)
(* inactive, for the call to end.                                          *)
UnsubscribeReleased(m, h, q) ==
    /\ mStatePtr[m] = "released"
    /\ Notify(m, {h}, "UNSUBSCRIBE", q)
    /\ UNCHANGED <<smVars, timers, asked>>

UnsubscribeStays(m, h, q) ==
    /\ mStatePtr[m] # "released"
    /\ Notify(m, {h}, "UNSUBSCRIBE", q)
    /\ sub' = [sub EXCEPT ![m][h] = IF m = "ds" THEN "inactive" ELSE "none"]
    /\ mStatePtr' = [mStatePtr EXCEPT ![m] =
                        IF Subscribers(sub', m) = {} THEN "released" ELSE @]
    /\ IF Active(sub', m) = {} THEN Ask(m, "RELEASE") ELSE UNCHANGED asked
    /\ UNCHANGED timers

UnsubscribeHeld(m, h, q) ==
    /\ mStatePtr[m] # "released"
    /\ Notify(m, {h}, "UNSUBSCRIBE", q)
    /\ sub' = [sub EXCEPT ![m][h] = IF m = "ds" THEN "inactive" ELSE "none"]
    /\ mStatePtr' = [mStatePtr EXCEPT ![m] =
                        IF Subscribers(sub', m) = {} THEN "released"
                        ELSE IF Active(sub', m) = {} THEN "releasing"
                        ELSE @]
    /\ IF mStatePtr[m] # "releasing" /\ Active(sub', m) = {}
       THEN Ask(m, "RELEASE") ELSE UNCHANGED asked
    /\ UNCHANGED timers

Unsubscribe(m, h, q) ==
    /\ sub[m][h] # "none"
    /\ UnsubscribeReleased(m, h, q) \/ UnsubscribeHeld(m, h, q)

-----------------------------------------------------------------------------
(* onRsrcEvent(): what the framework or the data services report.  "ds"    *)
(* takes a release that changes nothing for a denial, and is told of no    *)
(* other denials.                                                          *)

DropAll(m, event, q) ==
    /\ mStatePtr' = [mStatePtr EXCEPT ![m] = "released"]
    /\ sub' = [sub EXCEPT ![m] = NoSubscribers]
    /\ Notify(m, Subscribers(sub, m), event, q)
    /\ UNCHANGED <<timers, asked>>

GrantedOne(m, q) ==
    /\ mStatePtr[m] = "pending"
    /\ mStatePtr' = [mStatePtr EXCEPT ![m] = "acquired"]
    /\ \E h \in Active(sub, m) : Notify(m, {h}, "GRANTED", q)
    /\ UNCHANGED <<sub, timers, asked>>

Granted(m, q) ==
    /\ mStatePtr[m] = "pending"
    /\ mStatePtr' = [mStatePtr EXCEPT ![m] = "acquired"]
    /\ Notify(m, Active(sub, m), "GRANTED", q)
    /\ UNCHANGED <<sub, timers, asked>>

Denied(m, event, q) ==
    /\ mStatePtr[m] = "pending"
    /\ event = "DENIED" \/ m = "ds"
    /\ DropAll(m, "DENIED", q)

ForceReleased(m, q) ==
    /\ mStatePtr[m] = "acquired"
    /\ DropAll(m, "RELEASED", q)

(* closeDataCall() for the inactive ones; if there are others, the call is *)
(* started anew, and whether it could be is not looked at                  *)
Closed(m, q) ==
    /\ mStatePtr[m] = "releasing"
    /\ sub' = [sub EXCEPT ![m] = [h \in Handles |->
                  IF @[h] = "inactive" THEN "none" ELSE @[h]]]
    /\ IF Active(sub, m) # {}
       THEN /\ mStatePtr' = [mStatePtr EXCEPT ![m] = "pending"]
            /\ RequestSent(m, q) \/ RequestFails(q)
       ELSE /\ mStatePtr' = [mStatePtr EXCEPT ![m] = "released"]
            /\ msgs' = q
            /\ TellNobody /\ UNCHANGED <<callVars, asked>>

EventIgnored(m, event, q) ==
    /\ \/ event = "GRANTED" /\ mStatePtr[m] # "pending"
       \/ event = "DENIED" /\ mStatePtr[m] \in {"released", "acquired"}
       \/ event = "RELEASED" /\ mStatePtr[m] = "released"
       \/ event = "RELEASED" /\ mStatePtr[m] = "pending" /\ m # "ds"
    /\ msgs' = q
    /\ TellNobody /\ UNCHANGED <<smVars, callVars, asked>>

OnRsrcEvent(m, event, q) ==
    \/ event = "GRANTED" /\ Granted(m, q)
    \/ event # "GRANTED" /\ Denied(m, event, q)
    \/ event = "RELEASED" /\ ForceReleased(m, q)
    \/ event # "GRANTED" /\ Closed(m, q)
    \/ EventIgnored(m, event, q)

-----------------------------------------------------------------------------
(* the messages *)

Arrives(type) == msgs # <<>> /\ Head(msgs).type = type
Rest == Tail(msgs)

Refuse(h) ==
    /\ Tell({h}, "refused")
    /\ msgs' = Rest
    /\ UNCHANGED <<smVars, callVars, asked>>

RequestATLProc ==
    /\ Arrives("requestATL")
    /\ LET h == Head(msgs).handle  m == Head(msgs).nif
       IN  IF m \in nifs THEN Subscribe(m, h, Rest) ELSE Refuse(h)
    /\ UNCHANGED <<initVars, conn, modemVars>>

RequestSuplEsProc ==
    /\ Arrives("requestSuplES")
    /\ LET h == Head(msgs).handle
       IN  IF "ds" \in nifs THEN Subscribe("ds", h, Rest)
           ELSE IF "agnss" \in nifs THEN Subscribe("agnss", h, Rest)
           ELSE Refuse(h)
    /\ UNCHANGED <<initVars, conn, modemVars>>

(* the machines are searched in turn *)
Holder(h) ==
    IF sub["agnss"][h] # "none" THEN "agnss"
    ELSE IF sub["internet"][h] # "none" THEN "internet"
    ELSE "ds"

NoneFound(h) ==
    /\ \A m \in AllNifs : sub[m][h] = "none"
    /\ Tell({h}, "closed")
    /\ msgs' = Rest
    /\ UNCHANGED <<smVars, callVars, asked>>

ReleaseATLProc ==
    /\ Arrives("releaseATL")
    /\ LET h == Head(msgs).handle
       IN  Unsubscribe(Holder(h), h, Rest) \/ NoneFound(h)
    /\ UNCHANGED <<initVars, conn, modemVars>>

ReportProc ==
    /\ \E event \in {"GRANTED", "DENIED", "RELEASED"} :
          Arrives(event) /\ OnRsrcEvent(Head(msgs).nif, event, Rest)
    /\ UNCHANGED <<initVars, conn, modemVars>>

NifInitProc ==
    /\ Arrives("nifInit")
    /\ nifs' = Nifs
    /\ msgs' = Rest
    /\ UNCHANGED <<agps_status_cb, smVars, callVars, asked, conn, told, answers,
                   modemVars>>

(* loc_eng_handle_engine_up(): the lists of two machines, not their states *)
EngineUpProc ==
    /\ Arrives("engineUp")
    /\ sub' = [m \in AllNifs |->
                 IF m # "ds" /\ agps_status_cb THEN NoSubscribers ELSE sub[m]]
    /\ msgs' = Rest
    /\ UNCHANGED <<initVars, mStatePtr, callVars, asked, conn, told, answers, modemVars>>

MsgTaskStep ==
    \/ RequestATLProc \/ RequestSuplEsProc \/ ReleaseATLProc
    \/ ReportProc \/ NifInitProc \/ EngineUpProc

(* retryCallback(), on the timer thread: for the first active subscriber *)
RetryCallback ==
    /\ timers > 0
    /\ timers' = timers - 1
    /\ \/ \E h \in Active(sub, "ds") : msgs' = Append(msgs, EsRequest(h))
       \/ Active(sub, "ds") = {} /\ UNCHANGED msgs
    /\ UNCHANGED <<initVars, smVars, mRetries, asked, conn, told, answers, modemVars>>

-----------------------------------------------------------------------------
(* the framework and the data services *)

Reports(m, event) == msgs' = Append(msgs, Report(m, event))

AnswerRequest(m) ==
    /\ asked[m] # <<>> /\ Head(asked[m]) = "REQUEST"
    /\ asked' = [asked EXCEPT ![m] = Tail(@)]
    /\ \/ conn' = [conn EXCEPT ![m] = "open"] /\ Reports(m, "GRANTED")
       \/ /\ conn[m] = "closed" /\ UNCHANGED conn
          /\ Reports(m, IF m = "ds" THEN "RELEASED" ELSE "DENIED")
    /\ UNCHANGED <<initVars, smVars, callVars, told, answers, modemVars>>

AnswerRelease(m) ==
    /\ asked[m] # <<>> /\ Head(asked[m]) = "RELEASE"
    /\ asked' = [asked EXCEPT ![m] = Tail(@)]
    /\ conn' = [conn EXCEPT ![m] = "closed"]
    /\ IF conn[m] = "open" THEN Reports(m, "RELEASED") ELSE UNCHANGED msgs
    /\ UNCHANGED <<initVars, smVars, callVars, told, answers, modemVars>>

(* the network goes away *)
LoseConnection(m) ==
    /\ conn[m] = "open"
    /\ conn' = [conn EXCEPT ![m] = "closed"]
    /\ Reports(m, "RELEASED")
    /\ UNCHANGED <<initVars, smVars, callVars, asked, told, answers, modemVars>>

AgpsInit ==
    /\ ~agps_status_cb
    /\ agps_status_cb' = TRUE
    /\ msgs' = Append(msgs, NifInit)
    /\ UNCHANGED <<nifs, smVars, callVars, asked, conn, told, answers, modemVars>>

-----------------------------------------------------------------------------
(* the modem *)

ModemRequests(h) ==
    /\ Len(msgs) < MaxQueue
    /\ told[h] = "unused"
    /\ \A g \in 1..(h - 1) : told[g] # "unused"
    /\ told' = [told EXCEPT ![h] = "waiting"]
    /\ \/ /\ \E m \in AtlNifs : msgs' = Append(msgs, AtlRequest(h, m))
          /\ kind' = [kind EXCEPT ![h] = "atl"]
       \/ /\ msgs' = Append(msgs, EsRequest(h))
          /\ kind' = [kind EXCEPT ![h] = "es"]
    /\ UNCHANGED <<initVars, smVars, callVars, asked, conn, answers, released, restarts>>

ModemReleases(h) ==
    /\ told[h] \in {"waiting", "opened"}
    /\ ~released[h]
    /\ Len(msgs) < MaxQueue
    /\ released' = [released EXCEPT ![h] = TRUE]
    /\ msgs' = Append(msgs, Release(h))
    /\ UNCHANGED <<initVars, smVars, callVars, asked, conn, told, answers, kind, restarts>>

ModemRestarts ==
    /\ restarts < MaxRestarts
    /\ Len(msgs) < MaxQueue
    /\ restarts' = restarts + 1
    /\ told' = [h \in Handles |-> IF told[h] = "unused" THEN "unused" ELSE "forgotten"]
    /\ msgs' = Append(msgs, EngineUp)
    /\ UNCHANGED <<initVars, smVars, callVars, asked, conn, answers, kind, released>>

-----------------------------------------------------------------------------
Init ==
    /\ nifs = {}
    /\ agps_status_cb = FALSE
    /\ mStatePtr = [m \in AllNifs |-> "released"]
    /\ sub = [m \in AllNifs |-> NoSubscribers]
    /\ mRetries = 0
    /\ timers = 0
    /\ msgs = <<>>
    /\ asked = [m \in AllNifs |-> <<>>]
    /\ conn = [m \in AllNifs |-> "closed"]
    /\ kind = [h \in Handles |-> "none"]
    /\ told = [h \in Handles |-> "unused"]
    /\ answers = [h \in Handles |-> 0]
    /\ released = [h \in Handles |-> FALSE]
    /\ restarts = 0

Answer(m) == AnswerRequest(m) \/ AnswerRelease(m)

Next ==
    \/ MsgTaskStep
    \/ RetryCallback
    \/ \E m \in AllNifs : Answer(m) \/ LoseConnection(m)
    \/ AgpsInit
    \/ \E h \in Handles : ModemRequests(h) \/ ModemReleases(h)
    \/ ModemRestarts

Spec == Init /\ [][Next]_vars

(* Messages are handled, timers expire, and the framework looks at what it *)
(* is asked; it need not say yes.                                          *)
FairSpec ==
    /\ Spec
    /\ WF_vars(MsgTaskStep)
    /\ WF_vars(RetryCallback)
    /\ \A m \in AllNifs : WF_vars(Answer(m))

-----------------------------------------------------------------------------
Message ==
    [type : {"requestATL"}, handle : Handles, nif : AllNifs \ {"ds"}]
    \cup [type : {"requestSuplES", "releaseATL"}, handle : Handles]
    \cup [type : {"GRANTED", "DENIED", "RELEASED"}, nif : AllNifs]
    \cup {NifInit, EngineUp}

(* Every variable has its type; the retries stay within their limit, and   *)
(* the data services never report a denial.                                *)
TypeOK ==
    /\ nifs \in {{}, Nifs}
    /\ agps_status_cb \in BOOLEAN
    /\ mStatePtr \in [AllNifs -> {"released", "pending", "acquired", "releasing"}]
    /\ sub \in [AllNifs -> [Handles -> {"none", "active", "inactive"}]]
    /\ mRetries \in 0..MaxRetries
    /\ timers \in Nat
    /\ msgs \in Seq(Message)
    /\ \A i \in 1..Len(msgs) : msgs[i] # Report("ds", "DENIED")
    /\ asked \in [AllNifs -> Seq({"REQUEST", "RELEASE"})]
    /\ conn \in [AllNifs -> {"open", "closed"}]
    /\ kind \in [Handles -> {"none", "atl", "es"}]
    /\ told \in [Handles -> {"unused", "waiting", "opened", "refused", "closed",
                             "forgotten"}]
    /\ answers \in [Handles -> 0..2]
    /\ released \in [Handles -> BOOLEAN]
    /\ restarts \in 0..MaxRestarts

(* The state of a machine fits its list, although messages of the modem,   *)
(* of the framework and of the machine itself change them in any order:    *)
(* one that wants or has the connection has somebody active to use it,     *)
(* unless a restart dropped them; one that is releasing waits for a        *)
(* subscriber that wants to hear of it; and one that is released has       *)
(* nobody left, except that "ds" may have some to retry for.               *)
StateFitsSubscribers ==
    /\ TypeOK
    /\ \A m \in AllNifs :
           /\ mStatePtr[m] \in {"pending", "acquired"} =>
                 Active(sub, m) # {} \/ (m # "ds" /\ restarts > 0)
           /\ mStatePtr[m] = "releasing" =>
                 m = "ds" /\ Active(sub, m) # Subscribers(sub, m)
           /\ mStatePtr[m] = "released" =>
                 IF m = "ds" THEN Active(sub, m) = Subscribers(sub, m)
                             ELSE Subscribers(sub, m) = {}

(* A machine of the framework that waits for the connection has asked for  *)
(* it and the answer is still to come: nobody is queued for nothing, even  *)
(* when a report is about an earlier request or the modem restarted.       *)
PendingIsRequested ==
    \A m \in AllNifs \ {"ds"} :
        mStatePtr[m] = "pending" =>
            \/ \E i \in 1..Len(asked[m]) : asked[m][i] = "REQUEST"
            \/ \E i \in 1..Len(msgs) :
                  msgs[i] \in {Report(m, "GRANTED"), Report(m, "DENIED")}

(* The modem is told opened or refused only while it waits: an ordinary    *)
(* request gets one of the two, once, and neither after it was closed.     *)
AnswersFit ==
    [][\A h \in Handles :
          kind[h] = "atl" /\ answers'[h] # answers[h] => told[h] = "waiting"]_vars

(* An ordinary request does not wait for ever; and one the modem released  *)
(* is reported closed in the end, whether it is in a list by then or was   *)
(* refused or closed before.                                               *)
CallsAreAnswered ==
    \A h \in Handles :
        /\ (kind[h] = "atl" /\ told[h] = "waiting") ~> (told[h] # "waiting")
        /\ (kind[h] = "atl" /\ released[h]) ~> told[h] \in {"closed", "forgotten"}
=============================================================================
