------------------------------- MODULE LocEngNi -------------------------------
(***************************************************************************)
(* Network initiated location requests (loc_eng_ni.cpp): the modem asks,   *)
(* the user is notified and answers, and the answer goes back to the modem. *)
(* There are two sessions, one for emergency requests.  Four kinds of      *)
(* threads share them:                                                     *)
(*                                                                         *)
(*   - the adapter's MsgTask handles a request, an engine restart, and the *)
(*     message that carries an answer to the modem, one at a time;         *)
(*   - the thread each request spawns waits for the answer, or times out;  *)
(*   - the framework's thread calls loc_eng_ni_respond().                  *)
(*                                                                         *)
(* A session's lock covers resp and respRecvd, but the MsgTask and the     *)
(* framework read and write rawRequest and reqID without it: what they do  *)
(* is split where another thread can see the difference.                   *)
(***************************************************************************)
EXTENDS Naturals, Sequences

CONSTANTS
    MaxRequests,    \* bound: requests the modem makes
    MaxRestarts,    \* bound: restarts of the engine
    None            \* NULL

Requests == 1..MaxRequests      \* by arrival; each is also its own thread
Sessions == {"es", "normal"}
Responses == {"accept", "deny", "noresp", "ignore"}

(* an answer on its way to the modem *)
Message == [request : Requests, resp : Responses \cup {"zero"}]

(* the bounds are numbers, and NULL is neither a request nor a message *)
ASSUME NiAssumption ==
    /\ MaxRequests \in Nat /\ MaxRestarts \in Nat
    /\ None \notin Requests
    /\ None \notin Message

VARIABLES
    rawRequest,     \* of each session: the request it holds, or None
    reqID,          \* of each session
    resp,           \* of each session; "zero" until first written
    respRecvd,      \* of each session
    reqIDCounter,
    arrived,        \* the number of requests that have arrived
    kind,           \* the session each request is for
    notified,       \* the id the framework was shown for it, or None
    thread,         \* where the request's thread is: see ThreadPlaces
    msg,            \* the response that thread is about to send, or None
    task,           \* where the MsgTask is: see TaskPlaces
    cur,            \* the session it is working on
    restarts,
    outbox,         \* LocEngInformNiResponse messages in the MsgTask's queue
    fw,             \* where loc_eng_ni_respond() is: see FwPlaces
    fwSession, fwResp,
    userSaid,       \* what the user answered to each request, or None
    answers,        \* the answers the modem was given to each request
    frees           \* how often the request's payload has been freed

sessionVars == <<rawRequest, reqID, resp, respRecvd>>
requestVars == <<arrived, kind, notified, reqIDCounter>>
threadVars == <<thread, msg>>
taskVars == <<task, cur, restarts>>
fwVars == <<fw, fwSession, fwResp, userSaid>>
modemVars == <<outbox, answers, frees>>
vars == <<sessionVars, requestVars, threadVars, taskVars, fwVars, modemVars>>

Free(r) == frees' = [frees EXCEPT ![r] = @ + 1]

-----------------------------------------------------------------------------
Waiting(s) == {n \in Requests : thread[n] = "waiting" /\ kind[n] = s}

(* pthread_cond_signal(&tCond) *)
Signal(s) ==
    \/ Waiting(s) = {} /\ UNCHANGED thread
    \/ \E n \in Waiting(s) : thread' = [thread EXCEPT ![n] = "woken"]

(* the critical section every answer goes through *)
SetResponse(s, answer) ==
    /\ resp' = [resp EXCEPT ![s] = answer]
    /\ respRecvd' = [respRecvd EXCEPT ![s] = TRUE]
    /\ Signal(s)

-----------------------------------------------------------------------------
(* loc_eng_ni_request_handler() *)

Busy(s) ==
    IF s = "es" THEN rawRequest["es"] # None
                ELSE \E t \in Sessions : rawRequest[t] # None

Ignore(s) ==
    /\ task = "idle"
    /\ Busy(s)
    /\ arrived < MaxRequests
    /\ arrived' = arrived + 1
    /\ kind' = [kind EXCEPT ![arrived'] = s]
    /\ Free(arrived')
    /\ UNCHANGED <<sessionVars, notified, reqIDCounter, threadVars, taskVars,
                   fwVars, outbox, answers>>

Take(s) ==
    /\ task = "idle"
    /\ ~Busy(s)
    /\ arrived < MaxRequests
    /\ arrived' = arrived + 1
    /\ kind' = [kind EXCEPT ![arrived'] = s]
    /\ rawRequest' = [rawRequest EXCEPT ![s] = arrived']
    /\ reqIDCounter' = reqIDCounter + 1
    /\ reqID' = [reqID EXCEPT ![s] = reqIDCounter']
    /\ task' = "spawn"
    /\ cur' = s
    /\ UNCHANGED <<resp, respRecvd, notified, threadVars, restarts, fwVars, modemVars>>

(* the request gets its id, its thread, unless pthread_create() fails, and *)
(* is shown to the user                                                    *)
Spawn(created) ==
    /\ task = "spawn"
    /\ notified' = [notified EXCEPT ![arrived] = reqID[cur]]
    /\ thread' = [thread EXCEPT ![arrived] = IF created THEN "start" ELSE "failed"]
    /\ task' = "idle"
    /\ UNCHANGED <<sessionVars, arrived, kind, reqIDCounter, msg, cur, restarts,
                   fwVars, modemVars>>

-----------------------------------------------------------------------------
(* loc_eng_ni_reset_on_engine_restart(): the two sessions in turn *)

ResetNext ==
    IF cur = "es" THEN task' = "reset" /\ cur' = "normal"
                  ELSE task' = "idle" /\ cur' = cur

Restart ==
    /\ task = "idle"
    /\ restarts < MaxRestarts
    /\ restarts' = restarts + 1
    /\ task' = "reset"
    /\ cur' = "es"
    /\ UNCHANGED <<sessionVars, requestVars, threadVars, fwVars, modemVars>>

(* free(rawRequest), without the lock *)
ResetFree ==
    /\ task = "reset"
    /\ IF rawRequest[cur] # None
       THEN task' = "nullify" /\ Free(rawRequest[cur]) /\ UNCHANGED cur
       ELSE ResetNext /\ UNCHANGED frees
    /\ UNCHANGED <<sessionVars, requestVars, threadVars, restarts, fwVars,
                   outbox, answers>>

ResetNullify ==
    /\ task = "nullify"
    /\ rawRequest' = [rawRequest EXCEPT ![cur] = None]
    /\ task' = "wake"
    /\ UNCHANGED <<reqID, resp, respRecvd, requestVars, threadVars, cur, restarts,
                   fwVars, modemVars>>

(* respRecvd = TRUE, and resp is what it was *)
ResetWake ==
    /\ task = "wake"
    /\ SetResponse(cur, resp[cur])
    /\ ResetNext
    /\ UNCHANGED <<rawRequest, reqID, requestVars, msg, restarts, fwVars, modemVars>>

(* LocEngInformNiResponse: proc(), and the destructor that frees the payload *)
Deliver ==
    /\ task = "idle"
    /\ outbox # <<>>
    /\ LET m == Head(outbox)
       IN  /\ answers' = [answers EXCEPT ![m.request] = Append(@, m.resp)]
           /\ Free(m.request)
    /\ outbox' = Tail(outbox)
    /\ UNCHANGED <<sessionVars, requestVars, threadVars, taskVars, fwVars>>

TaskFinishes ==
    \/ \E created \in BOOLEAN : Spawn(created)
    \/ ResetFree \/ ResetNullify \/ ResetWake
    \/ Deliver

-----------------------------------------------------------------------------
(* ni_thread_proc() *)

FinishKeepsRequest(n, answer) ==
    LET s == kind[n]
        r == rawRequest[s]
    IN  /\ respRecvd' = [respRecvd EXCEPT ![s] = FALSE]
        /\ resp' = [resp EXCEPT ![s] = answer]
        /\ thread' = [thread EXCEPT ![n] = "clear"]
        /\ msg' = IF r # None /\ answer # "ignore"
                  THEN [msg EXCEPT ![n] = [request |-> r, resp |-> answer]] ELSE msg
        /\ IF r # None /\ answer = "ignore" THEN Free(r) ELSE UNCHANGED frees
        /\ UNCHANGED rawRequest

FinishForgets(n, answer) ==
    LET s == kind[n]
        r == rawRequest[s]
    IN  /\ rawRequest' = [rawRequest EXCEPT ![s] = None]
        /\ respRecvd' = [respRecvd EXCEPT ![s] = FALSE]
        /\ resp' = [resp EXCEPT ![s] = answer]
        /\ thread' = [thread EXCEPT ![n] = "clear"]
        /\ msg' = IF r # None /\ answer # "ignore"
                  THEN [msg EXCEPT ![n] = [request |-> r, resp |-> answer]] ELSE msg
        /\ UNCHANGED frees

(* out of the loop, still under the lock, with the answer there is *)
Finish(n, answer) ==
    LET s == kind[n]
        r == rawRequest[s]
    IN  /\ rawRequest' = [rawRequest EXCEPT ![s] = None]
        /\ respRecvd' = [respRecvd EXCEPT ![s] = FALSE]
        /\ resp' = [resp EXCEPT ![s] = answer]
        /\ thread' = [thread EXCEPT ![n] = "clear"]
        /\ msg' = IF r # None /\ answer # "ignore"
                  THEN [msg EXCEPT ![n] = [request |-> r, resp |-> answer]] ELSE msg
        /\ IF r # None /\ answer = "ignore" THEN Free(r) ELSE UNCHANGED frees

CondWait(n) ==
    /\ thread' = [thread EXCEPT ![n] = "waiting"]
    /\ UNCHANGED <<rawRequest, resp, respRecvd, msg, frees>>

(* the test of the loop, first with the lock just taken, then after a wait *)
Loop(n) ==
    /\ thread[n] \in {"start", "woken"}
    /\ IF respRecvd[kind[n]] THEN Finish(n, resp[kind[n]]) ELSE CondWait(n)
    /\ UNCHANGED <<reqID, requestVars, taskVars, fwVars, outbox, answers>>

(* the wait ends with ETIMEDOUT, once the thread has its lock back *)
TimeOut(n) ==
    /\ thread[n] = "waiting"
    /\ thread' = [thread EXCEPT ![n] = "timedout"]
    /\ UNCHANGED <<sessionVars, requestVars, msg, taskVars, fwVars, modemVars>>

TimedOut(n) ==
    /\ thread[n] = "timedout"
    /\ Finish(n, "noresp")
    /\ UNCHANGED <<reqID, requestVars, taskVars, fwVars, outbox, answers>>

(* reqID = 0, after the lock has been released *)
ClearID(n) ==
    /\ thread[n] = "clear"
    /\ reqID' = [reqID EXCEPT ![kind[n]] = 0]
    /\ thread' = [thread EXCEPT ![n] = "send"]
    /\ UNCHANGED <<rawRequest, resp, respRecvd, requestVars, msg, taskVars, fwVars,
                   modemVars>>

SendResponse(n) ==
    /\ thread[n] = "send"
    /\ thread' = [thread EXCEPT ![n] = "done"]
    /\ outbox' = IF msg[n] = None THEN outbox ELSE Append(outbox, msg[n])
    /\ msg' = [msg EXCEPT ![n] = None]
    /\ UNCHANGED <<sessionVars, requestVars, taskVars, fwVars, answers, frees>>

ThreadStep(n) ==
    Loop(n) \/ TimeOut(n) \/ TimedOut(n) \/ ClearID(n) \/ SendResponse(n)

-----------------------------------------------------------------------------
(* loc_eng_ni_respond(): the user answers a notification, perhaps late.    *)

Holds(s, id) == id = reqID[s] /\ rawRequest[s] # None

Respond(r, answer) ==
    LET id == notified[r]
    IN  /\ fw = "idle"
        /\ id # None
        /\ userSaid[r] = None
        /\ userSaid' = [userSaid EXCEPT ![r] = answer]
        /\ IF Holds("es", id)
           THEN /\ fwSession' = "es"
                /\ fw' = IF answer = "accept" /\ rawRequest["normal"] # None
                         THEN "ignore" ELSE "answer"
                /\ fwResp' = answer
           ELSE IF Holds("normal", id)
           THEN fwSession' = "normal" /\ fw' = "answer" /\ fwResp' = answer
           ELSE UNCHANGED <<fw, fwSession, fwResp>>
        /\ UNCHANGED <<sessionVars, requestVars, threadVars, taskVars, modemVars>>

(* "ignore any SUPL NI non-Es session if a SUPL NI ES is accepted" *)
RespondIgnore ==
    /\ fw = "ignore"
    /\ SetResponse("normal", "ignore")
    /\ fw' = "answer"
    /\ UNCHANGED <<rawRequest, reqID, requestVars, msg, taskVars, fwSession, fwResp,
                   userSaid, modemVars>>

RespondAnswer ==
    /\ fw = "answer"
    /\ SetResponse(fwSession, fwResp)
    /\ fw' = "idle"
    /\ UNCHANGED <<rawRequest, reqID, requestVars, msg, taskVars, fwSession, fwResp,
                   userSaid, modemVars>>

FwFinishes == RespondIgnore \/ RespondAnswer

-----------------------------------------------------------------------------
Init ==
    /\ rawRequest = [s \in Sessions |-> None]
    /\ reqID = [s \in Sessions |-> 0]
    /\ resp = [s \in Sessions |-> "zero"]
    /\ respRecvd = [s \in Sessions |-> FALSE]
    /\ reqIDCounter = 0
    /\ arrived = 0
    /\ kind = [r \in Requests |-> "normal"]
    /\ notified = [r \in Requests |-> None]
    /\ thread = [r \in Requests |-> "none"]
    /\ msg = [r \in Requests |-> None]
    /\ task = "idle"
    /\ cur = "es"
    /\ restarts = 0
    /\ outbox = <<>>
    /\ fw = "idle"
    /\ fwSession = "es"
    /\ fwResp = "noresp"
    /\ userSaid = [r \in Requests |-> None]
    /\ answers = [r \in Requests |-> <<>>]
    /\ frees = [r \in Requests |-> 0]

Next ==
    \/ \E s \in Sessions : Ignore(s) \/ Take(s)
    \/ Restart
    \/ TaskFinishes
    \/ \E n \in Requests : ThreadStep(n)
    \/ \E r \in Requests, answer \in {"accept", "deny"} : Respond(r, answer)
    \/ FwFinishes

Spec == Init /\ [][Next]_vars

(* Every thread runs, and a wait that nobody ends times out; the modem and *)
(* the user need not do anything.                                          *)
FairSpec ==
    /\ Spec
    /\ WF_vars(TaskFinishes)
    /\ WF_vars(FwFinishes)
    /\ \A n \in Requests : WF_vars(ThreadStep(n))

-----------------------------------------------------------------------------
ThreadPlaces == {"none", "failed", "start", "waiting", "woken", "timedout",
                 "clear", "send", "done"}
TaskPlaces == {"idle", "spawn", "reset", "nullify", "wake"}
FwPlaces == {"idle", "ignore", "answer"}

(* Every variable has its type, and a session holds only a request of its  *)
(* kind that has arrived.                                                  *)
TypeOK ==
    /\ \A s \in Sessions : rawRequest[s] # None =>
          rawRequest[s] \in 1..arrived /\ kind[rawRequest[s]] = s
    /\ reqIDCounter \in 0..arrived
    /\ reqID \in [Sessions -> 0..reqIDCounter]
    /\ resp \in [Sessions -> Responses \cup {"zero"}]
    /\ respRecvd \in [Sessions -> BOOLEAN]
    /\ arrived \in 0..MaxRequests
    /\ kind \in [Requests -> Sessions]
    /\ notified \in [Requests -> 0..reqIDCounter \cup {None}]
    /\ thread \in [Requests -> ThreadPlaces]
    /\ msg \in [Requests -> Message \cup {None}]
    /\ task \in TaskPlaces
    /\ cur \in Sessions
    /\ restarts \in 0..MaxRestarts
    /\ \A i \in 1..Len(outbox) : outbox[i] \in Message
    /\ fw \in FwPlaces
    /\ fwSession \in Sessions
    /\ fwResp \in {"accept", "deny", "noresp"}
    /\ userSaid \in [Requests -> {"accept", "deny", None}]
    /\ \A r \in Requests : Len(answers[r]) <= MaxRequests

OnItsWay(r) ==
    \/ \E n \in Requests : msg[n] # None /\ msg[n].request = r
    \/ \E i \in 1..Len(outbox) : outbox[i].request = r

Held(r) == \E s \in Sessions : rawRequest[s] = r

(* The modem gets at most one answer to a request, however the timeout,    *)
(* the user, a restart and the thread of an earlier request interleave.    *)
AnsweredOnce ==
    \A r \in Requests :
       /\ Len(answers[r]) <= 1
       /\ Len(answers[r]) = 1 => ~OnItsWay(r) /\ ~Held(r)

(* Until the engine restarts, the payload of a request is freed exactly    *)
(* once, and by its last user: an ignored request at once, an ignored      *)
(* session by its thread, any other one with the message to the modem.     *)
PayloadFreedOnce ==
    restarts = 0 =>
       \A r \in 1..arrived :
          frees[r] = IF Held(r) \/ OnItsWay(r) THEN 0 ELSE 1

(* A session that holds a request has a thread that will take it: no       *)
(* session stays busy for good, so that it refuses every later request,    *)
(* unless pthread_create() failed.                                         *)
SessionHasThread ==
    \A s \in Sessions : rawRequest[s] # None =>
       \/ task = "spawn" /\ cur = s
       \/ thread[rawRequest[s]] \in {"failed", "start", "waiting", "woken", "timedout"}

(* A request is settled once, and by somebody: one answer at most, one     *)
(* free, and a thread for as long as it is in its session.                 *)
SettledOnce == TypeOK /\ AnsweredOnce /\ PayloadFreedOnce /\ SessionHasThread

(* A request whose thread runs leaves its session and its payload is freed. *)
RequestSettles ==
    \A r \in Requests :
       thread[r] = "start" ~> thread[r] = "done" /\ frees[r] > 0 /\ ~Held(r)

(* loc_eng_ni.cpp:105: "Displays the NI request and awaits user input": an *)
(* answer other than "no response" is the one the user gave to that very   *)
(* request.                                                                *)
AwaitsUserInput ==
    \A r \in Requests : \A i \in 1..Len(answers[r]) :
       answers[r][i] \in {"accept", "deny"} => answers[r][i] = userSaid[r]
=============================================================================
