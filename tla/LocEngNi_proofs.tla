--------------------------- MODULE LocEngNi_proofs ---------------------------
(***************************************************************************)
(* Proofs about LocEngNi for any number of requests and restarts.          *)
(***************************************************************************)
EXTENDS LocEngNi, TLAPS

(* Where a request can be besides in its session (Held): in the hands of a *)
(* thread that is about to send its answer, or in the queue of the MsgTask. *)
InHand(r) == \E n \in Requests : msg[n] # None /\ msg[n].request = r
InQueue(r) == \E i \in 1..Len(outbox) : outbox[i].request = r

Types ==
    /\ rawRequest \in [Sessions -> Requests \cup {None}]
    /\ reqIDCounter \in 0..arrived
    /\ reqID \in [Sessions -> 0..reqIDCounter]
    /\ resp \in [Sessions -> Responses \cup {"zero"}]
    /\ respRecvd \in [Sessions -> BOOLEAN]
    /\ arrived \in 0..MaxRequests
    /\ kind \in [Requests -> Sessions]
    /\ notified \in [Requests -> 0..reqIDCounter \cup {None}]
    /\ thread \in [Requests -> ThreadPlaces]
    /\ msg \in [Requests -> Message \cup {None}]
    /\ task \in TaskPlaces
    /\ cur \in Sessions
    /\ restarts \in 0..MaxRestarts
    /\ outbox \in Seq(Message)
    /\ fw \in FwPlaces
    /\ fwSession \in Sessions
    /\ fwResp \in {"accept", "deny", "noresp"}
    /\ userSaid \in [Requests -> {"accept", "deny", None}]
    /\ answers \in [Requests -> Seq(Responses \cup {"zero"})]
    /\ frees \in [Requests -> Nat]

(* A session holds a request of its kind that has arrived. *)
HoldsItsKind ==
    \A s \in Sessions : rawRequest[s] # None =>
       rawRequest[s] \in 1..arrived /\ kind[rawRequest[s]] = s

(* Between the two halves of the handler the session holds the request     *)
(* that has just arrived, unless a thread of an earlier one took it.       *)
Spawning == task = "spawn" => arrived > 0 /\ rawRequest[cur] \in {None, arrived}

Resetting == restarts = 0 => task \in {"idle", "spawn"}

Carrying == \A n \in Requests : msg[n] # None => thread[n] \in {"clear", "send"}

(* A request has a thread only once it has been spawned. *)
Unborn ==
    \A n \in Requests :
       n > arrived \/ (task = "spawn" /\ n = arrived) => thread[n] = "none"

Control ==
    HoldsItsKind /\ Spawning /\ Resetting /\ Carrying /\ Unborn /\ SessionHasThread

(* A request is in one place: its session, one thread's hands, one message *)
(* in the queue, or with the modem.                                        *)
OnePlace ==
    /\ \A r \in Requests : Held(r) => ~InHand(r) /\ ~InQueue(r)
    /\ \A r \in Requests : InHand(r) => ~InQueue(r)
    /\ \A m, n \in Requests :
          msg[m] # None /\ msg[n] # None /\ msg[m].request = msg[n].request => m = n
    /\ \A i, j \in 1..Len(outbox) : outbox[i].request = outbox[j].request => i = j

Unanswered ==
    /\ \A r \in Requests :
          Held(r) \/ InHand(r) \/ InQueue(r) => r <= arrived /\ answers[r] = <<>>
    /\ \A r \in Requests : Len(answers[r]) <= 1
    /\ \A r \in Requests : r > arrived => answers[r] = <<>>

Freed ==
    restarts = 0 =>
       \A r \in Requests :
          frees[r] = IF r <= arrived /\ ~Held(r) /\ ~InHand(r) /\ ~InQueue(r)
                     THEN 1 ELSE 0

IInv == Types /\ Control /\ OnePlace /\ Unanswered /\ Freed

-----------------------------------------------------------------------------
(* Freeing a payload counts one more. *)
LEMMA FreeTypes ==
    ASSUME frees \in [Requests -> Nat], NEW r, r \in Requests \/ UNCHANGED frees,
           Free(r) \/ UNCHANGED frees
    PROVE  frees' \in [Requests -> Nat]
  BY DEF Free

(* What a message carries, and that NULL is none. *)
LEMMA MessageFields ==
    /\ \A m \in Message : m.request \in Requests /\ m.resp \in Responses \cup {"zero"}
    /\ \A r \in Requests : \A a \in Responses \cup {"zero"} :
          /\ [request |-> r, resp |-> a] \in Message
          /\ [request |-> r, resp |-> a] # None
  BY NiAssumption DEF Message

LEMMA Numbers == MaxRequests \in Nat /\ MaxRestarts \in Nat /\ None \notin Requests
  BY NiAssumption

LEMMA Begins == Init => IInv
  <1> SUFFICES ASSUME Init PROVE IInv
    OBVIOUS
  <1>1. Types
    BY Numbers DEF Init, Types, Sessions, Requests, Responses, ThreadPlaces, TaskPlaces,
                   FwPlaces
  <1>2. Control
    BY Numbers DEF Init, Control, HoldsItsKind, Spawning, Resetting, Carrying,
                   Unborn, SessionHasThread
  <1>3. \A r \in Requests : ~Held(r) /\ ~InHand(r) /\ ~InQueue(r)
    BY Numbers DEF Init, Held, InHand, InQueue
  <1>4. OnePlace /\ Unanswered
    BY <1>3, Numbers DEF Init, OnePlace, Unanswered, Requests
  <1>5. Freed
    BY <1>3 DEF Init, Freed, Requests
  <1> QED
    BY <1>1, <1>2, <1>4, <1>5 DEF IInv

-----------------------------------------------------------------------------
(* Waking a thread does nothing but move it on. *)
LEMMA SignalKeeps ==
    ASSUME Types, NEW s \in Sessions, Signal(s)
    PROVE  /\ thread' \in [Requests -> ThreadPlaces]
           /\ \A n \in Requests :
                 thread'[n] # thread[n] => thread[n] = "waiting" /\ thread'[n] = "woken"
  BY DEF Types, Signal, Waiting, ThreadPlaces

LEMMA SetResponseTypes ==
    ASSUME Types, NEW s \in Sessions, NEW a \in Responses \cup {"zero"},
           SetResponse(s, a)
    PROVE  /\ resp' \in [Sessions -> Responses \cup {"zero"}]
           /\ respRecvd' \in [Sessions -> BOOLEAN]
           /\ thread' \in [Requests -> ThreadPlaces]
  BY SignalKeeps DEF Types, SetResponse

LEMMA FinishTypes ==
    ASSUME Types, NEW n \in Requests, NEW a \in Responses \cup {"zero"},
           Finish(n, a)
    PROVE  /\ rawRequest' \in [Sessions -> Requests \cup {None}]
           /\ resp' \in [Sessions -> Responses \cup {"zero"}]
           /\ respRecvd' \in [Sessions -> BOOLEAN]
           /\ thread' \in [Requests -> ThreadPlaces]
           /\ msg' \in [Requests -> Message \cup {None}]
           /\ frees' \in [Requests -> Nat]
  <1>1. kind[n] \in Sessions /\ rawRequest[kind[n]] \in Requests \cup {None}
    BY DEF Types
  <1>2. rawRequest[kind[n]] # None =>
           [request |-> rawRequest[kind[n]], resp |-> a] \in Message
    BY <1>1, MessageFields
  <1>3. msg' \in [Requests -> Message \cup {None}]
    BY <1>2 DEF Finish, Types
  <1>4. frees' \in [Requests -> Nat]
    BY <1>1, FreeTypes DEF Finish, Types
  <1> QED
    BY <1>1, <1>3, <1>4 DEF Finish, Types, ThreadPlaces

LEMMA TypesKept == IInv /\ [Next]_vars => Types'
  <1> SUFFICES ASSUME IInv, [Next]_vars PROVE Types'
    OBVIOUS
  <1> USE Numbers
  <1>0. Types /\ Control
    BY DEF IInv
  <1>1. ASSUME NEW s \in Sessions, Ignore(s) PROVE Types'
    <2>1. arrived' \in Requests /\ arrived' \in 0..MaxRequests /\ arrived' = arrived + 1
      BY <1>0, <1>1 DEF Ignore, Types, Requests
    <2>2. kind' \in [Requests -> Sessions] /\ frees' \in [Requests -> Nat]
      BY <1>0, <1>1, <2>1 DEF Ignore, Types, Free
    <2>3. reqIDCounter \in 0..arrived'
      BY <1>0, <2>1 DEF Types
    <2> QED
      BY <1>0, <1>1, <2>1, <2>2, <2>3
         DEF Ignore, Types, sessionVars, threadVars, taskVars, fwVars
  <1>2. ASSUME NEW s \in Sessions, Take(s) PROVE Types'
    <2>1. arrived' \in Requests /\ arrived' \in 0..MaxRequests /\ arrived' = arrived + 1
      BY <1>0, <1>2 DEF Take, Types, Requests
    <2>2. /\ kind' \in [Requests -> Sessions]
          /\ rawRequest' \in [Sessions -> Requests \cup {None}]
      BY <1>0, <1>2, <2>1 DEF Take, Types
    <2>3. reqIDCounter' \in 0..arrived' /\ reqIDCounter' = reqIDCounter + 1
      BY <1>0, <1>2, <2>1 DEF Take, Types
    <2>4. reqID' \in [Sessions -> 0..reqIDCounter']
      BY <1>0, <1>2, <2>3 DEF Take, Types
    <2>5. notified' \in [Requests -> 0..reqIDCounter' \cup {None}]
      BY <1>0, <1>2, <2>3 DEF Take, Types
    <2> QED
      BY <1>0, <1>2, <2>1, <2>2, <2>3, <2>4, <2>5
         DEF Take, Types, threadVars, fwVars, modemVars, TaskPlaces
  <1>3. ASSUME Restart PROVE Types'
    BY <1>0, <1>3 DEF Restart, Types, sessionVars, requestVars, threadVars, fwVars,
                      modemVars, TaskPlaces, Sessions
  <1>4. ASSUME NEW created \in BOOLEAN, Spawn(created) PROVE Types'
    <2>1. arrived \in Requests
      BY <1>0, <1>4 DEF Spawn, Control, Spawning, Types, Requests
    <2>2. /\ notified' \in [Requests -> 0..reqIDCounter \cup {None}]
          /\ thread' \in [Requests -> ThreadPlaces]
      BY <1>0, <1>4, <2>1 DEF Spawn, Types, ThreadPlaces
    <2> QED
      BY <1>0, <1>4, <2>2 DEF Spawn, Types, sessionVars, fwVars, modemVars, TaskPlaces
  <1>5. ASSUME ResetFree PROVE Types'
    <2>1. frees' \in [Requests -> Nat]
      BY <1>0, <1>5, FreeTypes DEF ResetFree, Types
    <2> QED
      BY <1>0, <1>5, <2>1
         DEF ResetFree, ResetNext, Types, sessionVars, requestVars, threadVars, fwVars,
             TaskPlaces, Sessions
  <1>6. ASSUME ResetNullify PROVE Types'
    BY <1>0, <1>6 DEF ResetNullify, Types, requestVars, threadVars, fwVars, modemVars,
                      TaskPlaces
  <1>7. ASSUME ResetWake PROVE Types'
    <2>1. resp[cur] \in Responses \cup {"zero"} /\ cur \in Sessions
      BY <1>0 DEF Types
    <2> QED
      BY <1>0, <1>7, <2>1, SetResponseTypes
         DEF ResetWake, ResetNext, Types, requestVars, fwVars, modemVars, TaskPlaces,
             Sessions
  <1>8. ASSUME Deliver PROVE Types'
    <2> DEFINE m == Head(outbox)
    <2>1. m \in Message /\ Tail(outbox) \in Seq(Message)
      BY <1>0, <1>8 DEF Deliver, Types
    <2>2. m.request \in Requests /\ m.resp \in Responses \cup {"zero"}
      BY <2>1, MessageFields
    <2> HIDE DEF m
    <2>3. /\ answers' = [answers EXCEPT ![m.request] = Append(@, m.resp)]
          /\ frees' = [frees EXCEPT ![m.request] = @ + 1]
      BY <1>8 DEF Deliver, Free, m
    <2>4. /\ answers' \in [Requests -> Seq(Responses \cup {"zero"})]
          /\ frees' \in [Requests -> Nat]
      BY <1>0, <2>2, <2>3 DEF Types
    <2> QED
      BY <1>0, <1>8, <2>1, <2>4
         DEF Deliver, Types, sessionVars, requestVars, threadVars, taskVars, fwVars
  <1>9. ASSUME NEW n \in Requests, Loop(n) PROVE Types'
    <2>1. resp[kind[n]] \in Responses \cup {"zero"}
      BY <1>0 DEF Types
    <2>2. CASE respRecvd[kind[n]]
      <3>1. Finish(n, resp[kind[n]])
        BY <1>9, <2>2 DEF Loop
      <3> QED
        BY <1>0, <1>9, <2>1, <3>1, FinishTypes
           DEF Loop, Types, requestVars, taskVars, fwVars
    <2>3. CASE ~respRecvd[kind[n]]
      BY <1>0, <1>9, <2>3
         DEF Loop, CondWait, Types, requestVars, taskVars, fwVars, ThreadPlaces
    <2> QED
      BY <2>2, <2>3
  <1>10. ASSUME NEW n \in Requests, TimeOut(n) PROVE Types'
    BY <1>0, <1>10 DEF TimeOut, Types, sessionVars, requestVars, taskVars, fwVars,
                       modemVars, ThreadPlaces
  <1>11. ASSUME NEW n \in Requests, TimedOut(n) PROVE Types'
    <2>1. "noresp" \in Responses \cup {"zero"}
      BY DEF Responses
    <2>2. Finish(n, "noresp")
      BY <1>11 DEF TimedOut
    <2> QED
      BY <1>0, <1>11, <2>1, <2>2, FinishTypes
         DEF TimedOut, Types, requestVars, taskVars, fwVars
  <1>12. ASSUME NEW n \in Requests, ClearID(n) PROVE Types'
    BY <1>0, <1>12 DEF ClearID, Types, requestVars, taskVars, fwVars, modemVars,
                       ThreadPlaces
  <1>13. ASSUME NEW n \in Requests, SendResponse(n) PROVE Types'
    <2>1. outbox' \in Seq(Message)
      BY <1>0, <1>13 DEF SendResponse, Types
    <2> QED
      BY <1>0, <1>13, <2>1 DEF SendResponse, Types, sessionVars, requestVars, taskVars,
                               fwVars, ThreadPlaces
  <1>14. ASSUME NEW r \in Requests, NEW answer \in {"accept", "deny"}, Respond(r, answer)
         PROVE Types'
    BY <1>0, <1>14 DEF Respond, Types, sessionVars, requestVars, threadVars, taskVars,
                       modemVars, FwPlaces, Sessions
  <1>15. ASSUME RespondIgnore PROVE Types'
    <2>1. "ignore" \in Responses \cup {"zero"} /\ "normal" \in Sessions
      BY DEF Responses, Sessions
    <2> QED
      BY <1>0, <1>15, <2>1, SetResponseTypes
         DEF RespondIgnore, Types, requestVars, taskVars, modemVars, FwPlaces
  <1>16. ASSUME RespondAnswer PROVE Types'
    <2>1. fwResp \in Responses \cup {"zero"} /\ fwSession \in Sessions
      BY <1>0 DEF Responses, Types
    <2> QED
      BY <1>0, <1>16, <2>1, SetResponseTypes
         DEF RespondAnswer, Types, requestVars, taskVars, modemVars, FwPlaces
  <1>17. CASE UNCHANGED vars
    BY <1>0, <1>17 DEF Types, vars, sessionVars, requestVars, threadVars, taskVars,
                       fwVars, modemVars
  <1> QED
    BY <1>1, <1>2, <1>3, <1>4, <1>5, <1>6, <1>7, <1>8, <1>9, <1>10, <1>11, <1>12,
       <1>13, <1>14, <1>15, <1>16, <1>17
       DEF Next, TaskFinishes, ThreadStep, FwFinishes
-----------------------------------------------------------------------------
(* What most steps leave alone: where each request is. *)
placeVars == <<rawRequest, msg, outbox, arrived, kind, answers>>

LEMMA QuietSteps ==
    ASSUME IInv,
           \/ \E created \in BOOLEAN : Spawn(created)
           \/ Restart \/ ResetFree \/ ResetWake
           \/ \E n \in Requests : TimeOut(n) \/ ClearID(n)
           \/ \E n \in Requests : Loop(n) /\ ~respRecvd[kind[n]]
           \/ \E r \in Requests, answer \in {"accept", "deny"} : Respond(r, answer)
           \/ FwFinishes
           \/ UNCHANGED vars
    PROVE  /\ UNCHANGED placeVars
           /\ UNCHANGED <<frees, restarts>> \/ restarts' > 0
  <1> USE DEF placeVars, sessionVars, requestVars, threadVars, taskVars, fwVars, modemVars
  <1>0. restarts \in Nat /\ (restarts = 0 => task \in {"idle", "spawn"})
    BY Numbers DEF IInv, Types, Control, Resetting
  <1>1. ASSUME ResetFree PROVE UNCHANGED placeVars /\ restarts' > 0
    BY <1>0, <1>1 DEF ResetFree
  <1>2. ASSUME Restart PROVE UNCHANGED placeVars /\ restarts' > 0
    BY <1>0, <1>2 DEF Restart
  <1>3. ASSUME \/ \E created \in BOOLEAN : Spawn(created)
               \/ ResetWake
               \/ \E n \in Requests : TimeOut(n) \/ ClearID(n)
        PROVE  UNCHANGED placeVars /\ UNCHANGED <<frees, restarts>>
    BY <1>3 DEF Spawn, ResetWake, TimeOut, ClearID
  <1>4. ASSUME \E n \in Requests : Loop(n) /\ ~respRecvd[kind[n]]
        PROVE  UNCHANGED placeVars /\ UNCHANGED <<frees, restarts>>
    BY <1>4 DEF Loop, CondWait
  <1>5. ASSUME \/ \E r \in Requests, answer \in {"accept", "deny"} : Respond(r, answer)
               \/ FwFinishes
        PROVE  UNCHANGED placeVars /\ UNCHANGED <<frees, restarts>>
    BY <1>5 DEF Respond, FwFinishes, RespondIgnore, RespondAnswer
  <1>6. ASSUME UNCHANGED vars
        PROVE  UNCHANGED placeVars /\ UNCHANGED <<frees, restarts>>
    BY <1>6 DEF vars
  <1> QED
    BY <1>1, <1>2, <1>3, <1>4, <1>5, <1>6

(* The MsgTask or the framework wakes a thread, or a thread takes a step,  *)
(* without being done with its request.                                    *)
LEMMA QuietKeepsPlaces ==
    ASSUME IInv, UNCHANGED placeVars,
           UNCHANGED <<frees, restarts>> \/ restarts' > 0
    PROVE  (OnePlace /\ Unanswered /\ Freed)'
  <1>1. \A r : /\ Held(r)' <=> Held(r)
               /\ InHand(r)' <=> InHand(r)
               /\ InQueue(r)' <=> InQueue(r)
    BY DEF placeVars, Held, InHand, InQueue
  <1>2. OnePlace'
    BY <1>1 DEF IInv, OnePlace, placeVars
  <1>3. Unanswered'
    BY <1>1 DEF IInv, Unanswered, placeVars
  <1>4. Freed'
    BY <1>1 DEF IInv, Freed, placeVars
  <1> QED
    BY <1>2, <1>3, <1>4

(* An ignored request is nowhere, and its payload is freed at once. *)
LEMMA IgnoreKeepsPlaces ==
    ASSUME IInv, NEW s \in Sessions, Ignore(s)
    PROVE  (OnePlace /\ Unanswered /\ Freed)'
  <1>0. Types /\ OnePlace /\ Unanswered /\ Freed
    BY DEF IInv
  <1>1. \A r : /\ Held(r)' <=> Held(r)
               /\ InHand(r)' <=> InHand(r)
               /\ InQueue(r)' <=> InQueue(r)
    BY DEF Ignore, sessionVars, threadVars, Held, InHand, InQueue
  <1>2. arrived' = arrived + 1 /\ arrived \in Nat /\ arrived' \in Requests
    BY <1>0, Numbers DEF Types, Ignore, Requests
  <1>3. OnePlace'
    BY <1>0, <1>1 DEF OnePlace, Ignore, threadVars
  <1>4. Unanswered'
    BY <1>0, <1>1, <1>2 DEF Unanswered, Ignore, Requests
  <1>5. ~Held(arrived') /\ ~InHand(arrived') /\ ~InQueue(arrived')
    BY <1>0, <1>2 DEF Unanswered
  <1>6. frees' = [frees EXCEPT ![arrived'] = @ + 1] /\ restarts' = restarts
    BY DEF Ignore, Free, taskVars
  <1>7. Freed'
    BY <1>0, <1>1, <1>2, <1>5, <1>6 DEF Freed, Types, Requests
  <1> QED
    BY <1>3, <1>4, <1>7

(* A request that is taken is in its session. *)
LEMMA TakeKeepsPlaces ==
    ASSUME IInv, NEW s \in Sessions, Take(s)
    PROVE  (OnePlace /\ Unanswered /\ Freed)'
  <1>0. Types /\ OnePlace /\ Unanswered /\ Freed
    BY DEF IInv
  <1>1. arrived' = arrived + 1 /\ arrived \in Nat /\ arrived' \in Requests
    BY <1>0, Numbers DEF Types, Take, Requests
  <1>2. rawRequest[s] = None /\ rawRequest' = [rawRequest EXCEPT ![s] = arrived']
    BY DEF Take, Busy, Sessions
  <1>3. \A r \in Requests : Held(r)' <=> Held(r) \/ r = arrived'
    BY <1>0, <1>2, Numbers DEF Held, Types
  <1>4. \A r : /\ InHand(r)' <=> InHand(r)
               /\ InQueue(r)' <=> InQueue(r)
    BY DEF Take, modemVars, threadVars, InHand, InQueue
  <1>5. ~Held(arrived') /\ ~InHand(arrived') /\ ~InQueue(arrived') /\ answers[arrived'] = <<>>
    BY <1>0, <1>1 DEF Unanswered
  <1>6. OnePlace'
    BY <1>0, <1>3, <1>4, <1>5 DEF OnePlace, Take, threadVars, modemVars
  <1>7. Unanswered'
    BY <1>0, <1>1, <1>3, <1>4, <1>5 DEF Unanswered, Take, Requests, modemVars
  <1>8. Freed'
    BY <1>0, <1>1, <1>3, <1>4, <1>5 DEF Freed, Take, Requests, modemVars, Types
  <1> QED
    BY <1>6, <1>7, <1>8

(* After an engine restart has freed it, a request is in no session. *)
LEMMA NullifyKeepsPlaces ==
    ASSUME IInv, ResetNullify
    PROVE  (OnePlace /\ Unanswered /\ Freed)'
  <1>0. Types /\ OnePlace /\ Unanswered /\ Control
    BY DEF IInv
  <1>1. \A r \in Requests : Held(r)' => Held(r)
    BY <1>0, Numbers DEF ResetNullify, Held, Types
  <1>2. \A r : /\ InHand(r)' <=> InHand(r)
               /\ InQueue(r)' <=> InQueue(r)
    BY DEF ResetNullify, modemVars, threadVars, InHand, InQueue
  <1>3. OnePlace'
    BY <1>0, <1>1, <1>2 DEF OnePlace, ResetNullify, threadVars, modemVars
  <1>4. Unanswered'
    BY <1>0, <1>1, <1>2 DEF Unanswered, ResetNullify, requestVars, modemVars
  <1>5. Freed'
    BY <1>0 DEF Control, Resetting, ResetNullify, Freed
  <1> QED
    BY <1>3, <1>4, <1>5

-----------------------------------------------------------------------------
(* A thread out of its loop has nothing in its hands yet.  The request of  *)
(* its session, which need not be its own, goes from the session into its  *)
(* hands, or is freed when the answer is to ignore it.                     *)
LEMMA FinishMoves ==
    ASSUME IInv, NEW n \in Requests, NEW a \in Responses \cup {"zero"},
           thread[n] \notin {"clear", "send"}, Finish(n, a), UNCHANGED outbox
    PROVE  LET r0 == rawRequest[kind[n]]
           IN  /\ \A r \in Requests : Held(r)' <=> Held(r) /\ r # r0
               /\ \A r \in Requests :
                     InHand(r)' <=> InHand(r) \/ (r = r0 /\ a # "ignore")
               /\ \A r \in Requests : InQueue(r)' <=> InQueue(r)
               /\ \A m \in Requests : m # n => msg'[m] = msg[m]
               /\ msg'[n] # None => msg'[n].request = r0 /\ r0 \in Requests /\ Held(r0)
  <1> DEFINE r0 == rawRequest[kind[n]]
  <1>0. Types /\ Control
    BY DEF IInv
  <1>1. msg[n] = None
    BY <1>0 DEF Control, Carrying
  <1>2. kind[n] \in Sessions /\ r0 \in Requests \cup {None}
    BY <1>0 DEF Types
  <1>3. rawRequest' = [rawRequest EXCEPT ![kind[n]] = None]
    BY DEF Finish
  <1>4. \A s, t \in Sessions :
           rawRequest[s] # None /\ rawRequest[s] = rawRequest[t] => s = t
    BY <1>0 DEF Control, HoldsItsKind
  <1>5. \A r \in Requests : Held(r)' <=> Held(r) /\ r # r0
    BY <1>0, <1>2, <1>3, <1>4, Numbers DEF Held, Types
  <1>6. msg' = IF r0 # None /\ a # "ignore"
               THEN [msg EXCEPT ![n] = [request |-> r0, resp |-> a]] ELSE msg
    BY DEF Finish
  <1>7. r0 # None => [request |-> r0, resp |-> a] # None
    BY <1>2, MessageFields
  <1> HIDE DEF r0
  <1>8. CASE r0 # None /\ a # "ignore"
    <2>1. msg'[n] = [request |-> r0, resp |-> a]
      BY <1>0, <1>6, <1>8 DEF Types
    <2>2. \A m \in Requests : m # n => msg'[m] = msg[m]
      BY <1>0, <1>6, <1>8 DEF Types
    <2>3. \A r \in Requests : InHand(r)' <=> InHand(r) \/ r = r0
      BY <1>1, <1>7, <1>8, <2>1, <2>2 DEF InHand
    <2> QED
      BY <1>2, <1>5, <1>8, <2>1, <2>2, <2>3 DEF InQueue, Held, r0
  <1>9. CASE ~(r0 # None /\ a # "ignore")
    <2>1. msg' = msg
      BY <1>6, <1>9
    <2>2. \A r \in Requests : r = r0 => a = "ignore"
      BY <1>9, Numbers
    <2> QED
      BY <1>1, <1>5, <2>1, <2>2 DEF InHand, InQueue, r0
  <1> QED
    BY <1>8, <1>9

(* Either way the request is in one place, or freed and in none. *)
LEMMA FinishKeepsPlaces ==
    ASSUME IInv, NEW n \in Requests, NEW a \in Responses \cup {"zero"},
           thread[n] \notin {"clear", "send"}, Finish(n, a),
           UNCHANGED <<outbox, answers, arrived, restarts>>
    PROVE  (OnePlace /\ Unanswered /\ Freed)'
  <1> DEFINE r0 == rawRequest[kind[n]]
  <1>0. Types /\ Control /\ OnePlace /\ Unanswered /\ Freed
    BY DEF IInv
  <1>1. /\ \A r \in Requests : Held(r)' <=> Held(r) /\ r # r0
        /\ \A r \in Requests : InHand(r)' <=> InHand(r) \/ (r = r0 /\ a # "ignore")
        /\ \A r \in Requests : InQueue(r)' <=> InQueue(r)
        /\ \A m \in Requests : m # n => msg'[m] = msg[m]
        /\ msg'[n] # None => msg'[n].request = r0 /\ r0 \in Requests /\ Held(r0)
    BY FinishMoves
  <1>2. r0 \in Requests => Held(r0) /\ ~InHand(r0) /\ ~InQueue(r0)
    BY <1>0 DEF Held, OnePlace, Types
  <1>3. kind[n] \in Sessions /\ r0 \in Requests \cup {None}
    BY <1>0 DEF Types
  <1>4. IF r0 # None /\ a = "ignore" THEN frees' = [frees EXCEPT ![r0] = @ + 1]
                                    ELSE frees' = frees
    BY DEF Finish, Free
  <1> HIDE DEF r0
  <1>5. \A m \in Requests :
           m # n /\ msg'[m] # None => msg'[m].request # r0
    <2>1. \A m \in Requests : msg[m] # None => msg[m].request \in Requests
      BY <1>0, MessageFields DEF Types
    <2> QED
      BY <1>1, <1>2, <1>3, <2>1, Numbers DEF InHand
  <1>6. OnePlace'
    <2>1. \A r \in Requests : Held(r)' => ~InHand(r)' /\ ~InQueue(r)'
      BY <1>0, <1>1 DEF OnePlace
    <2>2. \A r \in Requests : InHand(r)' => ~InQueue(r)'
      BY <1>0, <1>1, <1>2 DEF OnePlace
    <2>3. \A l, m \in Requests :
             msg'[l] # None /\ msg'[m] # None /\ msg'[l].request = msg'[m].request
                => l = m
      BY <1>0, <1>1, <1>5 DEF OnePlace
    <2> QED
      BY <1>0, <2>1, <2>2, <2>3 DEF OnePlace
  <1>7. Unanswered'
    BY <1>0, <1>1, <1>2 DEF Unanswered
  <1>8. Freed'
    BY <1>0, <1>1, <1>2, <1>3, <1>4, Numbers DEF Freed, Unanswered, Types
  <1> QED
    BY <1>6, <1>7, <1>8

(* The answer goes from the thread's hands to the end of the queue. *)
LEMMA SendKeepsPlaces ==
    ASSUME IInv, NEW n \in Requests, SendResponse(n)
    PROVE  (OnePlace /\ Unanswered /\ Freed)'
  <1>0. Types /\ OnePlace /\ Unanswered /\ Freed
    BY DEF IInv
  <1>1. msg' = [msg EXCEPT ![n] = None]
    BY DEF SendResponse
  <1>2. \A m \in Requests : msg'[m] = IF m = n THEN None ELSE msg[m]
    BY <1>0, <1>1 DEF Types
  <1>3. CASE msg[n] = None
    <2>1. /\ outbox' = outbox /\ rawRequest' = rawRequest
          /\ \A m \in Requests : msg'[m] = msg[m]
      BY <1>2, <1>3 DEF SendResponse, sessionVars
    <2>2. \A r \in Requests : /\ Held(r)' <=> Held(r)
                              /\ InHand(r)' <=> InHand(r)
                              /\ InQueue(r)' <=> InQueue(r)
      BY <2>1 DEF Held, InHand, InQueue
    <2>3. UNCHANGED <<answers, arrived, frees, restarts>>
      BY DEF SendResponse, requestVars, taskVars
    <2>4. OnePlace'
      BY <1>0, <2>1, <2>2 DEF OnePlace
    <2>5. Unanswered' /\ Freed'
      BY <1>0, <2>2, <2>3 DEF Unanswered, Freed
    <2> QED
      BY <2>4, <2>5
  <1>4. CASE msg[n] # None
    <2> DEFINE m0 == msg[n]
               r0 == m0.request
    <2>1. m0 \in Message /\ r0 \in Requests
      BY <1>0, <1>4, MessageFields DEF Types
    <2>2. outbox' = Append(outbox, m0)
      BY <1>4 DEF SendResponse
    <2>3. /\ Len(outbox') = Len(outbox) + 1 /\ Len(outbox) \in Nat
          /\ outbox'[Len(outbox) + 1] = m0
          /\ \A i \in 1..Len(outbox) : outbox'[i] = outbox[i]
      BY <1>0, <2>1, <2>2 DEF Types
    <2>4. InHand(r0) /\ ~InQueue(r0) /\ ~Held(r0)
      BY <1>0, <1>4, <2>1 DEF InHand, OnePlace
    <2> HIDE DEF m0
    <2>5. \A r \in Requests : Held(r)' <=> Held(r)
      BY DEF Held, SendResponse, sessionVars
    <2>6. \A r \in Requests : InHand(r)' <=> InHand(r) /\ r # r0
      BY <1>0, <1>2, <1>4 DEF InHand, OnePlace, m0
    <2>7. \A r \in Requests : InQueue(r)' <=> InQueue(r) \/ r = r0
      BY <2>3 DEF InQueue
    <2>8. \A i, j \in 1..Len(outbox') :
             outbox'[i].request = outbox'[j].request => i = j
      <3> SUFFICES ASSUME NEW i \in 1..Len(outbox'), NEW j \in 1..Len(outbox'),
                          outbox'[i].request = outbox'[j].request
                   PROVE  i = j
        OBVIOUS
      <3>1. i \in 1..Len(outbox) \/ i = Len(outbox) + 1
        BY <2>3
      <3>2. j \in 1..Len(outbox) \/ j = Len(outbox) + 1
        BY <2>3
      <3>3. \A k \in 1..Len(outbox) : outbox[k].request # r0
        BY <2>4 DEF InQueue
      <3> QED
        BY <1>0, <2>3, <3>1, <3>2, <3>3 DEF OnePlace
    <2>9. OnePlace'
      BY <1>0, <1>2, <2>4, <2>5, <2>6, <2>7, <2>8 DEF OnePlace
    <2>10. Unanswered'
      BY <1>0, <2>4, <2>5, <2>6, <2>7 DEF Unanswered, SendResponse, requestVars
    <2>11. Freed'
      BY <1>0, <2>4, <2>5, <2>6, <2>7 DEF Freed, SendResponse, requestVars, taskVars
    <2> QED
      BY <2>9, <2>10, <2>11
  <1> QED
    BY <1>3, <1>4

(* The modem gets the answer, and the payload is freed with the message. *)
LEMMA DeliverKeepsPlaces ==
    ASSUME IInv, Deliver
    PROVE  (OnePlace /\ Unanswered /\ Freed)'
  <1> DEFINE m0 == Head(outbox)
             r0 == m0.request
  <1>0. Types /\ OnePlace /\ Unanswered /\ Freed
    BY DEF IInv
  <1>1. /\ outbox # <<>> /\ outbox' = Tail(outbox)
        /\ answers' = [answers EXCEPT ![r0] = Append(@, m0.resp)]
        /\ frees' = [frees EXCEPT ![r0] = @ + 1]
    BY DEF Deliver, Free
  <1>2. /\ Len(outbox) \in Nat \ {0} /\ Len(outbox') = Len(outbox) - 1
        /\ m0 = outbox[1]
        /\ \A i \in 1..Len(outbox') : outbox'[i] = outbox[i + 1]
    BY <1>0, <1>1 DEF Types
  <1>3. m0 \in Message /\ r0 \in Requests /\ m0.resp \in Responses \cup {"zero"}
    BY <1>0, <1>2, MessageFields DEF Types
  <1>4. InQueue(r0)
    BY <1>2 DEF InQueue
  <1>5. ~InHand(r0) /\ ~Held(r0) /\ answers[r0] = <<>> /\ r0 <= arrived
    BY <1>0, <1>3, <1>4 DEF OnePlace, Unanswered
  <1> HIDE DEF m0
  <1>6. \A r \in Requests : /\ Held(r)' <=> Held(r)
                            /\ InHand(r)' <=> InHand(r)
    <2>1. UNCHANGED <<rawRequest, msg>>
      BY DEF Deliver, sessionVars, threadVars
    <2> QED
      BY <2>1 DEF Held, InHand
  <1>7. \A r \in Requests : InQueue(r)' <=> InQueue(r) /\ r # r0
    <2> SUFFICES ASSUME NEW r \in Requests
                 PROVE  InQueue(r)' <=> InQueue(r) /\ r # r0
      OBVIOUS
    <2>1. ASSUME InQueue(r)' PROVE InQueue(r) /\ r # r0
      <3>1. PICK i \in 1..Len(outbox') : outbox'[i].request = r
        BY <2>1 DEF InQueue
      <3>2. i + 1 \in 1..Len(outbox) /\ outbox[i + 1].request = r /\ i + 1 # 1
        BY <1>2, <3>1
      <3> QED
        BY <1>0, <1>2, <3>2 DEF InQueue, OnePlace
    <2>2. ASSUME InQueue(r), r # r0 PROVE InQueue(r)'
      <3>1. PICK i \in 1..Len(outbox) : outbox[i].request = r
        BY <2>2 DEF InQueue
      <3>2. i - 1 \in 1..Len(outbox') /\ outbox'[i - 1] = outbox[i]
        BY <1>2, <2>2, <3>1
      <3> QED
        BY <3>1, <3>2 DEF InQueue
    <2> QED
      BY <2>1, <2>2
  <1>8. \A i, j \in 1..Len(outbox') :
           outbox'[i].request = outbox'[j].request => i = j
    <2> SUFFICES ASSUME NEW i \in 1..Len(outbox'), NEW j \in 1..Len(outbox'),
                        outbox'[i].request = outbox'[j].request
                 PROVE  i = j
      OBVIOUS
    <2>1. i + 1 \in 1..Len(outbox) /\ j + 1 \in 1..Len(outbox)
      BY <1>2
    <2>2. outbox[i + 1].request = outbox[j + 1].request
      BY <1>2
    <2> QED
      BY <1>0, <2>1, <2>2 DEF OnePlace
  <1>9. OnePlace'
    <2>1. UNCHANGED msg
      BY DEF Deliver, threadVars
    <2> QED
      BY <1>0, <1>6, <1>7, <1>8, <2>1 DEF OnePlace
  <1>10. /\ \A r \in Requests : r # r0 => answers'[r] = answers[r] /\ frees'[r] = frees[r]
         /\ Len(answers'[r0]) = 1
         /\ frees'[r0] = frees[r0] + 1
    BY <1>0, <1>1, <1>3, <1>5 DEF Types
  <1>11. UNCHANGED <<arrived, restarts>>
    BY DEF Deliver, requestVars, taskVars
  <1>12. Unanswered'
    <2> SUFFICES ASSUME NEW r \in Requests
                 PROVE  /\ Held(r)' \/ InHand(r)' \/ InQueue(r)'
                             => r <= arrived' /\ answers'[r] = <<>>
                        /\ Len(answers'[r]) <= 1
                        /\ r > arrived' => answers'[r] = <<>>
      BY DEF Unanswered
    <2>1. CASE r = r0
      <3>1. ~(r > arrived')
        BY <1>0, <1>3, <1>5, <1>11, <2>1, Numbers DEF Types, Requests
      <3>2. ~Held(r)' /\ ~InHand(r)' /\ ~InQueue(r)'
        BY <1>5, <1>6, <1>7, <2>1
      <3>3. Len(answers'[r]) <= 1
        <4>1. Len(answers'[r]) = Len(answers'[r0])
          BY <2>1
        <4> QED
          BY <1>10, <4>1
      <3> QED
        BY <3>1, <3>2, <3>3
    <2>2. CASE r # r0
      BY <1>0, <1>6, <1>7, <1>10, <1>11, <2>2 DEF Unanswered
    <2> QED
      BY <2>1, <2>2
  <1>13. Freed'
    <2> SUFFICES ASSUME restarts' = 0, NEW r \in Requests
                 PROVE  frees'[r] = IF r <= arrived' /\ ~Held(r)' /\ ~InHand(r)'
                                          /\ ~InQueue(r)'
                                    THEN 1 ELSE 0
      BY DEF Freed
    <2>1. frees[r] = IF r <= arrived /\ ~Held(r) /\ ~InHand(r) /\ ~InQueue(r)
                     THEN 1 ELSE 0
      BY <1>0, <1>11 DEF Freed
    <2>2. CASE r = r0
      BY <1>4, <1>5, <1>6, <1>7, <1>10, <1>11, <2>1, <2>2
    <2>3. CASE r # r0
      BY <1>6, <1>7, <1>10, <1>11, <2>1, <2>3
    <2> QED
      BY <2>2, <2>3
  <1> QED
    BY <1>9, <1>12, <1>13

LEMMA PlacesKept == IInv /\ [Next]_vars => (OnePlace /\ Unanswered /\ Freed)'
  <1> SUFFICES ASSUME IInv, [Next]_vars PROVE (OnePlace /\ Unanswered /\ Freed)'
    OBVIOUS
  <1>1. ASSUME \/ \E created \in BOOLEAN : Spawn(created)
               \/ Restart \/ ResetFree \/ ResetWake
               \/ \E n \in Requests : TimeOut(n) \/ ClearID(n)
               \/ \E n \in Requests : Loop(n) /\ ~respRecvd[kind[n]]
               \/ \E r \in Requests, answer \in {"accept", "deny"} : Respond(r, answer)
               \/ FwFinishes
               \/ UNCHANGED vars
        PROVE  (OnePlace /\ Unanswered /\ Freed)'
    <2>1. UNCHANGED placeVars /\ (UNCHANGED <<frees, restarts>> \/ restarts' > 0)
      BY <1>1, QuietSteps
    <2> QED
      BY <2>1, QuietKeepsPlaces
  <1>2. ASSUME NEW n \in Requests, Loop(n), respRecvd[kind[n]]
        PROVE  (OnePlace /\ Unanswered /\ Freed)'
    <2>1. Finish(n, resp[kind[n]]) /\ thread[n] \notin {"clear", "send"}
      BY <1>2 DEF Loop
    <2>2. UNCHANGED <<outbox, answers, arrived, restarts>>
      BY <1>2 DEF Loop, requestVars, taskVars
    <2>3. resp[kind[n]] \in Responses \cup {"zero"}
      BY DEF IInv, Types
    <2> QED
      BY <2>1, <2>2, <2>3, FinishKeepsPlaces
  <1>3. ASSUME NEW n \in Requests, TimedOut(n)
        PROVE  (OnePlace /\ Unanswered /\ Freed)'
    <2>1. Finish(n, "noresp") /\ thread[n] \notin {"clear", "send"}
      BY <1>3 DEF TimedOut
    <2>2. UNCHANGED <<outbox, answers, arrived, restarts>>
      BY <1>3 DEF TimedOut, requestVars, taskVars
    <2>3. "noresp" \in Responses \cup {"zero"}
      BY DEF Responses
    <2> QED
      BY <2>1, <2>2, <2>3, FinishKeepsPlaces
  <1> QED
    BY <1>1, <1>2, <1>3, IgnoreKeepsPlaces, TakeKeepsPlaces, NullifyKeepsPlaces,
       SendKeepsPlaces, DeliverKeepsPlaces
       DEF Next, TaskFinishes, ThreadStep

-----------------------------------------------------------------------------
(* A thread between its creation and the end of its loop. *)
Alive == {"failed", "start", "waiting", "woken", "timedout"}

(* A wake-up leaves a request its thread and a message its carrier. *)
LEMMA WakeKeepsThreads ==
    ASSUME Types, Carrying, SessionHasThread, NEW s \in Sessions, Signal(s),
           UNCHANGED <<rawRequest, msg>>
    PROVE  /\ Carrying'
           /\ \A n \in Requests : thread[n] = "none" => thread'[n] = "none"
           /\ \A t \in Sessions : rawRequest[t] # None =>
                 (task = "spawn" /\ cur = t) \/ thread'[rawRequest[t]] \in Alive
  <1>1. \A n \in Requests :
           thread'[n] # thread[n] => thread[n] = "waiting" /\ thread'[n] = "woken"
    BY SignalKeeps
  <1>2. Carrying'
    BY <1>1 DEF Carrying
  <1>3. \A t \in Sessions : rawRequest[t] # None => rawRequest[t] \in Requests
    BY DEF Types
  <1> QED
    BY <1>1, <1>2, <1>3 DEF SessionHasThread, Alive

(* Its own request, if a session still holds it, has left the session. *)
LEMMA FinishKeepsControl ==
    ASSUME IInv, NEW n \in Requests, NEW a \in Responses \cup {"zero"},
           thread[n] # "none", Finish(n, a),
           UNCHANGED <<arrived, kind, task, cur, restarts>>
    PROVE  Control'
  <1>0. Types /\ Control
    BY DEF IInv
  <1>1. /\ rawRequest' = [rawRequest EXCEPT ![kind[n]] = None]
        /\ thread' = [thread EXCEPT ![n] = "clear"]
        /\ \A m \in Requests : m # n => msg'[m] = msg[m]
    BY <1>0 DEF Finish, Types
  <1>2. kind[n] \in Sessions
    BY <1>0 DEF Types
  <1>3. \A s \in Sessions : rawRequest'[s] # None =>
           s # kind[n] /\ rawRequest'[s] = rawRequest[s] /\ rawRequest[s] \in Requests
    BY <1>0, <1>1, <1>2, Numbers DEF Types
  <1>4. HoldsItsKind'
    BY <1>0, <1>3 DEF Control, HoldsItsKind
  <1>5. Spawning' /\ Resetting'
    BY <1>0, <1>3 DEF Control, Spawning, Resetting, Types
  <1>6. Carrying'
    BY <1>0, <1>1 DEF Control, Carrying, Types
  <1>7. Unborn'
    BY <1>0, <1>1 DEF Control, Unborn, Types
  <1>8. SessionHasThread'
    <2> SUFFICES ASSUME NEW s \in Sessions, rawRequest'[s] # None
                 PROVE  \/ task' = "spawn" /\ cur' = s
                        \/ thread'[rawRequest'[s]] \in Alive
      BY DEF SessionHasThread, Alive
    <2>1. rawRequest[s] # n
      BY <1>0, <1>3 DEF Control, HoldsItsKind
    <2>2. thread'[rawRequest[s]] = thread[rawRequest[s]]
      BY <1>0, <1>1, <1>3, <2>1 DEF Types
    <2> QED
      BY <1>0, <1>3, <2>2 DEF Control, SessionHasThread, Alive
  <1> QED
    BY <1>4, <1>5, <1>6, <1>7, <1>8 DEF Control

(* Who works on what, step by step. *)
LEMMA ControlKept == IInv /\ [Next]_vars => Control'
  <1> SUFFICES ASSUME IInv, [Next]_vars PROVE Control'
    OBVIOUS
  <1>0. Types /\ Control
    BY DEF IInv
  <1> USE Numbers
  <1> USE DEF Control, HoldsItsKind, Spawning, Resetting, Unborn
  <1>1. ASSUME NEW s \in Sessions, Ignore(s) PROVE Control'
    <2>1. /\ UNCHANGED <<rawRequest, thread, msg, task, cur, restarts>>
          /\ arrived' = arrived + 1 /\ arrived \in Nat /\ task = "idle"
          /\ kind' = [kind EXCEPT ![arrived'] = s]
      BY <1>0, <1>1 DEF Ignore, sessionVars, threadVars, taskVars, Types
    <2>2. \A n \in Requests : n # arrived' => kind'[n] = kind[n]
      BY <1>0, <2>1 DEF Types
    <2>3. HoldsItsKind'
      BY <1>0, <2>1, <2>2 DEF Types, Requests
    <2> QED
      BY <1>0, <2>1, <2>3 DEF Carrying, SessionHasThread, Requests
  <1>2. ASSUME NEW s \in Sessions, Take(s) PROVE Control'
    <2>1. /\ UNCHANGED <<thread, msg, restarts>>
          /\ arrived' = arrived + 1 /\ arrived \in Nat /\ arrived' \in Requests
          /\ kind' = [kind EXCEPT ![arrived'] = s]
          /\ rawRequest' = [rawRequest EXCEPT ![s] = arrived']
          /\ task' = "spawn" /\ cur' = s /\ task = "idle"
      BY <1>0, <1>2 DEF Take, threadVars, Types, Requests
    <2>2. HoldsItsKind'
      BY <1>0, <2>1 DEF Types, Requests
    <2>3. SessionHasThread'
      BY <1>0, <2>1 DEF Types, SessionHasThread
    <2>4. Spawning' /\ Carrying' /\ Resetting'
      BY <1>0, <2>1 DEF Types, Carrying
    <2>5. Unborn'
      BY <1>0, <2>1 DEF Types, Requests
    <2> QED
      BY <2>2, <2>3, <2>4, <2>5
  <1>3. ASSUME Restart PROVE Control'
    <2>1. UNCHANGED <<rawRequest, arrived, kind, thread, msg>>
      BY <1>3 DEF Restart, sessionVars, requestVars, threadVars
    <2>2. task' = "reset" /\ restarts' > 0 /\ task # "spawn"
      BY <1>0, <1>3 DEF Restart, Types
    <2> QED
      BY <1>0, <2>1, <2>2 DEF Carrying, SessionHasThread
  <1>4. ASSUME NEW created \in BOOLEAN, Spawn(created) PROVE Control'
    <2>1. /\ UNCHANGED <<rawRequest, arrived, kind, msg, cur, restarts>>
          /\ task = "spawn" /\ task' = "idle" /\ arrived \in Requests
          /\ thread' = [thread EXCEPT ![arrived] =
                           IF created THEN "start" ELSE "failed"]
      BY <1>0, <1>4 DEF Spawn, sessionVars, Types, Requests
    <2>2. Carrying'
      BY <1>0, <2>1 DEF Types, Carrying
    <2>3. SessionHasThread'
      BY <1>0, <2>1 DEF Types, SessionHasThread
    <2>4. Unborn'
      BY <1>0, <2>1 DEF Types, Requests
    <2> QED
      BY <1>0, <2>1, <2>2, <2>3, <2>4
  <1>5. ASSUME ResetFree PROVE Control'
    <2>1. /\ UNCHANGED <<rawRequest, arrived, kind, thread, msg, restarts>>
          /\ task # "spawn" /\ task' # "spawn" /\ restarts # 0
      BY <1>0, <1>5 DEF ResetFree, ResetNext, sessionVars, requestVars, threadVars
    <2> QED
      BY <1>0, <2>1 DEF Carrying, SessionHasThread
  <1>6. ASSUME ResetNullify PROVE Control'
    <2>1. /\ UNCHANGED <<arrived, kind, thread, msg, restarts>>
          /\ rawRequest' = [rawRequest EXCEPT ![cur] = None]
          /\ task # "spawn" /\ task' # "spawn" /\ restarts # 0
      BY <1>0, <1>6 DEF ResetNullify, requestVars, threadVars
    <2>2. \A s \in Sessions : rawRequest'[s] # None => rawRequest'[s] = rawRequest[s]
      BY <1>0, <2>1 DEF Types
    <2> QED
      BY <1>0, <2>1, <2>2 DEF Carrying, SessionHasThread
  <1>7. ASSUME ResetWake PROVE Control'
    <2>1. /\ UNCHANGED <<rawRequest, arrived, kind, msg, restarts>>
          /\ task # "spawn" /\ task' # "spawn" /\ restarts # 0 /\ Signal(cur)
      BY <1>0, <1>7 DEF ResetWake, ResetNext, SetResponse, requestVars
    <2>2. cur \in Sessions
      BY <1>0 DEF Types
    <2> QED
      BY <1>0, <2>1, <2>2, WakeKeepsThreads DEF SessionHasThread, Alive
  <1>8. ASSUME Deliver PROVE Control'
    <2>1. UNCHANGED <<rawRequest, arrived, kind, thread, msg, task, cur, restarts>>
      BY <1>8 DEF Deliver, sessionVars, requestVars, threadVars, taskVars
    <2> QED
      BY <1>0, <2>1 DEF Carrying, SessionHasThread
  <1>9. ASSUME NEW n \in Requests, Loop(n) PROVE Control'
    <2>1. UNCHANGED <<arrived, kind, task, cur, restarts>>
      BY <1>9 DEF Loop, requestVars, taskVars
    <2>2. CASE respRecvd[kind[n]]
      <3>1. /\ Finish(n, resp[kind[n]]) /\ resp[kind[n]] \in Responses \cup {"zero"}
            /\ thread[n] # "none"
        BY <1>0, <1>9, <2>2 DEF Loop, Types
      <3> QED
        BY <2>1, <3>1, FinishKeepsControl
    <2>3. CASE ~respRecvd[kind[n]]
      <3>1. /\ UNCHANGED <<rawRequest, msg>> /\ thread[n] \in {"start", "woken"}
            /\ thread' = [thread EXCEPT ![n] = "waiting"]
        BY <1>9, <2>3 DEF Loop, CondWait
      <3>2. Carrying' /\ SessionHasThread'
        BY <1>0, <2>1, <3>1 DEF Carrying, SessionHasThread, Types
      <3> QED
        BY <1>0, <2>1, <3>1, <3>2
    <2> QED
      BY <2>2, <2>3
  <1>10. ASSUME NEW n \in Requests, TimeOut(n) PROVE Control'
    <2>1. /\ UNCHANGED <<rawRequest, msg, arrived, kind, task, cur, restarts>>
          /\ thread[n] = "waiting" /\ thread' = [thread EXCEPT ![n] = "timedout"]
      BY <1>10 DEF TimeOut, sessionVars, requestVars, taskVars
    <2>2. Carrying' /\ SessionHasThread'
      BY <1>0, <2>1 DEF Carrying, SessionHasThread, Types
    <2> QED
      BY <1>0, <2>1, <2>2
  <1>11. ASSUME NEW n \in Requests, TimedOut(n) PROVE Control'
    <2>1. UNCHANGED <<arrived, kind, task, cur, restarts>>
      BY <1>11 DEF TimedOut, requestVars, taskVars
    <2>2. /\ Finish(n, "noresp") /\ "noresp" \in Responses \cup {"zero"}
          /\ thread[n] # "none"
      BY <1>11 DEF TimedOut, Responses
    <2> QED
      BY <2>1, <2>2, FinishKeepsControl
  <1>12. ASSUME NEW n \in Requests, ClearID(n) PROVE Control'
    <2>1. /\ UNCHANGED <<rawRequest, msg, arrived, kind, task, cur, restarts>>
          /\ thread[n] = "clear" /\ thread' = [thread EXCEPT ![n] = "send"]
      BY <1>12 DEF ClearID, requestVars, taskVars
    <2>2. Carrying' /\ SessionHasThread'
      BY <1>0, <2>1 DEF Carrying, SessionHasThread, Types
    <2> QED
      BY <1>0, <2>1, <2>2
  <1>13. ASSUME NEW n \in Requests, SendResponse(n) PROVE Control'
    <2>1. /\ UNCHANGED <<rawRequest, arrived, kind, task, cur, restarts>>
          /\ msg' = [msg EXCEPT ![n] = None]
          /\ thread[n] = "send" /\ thread' = [thread EXCEPT ![n] = "done"]
      BY <1>13 DEF SendResponse, sessionVars, requestVars, taskVars
    <2>2. Carrying' /\ SessionHasThread'
      BY <1>0, <2>1 DEF Carrying, SessionHasThread, Types
    <2> QED
      BY <1>0, <2>1, <2>2
  <1>14. ASSUME NEW r \in Requests, NEW answer \in {"accept", "deny"}, Respond(r, answer)
         PROVE Control'
    <2>1. UNCHANGED <<rawRequest, arrived, kind, thread, msg, task, cur, restarts>>
      BY <1>14 DEF Respond, sessionVars, requestVars, threadVars, taskVars
    <2> QED
      BY <1>0, <2>1 DEF Carrying, SessionHasThread
  <1>15. ASSUME RespondIgnore \/ RespondAnswer PROVE Control'
    <2>1. /\ UNCHANGED <<rawRequest, arrived, kind, msg, task, cur, restarts>>
          /\ \E s \in Sessions : Signal(s)
      BY <1>0, <1>15 DEF RespondIgnore, RespondAnswer, SetResponse, requestVars,
                         taskVars, Types, Sessions
    <2> QED
      BY <1>0, <2>1, WakeKeepsThreads DEF SessionHasThread, Alive
  <1>16. CASE UNCHANGED vars
    BY <1>0, <1>16 DEF Carrying, SessionHasThread, vars, sessionVars, requestVars,
                       threadVars, taskVars
  <1> QED
    BY <1>1, <1>2, <1>3, <1>4, <1>5, <1>6, <1>7, <1>8, <1>9, <1>10, <1>11, <1>12,
       <1>13, <1>14, <1>15, <1>16
       DEF Next, TaskFinishes, ThreadStep, FwFinishes

-----------------------------------------------------------------------------
LEMMA ImpliesSettledOnce == IInv => SettledOnce
  <1> SUFFICES ASSUME IInv PROVE SettledOnce
    OBVIOUS
  <1>0. Types /\ Control /\ OnePlace /\ Unanswered /\ Freed
    BY DEF IInv
  <1>1. \A r \in Requests : OnItsWay(r) <=> InHand(r) \/ InQueue(r)
    BY DEF OnItsWay, InHand, InQueue
  <1>2. \A r \in Requests : Len(answers[r]) <= MaxRequests
    BY <1>0, Numbers DEF Unanswered, Types, Requests
  <1>3. TypeOK
    BY <1>0, <1>2 DEF TypeOK, Types, Control, HoldsItsKind
  <1>4. AnsweredOnce
    BY <1>0, <1>1 DEF AnsweredOnce, Unanswered
  <1>5. PayloadFreedOnce
    BY <1>0, <1>1, Numbers DEF PayloadFreedOnce, Freed, Types, Requests
  <1> QED
    BY <1>0, <1>3, <1>4, <1>5 DEF SettledOnce, Control

(* Every request is settled once: the modem gets one answer at most and no *)
(* other is on its way, its payload is freed exactly once until the engine *)
(* restarts, and a session that holds a request has a thread for it, for   *)
(* any number of requests and restarts and however the MsgTask, the        *)
(* framework and the requests' threads interleave.                         *)
THEOREM RequestsSettleOnce == Spec => []SettledOnce
  <1>1. IInv /\ [Next]_vars => IInv'
    BY TypesKept, ControlKept, PlacesKept DEF IInv
  <1> QED
    BY Begins, <1>1, ImpliesSettledOnce, PTL DEF Spec
=============================================================================
