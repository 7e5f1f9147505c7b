---------------------------- MODULE MsgTask_proofs ----------------------------
(***************************************************************************)
(* Proofs about MsgTask for any set of messages: the owner and the worker  *)
(* agree on who frees the task, its queue and the messages in it.          *)
(***************************************************************************)
EXTENDS MsgTask, TLAPS

USE MsgTaskAssumption

(* The types of the threads' variables that the argument rests on.  The    *)
(* reference count is not among them: who frees the task does not depend   *)
(* on who frees the delegate of its thread.                                *)
ThreadTypes ==
    /\ mThread \in {Worker, None}
    /\ mRunnable \in [{Worker} -> BOOLEAN]
    /\ runnable \in [{Worker} -> T!Lives]
    /\ answer \in [{Worker} -> {"none", "started", "failed"}]
    /\ pc \in [{Worker, Client} -> T!PcOfClient \cup T!PcOfWorker]
    /\ pc[Client] \in T!PcOfClient
    /\ pc[Worker] \in T!PcOfWorker
    /\ arg \in {Worker, None}

(* The types of the queue's variables, and the part of its ownership that  *)
(* the task needs: a received message is the one in the worker's hands.    *)
QueueTypes ==
    /\ msg_list \in Seq(Msgs)
    /\ unblocked \in BOOLEAN
    /\ rcv \in [{Worker} -> Q!RcvStates]
    /\ msg_obj \in [{Worker} -> Msgs \cup {NoMsg}]
    /\ fate \in [Msgs -> Q!Fates]

InHand ==
    /\ rcv[Worker] = "busy" => msg_obj[Worker] \in Msgs
    /\ \A m \in Msgs :
          fate[m] = "received" => rcv[Worker] = "busy" /\ msg_obj[Worker] = m

(* Where the owner stands says what its thread object looks like.          *)
NotRun == answer[Worker] = "failed" /\ pc[Worker] = "unborn"

OwnerStands ==
    /\ opc = "new" =>
          /\ ~hasThread
          /\ pc[Client] = "idle"
          /\ pc[Worker] = "unborn"
          /\ answer[Worker] = "none"
          /\ mThread = None
          /\ runnable[Worker] = "unborn"
    /\ opc = "ctor" =>
          /\ ~hasThread
          /\ call = "start"
          /\ arg = Worker
          /\ pc[Client] \in {"idle", "create", "destroy", "drop", "delete", "return"}
          /\ pc[Client] # "idle" => mThread = None
          /\ pc[Client] \notin {"idle", "create"} => pc[Worker] = "unborn"
          /\ pc[Client] = "idle" /\ mThread = None => NotRun
    /\ opc \in {"idle", "unblock"} =>
          IF hasThread THEN pc[Client] = "idle" /\ mThread = Worker
                       ELSE pc[Client] = "gone" /\ NotRun
    /\ opc \in {"clear", "release"} => pc[Client] = "idle" /\ mThread = Worker
    /\ opc = "leaving" => pc[Client] # "create" /\ call = "dtor"
    /\ opc \in {"delete", "deleted"} => pc[Client] = "gone" /\ NotRun

(* The worker comes out of run() for good only because destroy() has       *)
(* unblocked the queue, and its runnable is cleared only after that.       *)
WorkerStands ==
    /\ unblocked <=> opc \in {"clear", "release", "leaving", "delete", "deleted"}
    /\ rcv[Worker] = "failed" => unblocked
    /\ pc[Worker] # "run" => rcv[Worker] \in {"out", "failed"}
    /\ pc[Worker] # "unborn" /\ ~unblocked =>
          /\ mRunnable[Worker]
          /\ pc[Worker] \in {"entry", "pretest", "prerun", "looptest", "run"}

(* The queue dies with the task, and the task at the hands of one thread.  *)
Gone ==
    /\ queue = (IF Deleted THEN "destroyed" ELSE "live")
    /\ Deleted => \/ opc = "deleted"
                  \/ pc[Worker] \in {"destroy", "drop", "delete", "exited"}

(* The inductive invariant.  That the queue outlives its users and that    *)
(* nothing is stranded are facts about two threads that never look at each *)
(* other: what connects them is unblocked, which destroy() sets before it  *)
(* lets the worker go and without which the worker does not leave run().   *)
IInv ==
    /\ ThreadTypes
    /\ QueueTypes
    /\ InHand
    /\ OwnerStands
    /\ WorkerStands
    /\ Gone
    /\ hasThread \in BOOLEAN
    /\ opc \in Places
    /\ MessagesSettled

(* It implies the property the runs check. *)
LEMMA IInvImplies == IInv => QueueSafety
<1> SUFFICES ASSUME IInv PROVE QueueSafety
  OBVIOUS
<1> USE DEF IInv, OwnerStands, WorkerStands, Gone, NotRun, Places, Deleted
<1>1. TypeOK
  BY DEF TypeOK
<1>2. QueueOutlivesUsers
  BY DEF QueueOutlivesUsers
<1>3. DeletedOnce
  BY DEF DeletedOnce
<1> QED BY <1>1, <1>2, <1>3 DEF QueueSafety

(* It holds before the task is made. *)
LEMMA InitIInv == Init => IInv
<1> SUFFICES ASSUME Init PROVE IInv
  OBVIOUS
<1> USE DEF Init, T!ThreadInit, Q!QueueInit
<1>1. ThreadTypes
  BY DEF ThreadTypes, T!Threads, T!PcOfClient, T!PcOfWorker, T!Lives
<1>2. QueueTypes
  <2>1. msg_list \in Seq(Msgs)
    OBVIOUS
  <2> QED BY <2>1 DEF QueueTypes, Q!RcvStates, Q!Fates
<1>3. InHand
  BY DEF InHand
<1>4. OwnerStands
  BY DEF OwnerStands, T!Threads
<1>5. WorkerStands
  BY DEF WorkerStands, T!Threads
<1>6. Gone /\ MessagesSettled
  BY DEF Gone, Deleted, MessagesSettled
<1> QED BY <1>1, <1>2, <1>3, <1>4, <1>5, <1>6 DEF IInv, Places

-----------------------------------------------------------------------------
(* The steps.  The queue's actions first: what they do to the types and to *)
(* the message in hand, whoever runs them.                                 *)

(* msg_q_snd(): the queue only gets longer, and a waiting worker is woken. *)
LEMMA SndStep ==
    ASSUME IInv, NEW m \in Msgs, Q!Snd(m)
    PROVE  /\ QueueTypes'
           /\ InHand'
           /\ UNCHANGED <<unblocked, msg_obj>>
           /\ \/ rcv'[Worker] = rcv[Worker]
              \/ rcv[Worker] = "waiting" /\ rcv'[Worker] = "woken"
           /\ unblocked => fate' = [fate EXCEPT ![m] = "rejected"]
<1> USE DEF IInv, QueueTypes, InHand, Q!RcvStates, Q!Fates
<1>1. ASSUME Q!Signal
      PROVE  /\ rcv' \in [{Worker} -> Q!RcvStates]
             /\ \/ rcv'[Worker] = rcv[Worker]
                \/ rcv[Worker] = "waiting" /\ rcv'[Worker] = "woken"
  BY <1>1 DEF Q!Signal, Q!Waiting
<1>2. CASE Q!SndRefused(m)
  BY <1>2 DEF Q!SndRefused
<1>3. CASE Q!SndStored(m)
  <2>1. Append(msg_list, m) \in Seq(Msgs)
    OBVIOUS
  <2> QED BY <1>1, <1>3, <2>1 DEF Q!SndStored
<1>4. CASE Q!SndNoMemory(m)
  BY <1>1, <1>4 DEF Q!SndNoMemory
<1> QED BY <1>2, <1>3, <1>4 DEF Q!Snd

(* msg_q_rcv(), from its call or from a wait: the worker has a message, or *)
(* waits, or fails, and it fails only on an unblocked queue.               *)
LEMMA RcvStep ==
    ASSUME IInv, Q!Rcv(Worker) \/ Q!RcvWake(Worker)
    PROVE  /\ QueueTypes'
           /\ InHand'
           /\ UNCHANGED unblocked
           /\ rcv'[Worker] \in {"busy", "waiting", "failed"}
           /\ rcv'[Worker] = "failed" => unblocked
           /\ \A m \in Msgs : fate'[m] \in {fate[m], "received"}
<1> USE DEF IInv, QueueTypes, InHand, Q!RcvStates, Q!Fates
<1>1. rcv[Worker] # "busy"
  BY DEF Q!Rcv, Q!RcvWake
<1>2. CASE Q!Remove(Worker)
  <2>1. /\ Head(msg_list) \in Msgs
        /\ Tail(msg_list) \in Seq(Msgs)
    BY <1>2 DEF Q!Remove
  <2> QED BY <1>1, <1>2, <2>1 DEF Q!Remove
<1>3. CASE Q!Fail(Worker) /\ unblocked
  BY <1>1, <1>3 DEF Q!Fail
<1>4. CASE Q!CondWait(Worker)
  BY <1>1, <1>4 DEF Q!CondWait
<1> QED BY <1>2, <1>3, <1>4 DEF Q!Rcv, Q!RcvWake

(* The worker deletes the message it has handled. *)
LEMMA DeleteStep ==
    ASSUME IInv, Q!Delete(Worker)
    PROVE  /\ QueueTypes'
           /\ InHand'
           /\ UNCHANGED unblocked
           /\ rcv[Worker] = "busy"
           /\ rcv'[Worker] = "out"
           /\ \A m \in Msgs : fate'[m] \in {fate[m], "deleted"}
  BY DEF Q!Delete, IInv, QueueTypes, InHand, Q!RcvStates, Q!Fates

(* ~MsgTask(): with no message in a worker's hands, every message that was *)
(* sent is deleted or was refused.                                         *)
LEMMA DtorStep ==
    ASSUME IInv, Dtor, rcv[Worker] # "busy"
    PROVE  /\ QueueTypes'
           /\ InHand'
           /\ UNCHANGED <<unblocked, rcv>>
           /\ queue' = "destroyed"
           /\ \A m \in Msgs : fate'[m] \in {"unsent", "deleted", "rejected"}
<1> USE DEF IInv, QueueTypes, InHand, Q!RcvStates, Q!Fates
<1>1. msg_list' \in Seq(Msgs)
  BY DEF Dtor, Q!Flush
<1> QED BY <1>1 DEF Dtor, Q!Flush

(* A step that leaves the queue and the task's memory alone leaves most of *)
(* the invariant to the threads.                                           *)
LEMMA ThreadStep ==
    ASSUME IInv, UNCHANGED <<queueVars, queue, runnable>>,
           ThreadTypes', OwnerStands', WorkerStands',
           hasThread' \in BOOLEAN, opc' \in Places,
           Deleted => \/ opc' = "deleted"
                      \/ pc'[Worker] \in {"destroy", "drop", "delete", "exited"}
    PROVE  IInv'
<1>1. QueueTypes' /\ InHand' /\ MessagesSettled'
  BY DEF IInv, QueueTypes, InHand, MessagesSettled, Deleted, queueVars
<1>2. Gone'
  BY DEF IInv, Gone, Deleted
<1> QED BY <1>1, <1>2 DEF IInv

(* LocThreadDelegate::destroy(), run by the owner or by the worker, moves  *)
(* only the count and the thread that runs it.                             *)
LEMMA DestroyStep ==
    ASSUME IInv, NEW t \in {Worker, Client}, T!Destroy(t),
           UNCHANGED <<queueVars, ownVars>>
    PROVE  IInv'
<1>0. /\ ThreadTypes /\ OwnerStands /\ WorkerStands /\ Gone
      /\ hasThread \in BOOLEAN /\ opc \in Places
  BY DEF IInv
<1>1. /\ pc[t] \in {"destroy", "drop", "delete"}
      /\ pc' = [pc EXCEPT ![t] = pc'[t]]
      /\ pc'[t] \in {"drop", "delete", T!Leave(t)}
      /\ UNCHANGED <<mThread, mRunnable, runnable, answer, arg, call>>
  BY <1>0 DEF T!Destroy, T!DestroyTest, T!DestroyDrop, T!DestroyDelete, T!Goto,
              T!delegateVars, T!callVars, ThreadTypes
<1>2. ThreadTypes'
  BY <1>0, <1>1 DEF ThreadTypes, T!PcOfClient, T!PcOfWorker, T!Leave
<1>3. OwnerStands' /\ WorkerStands'
  BY <1>0, <1>1 DEF ThreadTypes, OwnerStands, WorkerStands, NotRun, T!Leave,
                    ownVars, queueVars
<1>4. Deleted => opc' = "deleted" \/ pc'[Worker] \in {"destroy", "drop", "delete", "exited"}
  BY <1>0, <1>1 DEF ThreadTypes, Gone, T!Leave, ownVars
<1> QED BY <1>0, <1>1, <1>2, <1>3, <1>4, ThreadStep DEF ownVars

(* The owner's steps inside LocThread's start() and destructor. *)
LEMMA InLocThreadStep == ASSUME IInv, InLocThread PROVE IInv'
<1>0. /\ ThreadTypes /\ OwnerStands /\ WorkerStands /\ Gone
      /\ hasThread \in BOOLEAN /\ opc \in Places
  BY DEF IInv
<1>1. UNCHANGED <<queueVars, ownVars>>
  BY DEF InLocThread
<1>2. CASE T!Destroy(Client)
  BY <1>1, <1>2, DestroyStep
<1>3. ASSUME T!CreateTest \/ T!StopRunnable \/ T!Join \/ T!Return
      PROVE  ThreadTypes' /\ OwnerStands' /\ WorkerStands' /\ UNCHANGED runnable
                /\ pc'[Worker] = pc[Worker]
  <2> USE DEF T!Goto, T!delegateVars, T!callVars, ThreadTypes, OwnerStands,
              WorkerStands, NotRun, T!PcOfClient, T!PcOfWorker, ownVars, queueVars,
              Places
  <2>1. CASE T!CreateTest
    BY <1>0, <1>1, <2>1 DEF T!CreateTest
  <2>2. CASE T!StopRunnable
    BY <1>0, <1>1, <2>2 DEF T!StopRunnable
  <2>3. CASE T!Join
    BY <1>0, <1>1, <2>3 DEF T!Join
  <2>4. CASE T!Return
    BY <1>0, <1>1, <2>4 DEF T!Return
  <2> QED BY <1>3, <2>1, <2>2, <2>3, <2>4
<1>4. ASSUME T!CreateTest \/ T!StopRunnable \/ T!Join \/ T!Return PROVE IInv'
  BY <1>0, <1>1, <1>3, <1>4, ThreadStep DEF Gone, ownVars
<1> QED BY <1>2, <1>4 DEF InLocThread, T!ClientFinishes

(* The owner's own steps, in MsgTask() and in destroy(). *)
LEMMA OwnerStep ==
    ASSUME IInv, \/ \E joinable, created \in BOOLEAN : Ctor(joinable, created)
                 \/ Started \/ NotStarted \/ Destroy
                 \/ UnblockQueue \/ ClearThread \/ DeleteThread
    PROVE  IInv'
<1>0. /\ ThreadTypes /\ OwnerStands /\ WorkerStands /\ Gone
      /\ hasThread \in BOOLEAN /\ opc \in Places
  BY DEF IInv
<1> USE DEF T!Goto, T!delegateVars, T!callVars, ThreadTypes, OwnerStands,
            WorkerStands, NotRun, ownVars, queueVars, threadVars, objectVars, Places,
            T!PcOfClient, T!PcOfWorker, T!Lives
<1>1. ASSUME NEW joinable \in BOOLEAN, NEW created \in BOOLEAN,
             Ctor(joinable, created)
      PROVE  IInv'
  <2>1. /\ ThreadTypes' /\ OwnerStands' /\ WorkerStands'
        /\ ~Deleted /\ ~Deleted'
        /\ opc' = "ctor"
    BY <1>0, <1>1 DEF Ctor, T!Construct, Deleted
  <2>2. QueueTypes' /\ InHand' /\ Gone' /\ MessagesSettled' /\ hasThread' \in BOOLEAN
    BY <1>0, <1>1, <2>1 DEF Ctor, IInv, QueueTypes, InHand, Gone, MessagesSettled
  <2> QED BY <2>1, <2>2 DEF IInv
<1>2. CASE Started
  BY <1>0, <1>2, ThreadStep DEF Started, Gone
<1>3. CASE NotStarted
  BY <1>0, <1>3, ThreadStep DEF NotStarted, T!Dtor, Gone
<1>4. CASE Destroy
  BY <1>0, <1>4, ThreadStep DEF Destroy, Gone
<1>5. CASE UnblockQueue
  <2>1. /\ ThreadTypes'
        /\ QueueTypes'
        /\ unblocked' = TRUE
        /\ rcv'[Worker] \in {rcv[Worker], "woken"}
        /\ rcv[Worker] # "waiting" => rcv'[Worker] = rcv[Worker]
        /\ opc' = IF hasThread THEN "clear" ELSE "delete"
        /\ UNCHANGED <<mThread, runnable, pc, fate, queue, hasThread, answer>>
    BY <1>5 DEF UnblockQueue, Q!Unblock, IInv, QueueTypes, Q!RcvStates
  <2>2. OwnerStands' /\ WorkerStands'
    BY <1>0, <1>5, <2>1 DEF UnblockQueue
  <2>3. InHand'
    BY <1>5, <2>1 DEF UnblockQueue, Q!Unblock, IInv, InHand
  <2>4. Gone' /\ MessagesSettled'
    BY <1>0, <1>5, <2>1 DEF UnblockQueue, IInv, Gone, MessagesSettled, Deleted
  <2> QED BY <1>0, <2>1, <2>2, <2>3, <2>4 DEF IInv
<1>6. CASE ClearThread
  BY <1>0, <1>6, ThreadStep DEF ClearThread, Gone
<1>7. CASE DeleteThread
  BY <1>0, <1>7, ThreadStep DEF DeleteThread, T!Dtor, Gone
<1> QED BY <1>1, <1>2, <1>3, <1>4, <1>5, <1>6, <1>7

(* delete this, in a destroy() without a thread, and delete runnable in    *)
(* threadMain(): the two ways the task goes.                               *)
LEMMA GoneStep == ASSUME IInv, DeleteThis \/ Reap PROVE IInv'
<1>0. /\ ThreadTypes /\ OwnerStands /\ WorkerStands /\ Gone
      /\ hasThread \in BOOLEAN /\ opc \in Places
  BY DEF IInv
<1>1. Dtor /\ rcv[Worker] # "busy"
  BY <1>0 DEF DeleteThis, Reap, T!Reap, OwnerStands, WorkerStands, NotRun
<1>2. /\ QueueTypes' /\ InHand'
      /\ UNCHANGED <<unblocked, rcv>>
      /\ queue' = "destroyed"
      /\ \A m \in Msgs : fate'[m] \in {"unsent", "deleted", "rejected"}
  BY <1>1, DtorStep
<1>3. /\ ThreadTypes' /\ Deleted'
      /\ UNCHANGED <<mThread, mRunnable, answer, arg, call, hasThread>>
      /\ \/ opc = "delete" /\ opc' = "deleted" /\ UNCHANGED pc
         \/ pc[Worker] = "reap" /\ pc' = [pc EXCEPT ![Worker] = "destroy"]
               /\ UNCHANGED opc
  BY <1>0 DEF DeleteThis, Reap, T!Reap, T!Goto, T!delegateVars, T!callVars, objectVars,
              ThreadTypes, T!Lives, T!PcOfWorker, Deleted
<1>4. OwnerStands' /\ WorkerStands' /\ opc' \in Places
  BY <1>0, <1>2, <1>3 DEF ThreadTypes, OwnerStands, WorkerStands, NotRun, Places
<1>5. Gone'
  BY <1>0, <1>2, <1>3 DEF ThreadTypes, Gone
<1> QED BY <1>0, <1>2, <1>3, <1>4, <1>5 DEF IInv, MessagesSettled

(* sendMsg(), by the owner or by the proc() of a message.  Once the task   *)
(* is gone the queue has been unblocked, and refuses it.                   *)
LEMMA SendStep == ASSUME IInv, NEW m \in Msgs, SendMsg(m) PROVE IInv'
<1>0. /\ ThreadTypes /\ OwnerStands /\ WorkerStands /\ Gone
      /\ hasThread \in BOOLEAN /\ opc \in Places
  BY DEF IInv
<1>1. Q!Snd(m) /\ UNCHANGED <<threadVars, ownVars>>
  BY DEF SendMsg
<1>2. /\ QueueTypes' /\ InHand'
      /\ UNCHANGED <<unblocked, msg_obj>>
      /\ \/ rcv'[Worker] = rcv[Worker]
         \/ rcv[Worker] = "waiting" /\ rcv'[Worker] = "woken"
      /\ unblocked => fate' = [fate EXCEPT ![m] = "rejected"]
  BY <1>1, SndStep
<1>3. ThreadTypes' /\ OwnerStands' /\ WorkerStands' /\ Gone'
  BY <1>0, <1>1, <1>2 DEF ThreadTypes, OwnerStands, WorkerStands, NotRun, Gone, Deleted,
                          threadVars, objectVars, ownVars
<1>4. MessagesSettled'
  <2>1. Deleted => unblocked
    BY <1>0 DEF Gone, WorkerStands, ThreadTypes
  <2>2. Deleted' = Deleted
    BY <1>1 DEF Deleted, threadVars
  <2> QED BY <1>2, <2>1, <2>2 DEF IInv, QueueTypes, MessagesSettled
<1> QED BY <1>0, <1>1, <1>2, <1>3, <1>4 DEF IInv, ownVars

(* The worker's steps, its calls of the queue first.                       *)
LEMMA ReceiveStep ==
    ASSUME IInv, Receive \/ Spurious \/ Handled \/ Failed PROVE IInv'
<1>0. /\ ThreadTypes /\ OwnerStands /\ WorkerStands /\ Gone
      /\ hasThread \in BOOLEAN /\ opc \in Places
  BY DEF IInv
<1>1. /\ UNCHANGED <<objectVars, runnable, ownVars>>
      /\ pc[Worker] = "run"
      /\ pc' = [pc EXCEPT ![Worker] = pc'[Worker]]
      /\ pc'[Worker] \in {"run", "looptest", "posttest"}
      /\ pc'[Worker] = "posttest" => rcv[Worker] = "failed"
  BY <1>0 DEF Receive, Spurious, Q!Spurious, Handled, Failed, T!RunReturns, T!Goto,
              T!delegateVars, T!callVars, objectVars, threadVars, ThreadTypes,
              WorkerStands
<1>2. /\ QueueTypes' /\ InHand'
      /\ UNCHANGED unblocked
      /\ rcv'[Worker] = "failed" => unblocked
      /\ pc'[Worker] # "run" => rcv'[Worker] \in {"out", "failed"}
      /\ ~Deleted
  <2>1. ~Deleted
    BY <1>0, <1>1 DEF Gone, OwnerStands, NotRun
  <2>2. CASE Receive
    BY <1>1, <2>1, <2>2, RcvStep DEF Receive, threadVars
  <2>3. CASE Spurious
    BY <1>1, <2>1, <2>3 DEF Spurious, Q!Spurious, threadVars, IInv, QueueTypes, InHand,
                            Q!RcvStates
  <2>4. CASE Handled
    BY <2>1, <2>4, DeleteStep DEF Handled
  <2>5. CASE Failed
    BY <1>0, <2>1, <2>5 DEF Failed, queueVars, IInv, QueueTypes, InHand, WorkerStands
  <2> QED BY <2>2, <2>3, <2>4, <2>5
<1>3. ThreadTypes' /\ OwnerStands' /\ WorkerStands' /\ Gone'
  BY <1>0, <1>1, <1>2 DEF ThreadTypes, OwnerStands, WorkerStands, NotRun, Gone, Deleted,
                          objectVars, ownVars, T!PcOfWorker
<1>4. MessagesSettled'
  BY <1>1, <1>2 DEF MessagesSettled, Deleted
<1> QED BY <1>0, <1>1, <1>2, <1>3, <1>4 DEF IInv, ownVars

(* The rest of threadMain(): its tests of isRunning(), prerun() and        *)
(* postrun(), and its own destroy().                                       *)
LEMMA ElsewhereStep == ASSUME IInv, Elsewhere PROVE IInv'
<1>0. /\ ThreadTypes /\ OwnerStands /\ WorkerStands /\ Gone
      /\ hasThread \in BOOLEAN /\ opc \in Places
  BY DEF IInv
<1>1. UNCHANGED <<queueVars, ownVars>>
  BY DEF Elsewhere
<1>2. CASE T!Destroy(Worker)
  BY <1>1, <1>2, DestroyStep
<1>3. ASSUME \/ T!Entry(Worker) \/ T!PrerunTest(Worker) \/ T!Prerun(Worker)
             \/ T!LoopTest(Worker) \/ T!PostTest(Worker) \/ T!Postrun(Worker)
             \/ T!Clear(Worker)
      PROVE  IInv'
  <2>1. /\ ThreadTypes'
        /\ pc' = [pc EXCEPT ![Worker] = pc'[Worker]]
        /\ UNCHANGED <<mThread, runnable, answer, arg, call>>
        /\ ~unblocked => mRunnable'[Worker]
              /\ pc[Worker] \in {"entry", "pretest", "prerun", "looptest"}
              /\ pc'[Worker] \in {"pretest", "prerun", "looptest", "run"}
        /\ pc[Worker] \notin {"unborn", "run", "destroy", "drop", "delete", "exited"}
        /\ pc'[Worker] # "unborn"
    BY <1>0, <1>3 DEF T!Entry, T!PrerunTest, T!Prerun, T!LoopTest, T!PostTest, T!Postrun,
       T!Clear, T!Test, T!Goto, T!delegateVars, T!callVars, ThreadTypes, T!PcOfWorker,
       WorkerStands
  <2>2. OwnerStands' /\ WorkerStands'
    BY <1>0, <1>1, <2>1 DEF ThreadTypes, OwnerStands, WorkerStands, NotRun, ownVars,
                            queueVars
  <2>3. ~Deleted
    BY <1>0, <2>1 DEF Gone, OwnerStands, NotRun
  <2> QED BY <1>0, <1>1, <2>1, <2>2, <2>3, ThreadStep DEF ownVars
<1> QED BY <1>2, <1>3 DEF Elsewhere, T!Outside

(* Every step keeps the invariant. *)
LEMMA NextIInv == IInv /\ [Next]_vars => IInv'
<1> SUFFICES ASSUME IInv, [Next]_vars PROVE IInv'
  OBVIOUS
<1>1. CASE UNCHANGED vars
  <2>1. UNCHANGED <<queueVars, threadVars, ownVars>>
    BY <1>1 DEF vars
  <2> QED BY <2>1 DEF IInv, ThreadTypes, QueueTypes, InHand, OwnerStands, WorkerStands,
             NotRun, Gone, Deleted, MessagesSettled, queueVars, threadVars, objectVars,
             ownVars
<1> QED BY <1>1, OwnerStep, InLocThreadStep, GoneStep, SendStep, ReceiveStep,
           ElsewhereStep
        DEF Next, OwnerFinishes, WorkerFinishes

(* The places of the owner and of the worker, the queue between them and   *)
(* the memory of the task always fit together.                             *)
THEOREM Invariance == Spec => []IInv
  BY InitIInv, NextIInv, PTL DEF Spec

(* The task, its queue and its messages are freed by one of its two        *)
(* threads, and never while the other may still use them.                  *)
THEOREM QueueSafe == Spec => []QueueSafety
  BY IInvImplies, Invariance, PTL

-----------------------------------------------------------------------------
(* Every step of the task is a step of its queue or leaves the queue alone. *)
LEMMA QueueStep == [Next]_vars => [Q!QueueNext]_(Q!queueVars)
<1> SUFFICES ASSUME [Next]_vars PROVE [Q!QueueNext]_(Q!queueVars)
  OBVIOUS
<1> USE DEF queueVars, Q!queueVars
<1>1. CASE UNCHANGED queueVars
  BY <1>1
<1>2. CASE Q!QueueNext
  BY <1>2
<1>3. CASE \E joinable, created \in BOOLEAN : Ctor(joinable, created)
  BY <1>1, <1>3 DEF Ctor
<1>4. CASE OwnerFinishes
  BY <1>1, <1>4 DEF OwnerFinishes, InLocThread, Started, NotStarted, UnblockQueue,
     ClearThread, DeleteThread, DeleteThis, Dtor, Q!QueueNext
<1>5. CASE Destroy
  BY <1>1, <1>5 DEF Destroy
<1>6. CASE \E m \in Msgs : SendMsg(m)
  BY <1>6 DEF SendMsg, Q!QueueNext
<1>7. CASE WorkerFinishes
  BY <1>1, <1>7 DEF WorkerFinishes, Receive, Handled, Failed, Elsewhere, Reap, Dtor,
     Q!QueueNext, Q!Receiver
<1>8. CASE Spurious
  BY <1>8 DEF Spurious, Q!QueueNext, Q!Receiver
<1>9. CASE UNCHANGED vars
  BY <1>1, <1>9 DEF vars
<1> QED BY <1>3, <1>4, <1>5, <1>6, <1>7, <1>8, <1>9 DEF Next

(* The task is a user of its queue as MsgQueue has it: what is proved of   *)
(* every run of the queue holds of the queue of a MsgTask.                 *)
THEOREM TaskUsesQueue == Spec => Q!QueueSpec
<1>1. Init => Q!QueueInit
  BY DEF Init
<1> QED BY <1>1, QueueStep, PTL DEF Spec, Q!QueueSpec
=============================================================================
