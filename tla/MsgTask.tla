------------------------------- MODULE MsgTask -------------------------------
(***************************************************************************)
(* MsgTask (gps/utils/MsgTask.cpp): a message queue drained by a worker    *)
(* thread of its own.  It composes the two modules below it: the LocThread *)
(* whose runnable the MsgTask itself is, and the msg_q its run() waits on. *)
(*                                                                         *)
(* The MsgTask is deleted by its worker, on the way out of threadMain(), or *)
(* by destroy() if it never got one; either way ~MsgTask() flushes and     *)
(* destroys the queue.  The users of a MsgTask do not call sendMsg() after  *)
(* the owner has called destroy(), but the proc() of a message may.        *)
(***************************************************************************)
EXTENDS Naturals, Sequences, FiniteSets

CONSTANTS
    Worker,     \* the task's thread, and the delegate of its LocThread
    Client,     \* the owner of the MsgTask
    None,       \* NULL
    Msgs, NoMsg \* the messages, and no message

ASSUME MsgTaskAssumption ==
    /\ Worker # Client
    /\ Worker # None
    /\ NoMsg \notin Msgs

VARIABLES
    mThread, mRunnable, mJoinable, mRefCount, life, runnable, answer,
    pc, arg, call,                                  \* LocThread's
    msg_list, unblocked, rcv, msg_obj, fate,        \* MsgQueue's
    hasThread,  \* is MsgTask::mThread non-NULL
    queue,      \* the memory of mQ: "live" or "destroyed"
    opc         \* where the owner is in the MsgTask: see Places

T == INSTANCE LocThread WITH Delegates <- {Worker}
Q == INSTANCE MsgQueue WITH Receivers <- {Worker}

objectVars == <<mThread, mRunnable, mJoinable, mRefCount, life, answer, arg, call>>
threadVars == <<objectVars, runnable, pc>>
queueVars == <<msg_list, unblocked, rcv, msg_obj, fate>>
ownVars == <<hasThread, queue, opc>>
vars == <<threadVars, queueVars, ownVars>>

Places == {"new", "ctor", "idle",                       \* construction
           "unblock", "clear", "release", "leaving",    \* destroy()
           "delete", "deleted"}                         \* without a thread

Deleted == runnable[Worker] = "deleted"

(* ~MsgTask() *)
Dtor ==
    /\ Q!Flush
    /\ queue' = "destroyed"

-----------------------------------------------------------------------------
(* The owner: MsgTask::MsgTask() and MsgTask::destroy(). *)

Ctor(joinable, created) ==
    /\ opc = "new"
    /\ T!Construct(Worker, joinable, created)
    /\ opc' = "ctor"
    /\ UNCHANGED <<queueVars, hasThread, queue>>

(* inside LocThread's start() or destructor *)
InLocThread ==
    /\ T!ClientFinishes
    /\ UNCHANGED <<queueVars, ownVars>>

Started ==
    /\ opc = "ctor"
    /\ pc[Client] = "idle"
    /\ mThread # None
    /\ hasThread' = TRUE
    /\ opc' = "idle"
    /\ UNCHANGED <<threadVars, queueVars, queue>>

NotStartedKeepsPointer ==
    /\ opc = "ctor"
    /\ pc[Client] = "idle"
    /\ mThread = None
    /\ T!Dtor
    /\ hasThread' = TRUE
    /\ opc' = "idle"
    /\ UNCHANGED <<queueVars, queue>>

(* delete mThread; mThread = NULL *)
NotStarted ==
    /\ opc = "ctor"
    /\ pc[Client] = "idle"
    /\ mThread = None
    /\ T!Dtor
    /\ hasThread' = FALSE
    /\ opc' = "idle"
    /\ UNCHANGED <<queueVars, queue>>

Destroy ==
    /\ opc = "idle"
    /\ opc' = "unblock"
    /\ UNCHANGED <<threadVars, queueVars, hasThread, queue>>

UnblockDeletes ==
    /\ opc = "unblock"
    /\ Q!Unblock
    /\ opc' = "delete"
    /\ UNCHANGED <<threadVars, hasThread, queue>>

(* msg_q_unblock(mQ), with mThread read before it *)
UnblockQueue ==
    /\ opc = "unblock"
    /\ Q!Unblock
    /\ opc' = IF hasThread THEN "clear" ELSE "delete"
    /\ UNCHANGED <<threadVars, hasThread, queue>>

(* mThread = NULL *)
ClearThread ==
    /\ opc = "clear"
    /\ hasThread' = FALSE
    /\ opc' = "release"
    /\ UNCHANGED <<threadVars, queueVars, queue>>

(* delete thread *)
DeleteThread ==
    /\ opc = "release"
    /\ T!Dtor
    /\ opc' = "leaving"
    /\ UNCHANGED <<queueVars, hasThread, queue>>

(* delete this *)
DeleteThis ==
    /\ opc = "delete"
    /\ Dtor
    /\ runnable' = [runnable EXCEPT ![Worker] = "deleted"]
    /\ opc' = "deleted"
    /\ UNCHANGED <<objectVars, pc, hasThread>>

OwnerFinishes ==
    \/ InLocThread \/ Started \/ NotStarted
    \/ UnblockQueue \/ ClearThread \/ DeleteThread \/ DeleteThis

-----------------------------------------------------------------------------
(* sendMsg() ignores what msg_q_snd() returns.                             *)
SendMsg(m) ==
    /\ opc = "idle" \/ rcv[Worker] = "busy"
    /\ Q!Snd(m)
    /\ UNCHANGED <<threadVars, ownVars>>

-----------------------------------------------------------------------------
(* The worker: run() in three parts, and the rest of threadMain(). *)

Receive ==
    /\ pc[Worker] = "run"
    /\ Q!Rcv(Worker) \/ Q!RcvWake(Worker)
    /\ UNCHANGED <<threadVars, ownVars>>

Spurious ==
    /\ Q!Spurious(Worker)
    /\ UNCHANGED <<threadVars, ownVars>>

HandledReturnsFalse ==
    /\ Q!Delete(Worker)
    /\ T!RunReturns(Worker, FALSE)
    /\ UNCHANGED ownVars

(* msg->proc() is over: delete msg; return true *)
Handled ==
    /\ Q!Delete(Worker)
    /\ T!RunReturns(Worker, TRUE)
    /\ UNCHANGED ownVars

(* msg_q_rcv() failed: return false *)
Failed ==
    /\ rcv[Worker] = "failed"
    /\ T!RunReturns(Worker, FALSE)
    /\ UNCHANGED <<queueVars, ownVars>>

Elsewhere ==
    /\ T!Outside(Worker)
    /\ UNCHANGED <<queueVars, ownVars>>

(* delete runnable *)
Reap ==
    /\ T!Reap(Worker)
    /\ Dtor
    /\ UNCHANGED <<hasThread, opc>>

WorkerFinishes == Receive \/ Handled \/ Failed \/ Elsewhere \/ Reap

-----------------------------------------------------------------------------
Init ==
    /\ T!ThreadInit
    /\ Q!QueueInit
    /\ hasThread = FALSE
    /\ queue = "live"
    /\ opc = "new"

Next ==
    \/ \E joinable, created \in BOOLEAN : Ctor(joinable, created)
    \/ OwnerFinishes
    \/ Destroy
    \/ \E m \in Msgs : SendMsg(m)
    \/ WorkerFinishes
    \/ Spurious

Spec == Init /\ [][Next]_vars

(* Both threads run, and every proc() returns; nobody has to send anything *)
(* or to call destroy().                                                   *)
FairSpec == Spec /\ WF_vars(OwnerFinishes) /\ WF_vars(WorkerFinishes)

-----------------------------------------------------------------------------
(* The variables this module adds have their types, and the worker has to  *)
(* do with the queue only while it is in run(): every message it was given *)
(* is deleted before run() returns.                                        *)
TypeOK ==
    /\ hasThread \in BOOLEAN
    /\ queue \in {"live", "destroyed"}
    /\ opc \in Places
    /\ pc[Worker] # "run" => rcv[Worker] \in {"out", "failed"}

(* The queue is there as long as a thread may use it: no worker is inside  *)
(* msg_q_rcv(), and destroy() is past msg_q_unblock().                     *)
QueueOutlivesUsers ==
    queue = "destroyed" =>
       /\ pc[Worker] # "run"
       /\ opc \in {"clear", "release", "leaving", "deleted"}

(* The task is deleted by one of its two threads only: destroy() deletes   *)
(* it only if no worker was ever started, so threadMain() cannot have      *)
(* deleted it or be about to.                                              *)
DeletedOnce ==
    /\ opc \in {"delete", "deleted"} =>
          /\ answer[Worker] = "failed"
          /\ pc[Worker] = "unborn"
    /\ opc = "delete" \/ pc[Worker] = "reap" => ~Deleted

(* Once the task is gone every message that was sent has been freed, or    *)
(* was refused: none is stranded in the queue or in a dead worker's hands. *)
MessagesSettled ==
    Deleted => \A m \in Msgs : fate[m] \in {"unsent", "deleted", "rejected"}

(* The two threads of a task agree on who frees the task and its queue,    *)
(* and its messages with it.                                               *)
QueueSafety == TypeOK /\ QueueOutlivesUsers /\ DeletedOnce /\ MessagesSettled

(* destroy() returns, for a joinable and for a detached thread, and in the *)
(* end the task, its queue and the thread's delegate are freed, provided   *)
(* the worker has read the runnable it is to free (a worker that is stopped *)
(* before that frees nothing: threadMain() never learns of its runnable).   *)
DestroyCompletes ==
    opc = "unblock" /\ pc[Worker] # "entry" ~>
       /\ Deleted
       /\ queue = "destroyed"
       /\ life[Worker] = "deleted"
       /\ pc[Client] = "gone"

(* A message a running task accepted is handed to the worker, unless the   *)
(* owner destroys the task first.                                          *)
AcceptedIsHandled ==
    \A m \in Msgs :
       fate[m] = "queued" /\ hasThread ~> msg_obj[Worker] = m \/ opc # "idle"
=============================================================================
