------------------------------ MODULE LocThread ------------------------------
(***************************************************************************)
(* LocThread and its LocThreadDelegate (gps/utils/LocThread.cpp): a thread *)
(* object that spawns a worker to run a LocRunnable, may be joined, and    *)
(* shares a reference counted delegate with the worker.                    *)
(*                                                                         *)
(* One client thread owns the LocThread object and calls start(), stop()   *)
(* and the destructor, in any order.  Every start() allocates a delegate   *)
(* of its own, so the worker of an earlier, detached start() may still be  *)
(* running beside the current one.  A step is one access to memory that    *)
(* the client and a worker share, or one critical section of mMutex.       *)
(***************************************************************************)
EXTENDS Naturals

CONSTANTS
    Delegates,  \* the delegates start() may allocate, one per call
    Client,     \* the thread that owns the LocThread object
    None        \* NULL

ASSUME ThreadsAssumption ==
    /\ Client \notin Delegates
    /\ None \notin Delegates

VARIABLES
    mThread,    \* LocThread::mThread, a delegate or None
    mRunnable,  \* is LocThreadDelegate::mRunnable non-NULL
    mJoinable,  \* LocThreadDelegate::mJoinable
    mRefCount,  \* LocThreadDelegate::mRefCount
    life,       \* of the delegate's memory: "unborn", "live", "deleted"
    runnable,   \* of the LocRunnable passed to that start(), likewise
    answer,     \* what that start() returned: "none", "started", "failed"
    pc,         \* where the client and every worker stand
    arg,        \* the delegate the client is operating on
    call        \* the method the client is in

delegateVars == <<mRunnable, mJoinable, mRefCount, life>>
callVars == <<mThread, answer, arg, call>>
threadVars == <<delegateVars, callVars, runnable, pc>>

(* A worker is named by its delegate. *)
Threads == Delegates \cup {Client}

(* The delegate a thread works on. *)
Obj(t) == IF t = Client THEN arg ELSE t

Goto(t, label) == pc' = [pc EXCEPT ![t] = label]

-----------------------------------------------------------------------------
(* LocThreadDelegate::destroy(), which the client and the worker both run. *)

Leave(t) == IF t = Client THEN "return" ELSE "exited"

(* if (mRefCount > 0), read before the mutex is taken *)
DestroyTest(t) ==
    /\ pc[t] = "destroy"
    /\ Goto(t, IF mRefCount[Obj(t)] > 0 THEN "drop" ELSE Leave(t))
    /\ UNCHANGED <<delegateVars, callVars, runnable>>

DestroyDropPreDecrement(t) ==
    /\ pc[t] = "drop"
    /\ mRefCount' = [mRefCount EXCEPT ![Obj(t)] = @ - 1]
    /\ Goto(t, IF mRefCount[Obj(t)] = 0 THEN "delete" ELSE Leave(t))
    /\ UNCHANGED <<mRunnable, mJoinable, life, callVars, runnable>>

(* the critical section: callDelete = (1 == mRefCount--) *)
DestroyDrop(t) ==
    /\ pc[t] = "drop"
    /\ mRefCount' = [mRefCount EXCEPT ![Obj(t)] = @ - 1]
    /\ Goto(t, IF mRefCount[Obj(t)] = 1 THEN "delete" ELSE Leave(t))
    /\ UNCHANGED <<mRunnable, mJoinable, life, callVars, runnable>>

(* delete this *)
DestroyDelete(t) ==
    /\ pc[t] = "delete"
    /\ life' = [life EXCEPT ![Obj(t)] = "deleted"]
    /\ Goto(t, Leave(t))
    /\ UNCHANGED <<mRunnable, mJoinable, mRefCount, callVars, runnable>>

Destroy(t) == DestroyTest(t) \/ DestroyDrop(t) \/ DestroyDelete(t)

-----------------------------------------------------------------------------
(* LocThread::start(), with LocThreadDelegate::create() and its constructor. *)

Construct(d, joinable, created) ==
    /\ pc[Client] = "idle"
    /\ mThread = None
    /\ life[d] = "unborn"
    /\ life' = [life EXCEPT ![d] = "live"]
    /\ runnable' = [runnable EXCEPT ![d] = "live"]
    /\ mRunnable' = [mRunnable EXCEPT ![d] = created]
    /\ mJoinable' = [mJoinable EXCEPT ![d] = created /\ joinable]
    /\ mRefCount' = [mRefCount EXCEPT ![d] = IF created THEN 2 ELSE 1]
    /\ pc' = [pc EXCEPT ![Client] = "create",
                        ![d] = IF created THEN "entry" ELSE @]
    /\ arg' = d
    /\ call' = "start"
    /\ UNCHANGED <<mThread, answer>>

CreateTestJoinable ==
    /\ pc[Client] = "create"
    /\ IF mJoinable[arg]
       THEN /\ mThread' = arg
            /\ answer' = [answer EXCEPT ![arg] = "started"]
            /\ Goto(Client, "idle")
       ELSE /\ Goto(Client, "destroy")
            /\ UNCHANGED <<mThread, answer>>
    /\ UNCHANGED <<delegateVars, runnable, arg, call>>

(* create() hands the delegate out only if it finds it running *)
CreateTest ==
    /\ pc[Client] = "create"
    /\ IF mRunnable[arg]
       THEN /\ mThread' = arg
            /\ answer' = [answer EXCEPT ![arg] = "started"]
            /\ Goto(Client, "idle")
       ELSE /\ Goto(Client, "destroy")
            /\ UNCHANGED <<mThread, answer>>
    /\ UNCHANGED <<delegateVars, runnable, arg, call>>

-----------------------------------------------------------------------------
(* LocThread::stop(), ~LocThread() with bye(), and what both return to. *)

Stop ==
    /\ pc[Client] = "idle"
    /\ mThread # None
    /\ arg' = mThread
    /\ call' = "stop"
    /\ Goto(Client, "stop")
    /\ UNCHANGED <<delegateVars, mThread, answer, runnable>>

Dtor ==
    /\ pc[Client] = "idle"
    /\ call' = "dtor"
    /\ IF mThread = None
       THEN /\ Goto(Client, "gone")
            /\ UNCHANGED arg
       ELSE /\ arg' = mThread
            /\ Goto(Client, IF mJoinable[mThread] THEN "stop" ELSE "destroy")
    /\ UNCHANGED <<delegateVars, mThread, answer, runnable>>

StopOnlyJoins ==
    /\ pc[Client] = "stop"
    /\ mJoinable' = [mJoinable EXCEPT ![arg] = FALSE]
    /\ Goto(Client, IF mJoinable[arg] THEN "join" ELSE "destroy")
    /\ UNCHANGED <<mRunnable, mRefCount, life, callVars, runnable>>

(* LocThreadDelegate::stop(): mRunnable = NULL, then join at most once *)
StopRunnable ==
    /\ pc[Client] = "stop"
    /\ mRunnable' = [mRunnable EXCEPT ![arg] = FALSE]
    /\ mJoinable' = [mJoinable EXCEPT ![arg] = FALSE]
    /\ Goto(Client, IF mJoinable[arg] THEN "join" ELSE "destroy")
    /\ UNCHANGED <<mRefCount, life, callVars, runnable>>

Join ==
    /\ pc[Client] = "join"
    /\ pc[arg] = "exited"
    /\ Goto(Client, "destroy")
    /\ UNCHANGED <<delegateVars, callVars, runnable>>

Return ==
    /\ pc[Client] = "return"
    /\ mThread' = None
    /\ answer' = IF call = "start"
                 THEN [answer EXCEPT ![arg] = "failed"] ELSE answer
    /\ Goto(Client, IF call = "dtor" THEN "gone" ELSE "idle")
    /\ UNCHANGED <<delegateVars, runnable, arg, call>>

ClientStep ==
    \/ \E d \in Delegates, joinable, created \in BOOLEAN :
          Construct(d, joinable, created)
    \/ CreateTest \/ Stop \/ Dtor \/ StopRunnable \/ Join \/ Return
    \/ Destroy(Client)

-----------------------------------------------------------------------------
(* LocThreadDelegate::threadMain(), the body of the worker of d. *)

(* The next place after a test of isRunning(). *)
Test(d, from, running, stopped) ==
    /\ pc[d] = from
    /\ Goto(d, IF mRunnable[d] THEN running ELSE stopped)
    /\ UNCHANGED <<delegateVars, callVars, runnable>>

Entry(d)      == Test(d, "entry", "pretest", "destroy")
PrerunTest(d) == Test(d, "pretest", "prerun", "looptest")
LoopTest(d)   == Test(d, "looptest", "run", "posttest")
PostTest(d)   == Test(d, "posttest", "postrun", "clear")

Prerun(d) ==
    /\ pc[d] = "prerun"
    /\ Goto(d, "looptest")
    /\ UNCHANGED <<delegateVars, callVars, runnable>>

(* run() returns whether it wants to be called again *)
RunReturns(d, again) ==
    /\ pc[d] = "run"
    /\ Goto(d, IF again THEN "looptest" ELSE "posttest")
    /\ UNCHANGED <<delegateVars, callVars, runnable>>

Postrun(d) ==
    /\ pc[d] = "postrun"
    /\ Goto(d, "clear")
    /\ UNCHANGED <<delegateVars, callVars, runnable>>

(* locThread->mRunnable = NULL *)
Clear(d) ==
    /\ pc[d] = "clear"
    /\ mRunnable' = [mRunnable EXCEPT ![d] = FALSE]
    /\ Goto(d, "reap")
    /\ UNCHANGED <<mJoinable, mRefCount, life, callVars, runnable>>

(* delete runnable *)
Reap(d) ==
    /\ pc[d] = "reap"
    /\ runnable' = [runnable EXCEPT ![d] = "deleted"]
    /\ Goto(d, "destroy")
    /\ UNCHANGED <<delegateVars, callVars>>

(* Everything the worker does but for what its runnable does in run(). *)
Outside(d) ==
    \/ Entry(d) \/ PrerunTest(d) \/ Prerun(d) \/ LoopTest(d)
    \/ PostTest(d) \/ Postrun(d) \/ Clear(d)
    \/ Destroy(d)

WorkerStep(d) ==
    \/ Outside(d)
    \/ Reap(d)
    \/ \E again \in BOOLEAN : RunReturns(d, again)

-----------------------------------------------------------------------------
ThreadInit ==
    /\ mThread = None
    /\ mRunnable = [d \in Delegates |-> FALSE]
    /\ mJoinable = [d \in Delegates |-> FALSE]
    /\ mRefCount = [d \in Delegates |-> 0]
    /\ life = [d \in Delegates |-> "unborn"]
    /\ runnable = [d \in Delegates |-> "unborn"]
    /\ answer = [d \in Delegates |-> "none"]
    /\ pc = [t \in Threads |-> IF t = Client THEN "idle" ELSE "unborn"]
    /\ arg = None
    /\ call = "none"

ThreadNext == ClientStep \/ \E d \in Delegates : WorkerStep(d)

ThreadSpec == ThreadInit /\ [][ThreadNext]_threadVars

(* The kernel runs every runnable thread, and a LocRunnable's run()        *)
(* returns; the client is free never to call stop() or the destructor.     *)
ClientFinishes ==
    CreateTest \/ StopRunnable \/ Join \/ Return \/ Destroy(Client)

Fairness ==
    /\ WF_threadVars(ClientFinishes)
    /\ \A d \in Delegates : WF_threadVars(WorkerStep(d))

FairThreadSpec == ThreadSpec /\ Fairness

-----------------------------------------------------------------------------
PcOfClient == {"idle", "create", "stop", "join", "destroy", "drop", "delete",
               "return", "gone"}
PcOfWorker == {"unborn", "entry", "pretest", "prerun", "looptest", "run",
               "posttest", "postrun", "clear", "reap", "destroy", "drop",
               "delete", "exited"}
Lives == {"unborn", "live", "deleted"}

(* Every variable has its type, and the client has a delegate in hand      *)
(* whenever it is inside a call.                                           *)
ThreadTypeOK ==
    /\ mThread \in Delegates \cup {None}
    /\ mRunnable \in [Delegates -> BOOLEAN]
    /\ mJoinable \in [Delegates -> BOOLEAN]
    /\ mRefCount \in [Delegates -> 0..2]
    /\ life \in [Delegates -> Lives]
    /\ runnable \in [Delegates -> Lives]
    /\ answer \in [Delegates -> {"none", "started", "failed"}]
    /\ pc \in [Threads -> PcOfClient \cup PcOfWorker]
    /\ pc[Client] \in PcOfClient
    /\ \A d \in Delegates : pc[d] \in PcOfWorker
    /\ arg \in Delegates \cup {None}
    /\ pc[Client] \notin {"idle", "gone"} => arg \in Delegates
    /\ call \in {"none", "start", "stop", "dtor"}

(* The two parties that owe a delegate a destroy(). *)
ClientHolds(d) ==
    \/ pc[Client] = "idle" /\ mThread = d
    \/ pc[Client] \in {"create", "stop", "join", "destroy", "drop"} /\ arg = d

WorkerHolds(d) == pc[d] \notin {"unborn", "delete", "exited"}

Deletes(t, d) == pc[t] = "delete" /\ Obj(t) = d

Owed(d) == (IF ClientHolds(d) THEN 1 ELSE 0) + (IF WorkerHolds(d) THEN 1 ELSE 0)

(* mRefCount counts the threads that have yet to call destroy(): the       *)
(* constructor's 2, or 1 when pthread_create() failed, is right in every   *)
(* interleaving of the client's calls with the worker's way out.           *)
RefCountCounts ==
    \A d \in Delegates : life[d] = "live" => mRefCount[d] = Owed(d)

(* A delegate is in memory exactly as long as a thread still uses it: no   *)
(* thread touches a deleted one (no use after free), the last of the two   *)
(* destroy() calls deletes it (no leak), and only one of them does.        *)
DelegateLifetime ==
    \A d \in Delegates :
       /\ life[d] = "live" <=> Owed(d) > 0 \/ \E t \in Threads : Deletes(t, d)
       /\ \A t \in Threads : Deletes(t, d) =>
             /\ Owed(d) = 0
             /\ \A u \in Threads : Deletes(u, d) => u = t

(* "else case will never happen" (LocThread.cpp:152): a destroy() never    *)
(* finds a reference count of 0.                                           *)
DestroyFindsReference ==
    \A t \in Threads : pc[t] \in {"destroy", "drop"} => mRefCount[Obj(t)] > 0

(* The count is right, and with it the life of the delegate: neither freed *)
(* too early nor twice nor never, whatever way the client's calls and the  *)
(* worker's way out of threadMain() meet.                                  *)
DelegateSafety ==
    ThreadTypeOK /\ RefCountCounts /\ DelegateLifetime /\ DestroyFindsReference

(* A start() that reports failure leaves no worker that will still call    *)
(* prerun(), run() or postrun() of the runnable it gives back.             *)
FailedStartRunsNothing ==
    \A d \in Delegates : answer[d] = "failed" =>
       pc[d] \in {"unborn", "reap", "destroy", "drop", "delete", "exited"}

(* stop() and the destructor return, the join() of a joinable worker       *)
(* included, once every call of run() returns; and the delegate the client *)
(* stopped is freed in the end, by whichever thread is the last to leave.  *)
StopSettles ==
    /\ pc[Client] \in {"stop", "join", "destroy"}
          ~> pc[Client] \in {"idle", "gone"}
    /\ \A d \in Delegates :
          (pc[Client] = "stop" /\ arg = d) ~> life[d] = "deleted"
=============================================================================
