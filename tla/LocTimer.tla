------------------------------- MODULE LocTimer -------------------------------
(***************************************************************************)
(* LocTimer (gps/utils/LocTimer.cpp): timers kept in a heap, of which only *)
(* the soonest is known to the kernel.  Three kinds of threads take part:  *)
(*                                                                         *)
(*   - the clients' threads call start() and stop() under the lock of their *)
(*     LocTimer and send the delegate they made or gave up to the MsgTask; *)
(*   - the poll thread waits in epoll_wait() for the container's timerfd,  *)
(*     and on expiry disarms it, takes it out of the epoll set and sends   *)
(*     MsgTimerExpire to the MsgTask;                                      *)
(*   - the MsgTask's worker handles MsgTimerPush, MsgTimerRemove and       *)
(*     MsgTimerExpire in order, owns the heap, and makes the callbacks.    *)
(*                                                                         *)
(* One of the two containers (timers, alarms) is modelled: they share only *)
(* their two threads.  The MsgTask is the mailbox its own module implements.*)
(***************************************************************************)
EXTENDS LocHeap, Sequences

CONSTANTS
    Clients,    \* LocTimer objects
    MaxTime,    \* bound: the clock stops here
    Delays      \* arguments of start()

ASSUME TimerAssumption ==
    /\ MaxTime \in Nat /\ Delays \subseteq 0..MaxTime
    /\ NULL \notin Clients

Delegates == Rankables          \* bound: one for each start() that succeeds
Times == 0..MaxTime
Never == MaxTime + 1            \* a timerfd that is disarmed

MsgTimerPush(d) == [type |-> "push", timer |-> d]
MsgTimerRemove(d) == [type |-> "remove", timer |-> d]
MsgTimerExpire == [type |-> "expire", timer |-> NULL]

VARIABLES
    now,            \* CLOCK_BOOTTIME
    exists,         \* LocTimer objects not yet deleted
    mTimer,         \* LocTimer::mTimer, a delegate or NULL
    life,           \* of each delegate: "unborn", "live", "deleted"
    mClient,        \* LocTimerDelegate::mClient, a client or NULL
    mFutureTime,    \* LocTimerDelegate::mFutureTime
    msgs,           \* the queue of the MsgTask
    mTree,          \* the container's heap, a tree of LocHeap
    task,           \* where the MsgTask's worker is: see Places
    popped,         \* the delegate it has popped
    client,         \* the client it has copied from that delegate
    timerOfNow,     \* the time it read when it began to expire
    fd,             \* the time the timerfd is armed for, or Never
    polled,         \* is the timerfd in the epoll set
    poll            \* where the poll thread is

clientVars == <<exists, mTimer, mClient>>
taskVars == <<task, popped, client, timerOfNow>>
fdVars == <<fd, polled>>
timerVars == <<now, clientVars, life, mFutureTime, msgs, mTree, taskVars, fdVars, poll>>

Send(m) == msgs' = Append(msgs, m)

Receive(type) ==
    /\ task = "idle"
    /\ msgs # <<>>
    /\ Head(msgs).type = type
    /\ msgs' = Tail(msgs)

(* LocTimerDelegate::ranks(): the sooner the higher *)
Sooner(d, e) == OutRanks(mFutureTime, d, e)

top == peek(mTree)

-----------------------------------------------------------------------------
(* The clients.  start() and stop() hold the lock of their LocTimer.       *)

start(c, delay) ==
    LET unborn == {d \in Delegates : life[d] = "unborn"}
        d == CHOOSE e \in unborn : TRUE
    IN  /\ c \in exists
        /\ mTimer[c] = NULL
        /\ unborn # {}
        /\ now + delay <= MaxTime
        /\ life' = [life EXCEPT ![d] = "live"]
        /\ mClient' = [mClient EXCEPT ![d] = c]
        /\ mFutureTime' = [mFutureTime EXCEPT ![d] = now + delay]
        /\ mTimer' = [mTimer EXCEPT ![c] = d]
        /\ Send(MsgTimerPush(d))
        /\ UNCHANGED <<now, exists, mTree, taskVars, fdVars, poll>>

(* LocTimer::stop() that finds a timer, with destroyLocked() *)
StopTimer(c) ==
    /\ mTimer[c] # NULL
    /\ mTimer' = [mTimer EXCEPT ![c] = NULL]
    /\ mClient' = [mClient EXCEPT ![mTimer[c]] = NULL]
    /\ Send(MsgTimerRemove(mTimer[c]))

stop(c) ==
    /\ c \in exists
    /\ StopTimer(c)
    /\ UNCHANGED <<now, exists, life, mFutureTime, mTree, taskVars, fdVars, poll>>

(* In timeOutCallback(), where LocTimerWrapper deletes itself and an owner  *)
(* of a LocTimer may                                                       *)
InCallback(c) == task = "callback" /\ client = c

(* ~LocTimer(): stop(), then the lock is given up.  expire() holds no lock *)
(* while it uses the client.                                               *)
Delete(c) ==
    /\ c \in exists
    /\ InCallback(c)
    /\ exists' = exists \ {c}
    /\ StopTimer(c) \/ (mTimer[c] = NULL /\ UNCHANGED <<mTimer, mClient, msgs>>)
    /\ UNCHANGED <<now, life, mFutureTime, mTree, taskVars, fdVars, poll>>

-----------------------------------------------------------------------------
(* The MsgTask's worker.  What it leaves behind in its local variables and  *)
(* in freed memory is put back to a fixed value.                           *)

Places == {"idle", "read", "stop", "callback", "next", "addpoll", "settime"}

(* updateSoonestTime() is called with a reason to tell the kernel, or not *)
Update(changed) ==
    task' = IF changed /\ mTree' # NULL THEN "addpoll" ELSE "idle"

(* MsgTimerPush::proc(): the new timer takes the root if it is sooner *)
PushProc ==
    LET d == Head(msgs).timer
    IN  /\ Receive("push")
        /\ mTree' = push(mFutureTime, mTree, d)
        /\ Update(top = NULL \/ Sooner(d, top))
        /\ UNCHANGED <<now, clientVars, life, mFutureTime, popped, client,
                       timerOfNow, fdVars, poll>>

RemoveDeletesFound ==
    LET d == Head(msgs).timer
    IN  /\ Receive("remove")
        /\ mTree' = remove(mFutureTime, mTree, d)
        /\ Update(d = top)
        /\ life' = IF d \in Data(mTree) THEN [life EXCEPT ![d] = "deleted"] ELSE life
        /\ mFutureTime' = [mFutureTime EXCEPT ![d] = 0]
        /\ UNCHANGED <<now, clientVars, popped, client,
                       timerOfNow, fdVars, poll>>

(* MsgTimerRemove::proc(): "all timers are deleted here, and only here"    *)
RemoveProc ==
    LET d == Head(msgs).timer
    IN  /\ Receive("remove")
        /\ mTree' = remove(mFutureTime, mTree, d)
        /\ Update(d = top)
        /\ life' = [life EXCEPT ![d] = "deleted"]
        /\ mFutureTime' = [mFutureTime EXCEPT ![d] = 0]
        /\ UNCHANGED <<now, clientVars, popped, client,
                       timerOfNow, fdVars, poll>>

Pop ==
    /\ top # NULL
    /\ popped' = top
    /\ mTree' = pop(mFutureTime, mTree)
    /\ task' = "read"

(* MsgTimerExpire::proc(), its first pop(): of whatever is at the root *)
ExpireProc ==
    /\ Receive("expire")
    /\ \/ Pop /\ timerOfNow' = now
       \/ top = NULL /\ UNCHANGED <<mTree, popped, task, timerOfNow>>
    /\ UNCHANGED <<now, clientVars, life, mFutureTime, client, fdVars, poll>>

(* LocTimerDelegate::expire() reads mClient without the lock *)
ReadClient ==
    /\ task = "read"
    /\ client' = mClient[popped]
    /\ task' = IF mClient[popped] = NULL THEN "next" ELSE "stop"
    /\ UNCHANGED <<now, clientVars, life, mFutureTime, msgs, mTree, popped,
                   timerOfNow, fdVars, poll>>

CallAnyway ==
    /\ task = "stop"
    /\ client \in exists
    /\ \/ StopTimer(client)
       \/ mTimer[client] = NULL /\ UNCHANGED <<mTimer, mClient, msgs>>
    /\ task' = "callback"
    /\ UNCHANGED <<now, exists, life, mFutureTime, mTree, popped, client,
                   timerOfNow, fdVars, poll>>

(* ... and makes the callback if client->stop() stopped a timer.  On a     *)
(* deleted client the behaviour is undefined: nothing further is modelled. *)
StopClient ==
    /\ task = "stop"
    /\ client \in exists
    /\ \/ /\ StopTimer(client)
          /\ task' = "callback"
          /\ UNCHANGED client
       \/ /\ mTimer[client] = NULL
          /\ task' = "next"
          /\ client' = NULL
          /\ UNCHANGED <<mTimer, mClient, msgs>>
    /\ UNCHANGED <<now, exists, life, mFutureTime, mTree, popped,
                   timerOfNow, fdVars, poll>>

CallbackReturns ==
    /\ task = "callback"
    /\ task' = "next"
    /\ client' = NULL
    /\ UNCHANGED <<now, clientVars, life, mFutureTime, msgs, mTree, popped,
                   timerOfNow, fdVars, poll>>

(* popIfOutRanks(), and updateSoonestTime(NULL) once it finds nothing *)
PopNext ==
    /\ task = "next"
    /\ IF top # NULL /\ mFutureTime[top] <= timerOfNow
       THEN Pop /\ UNCHANGED timerOfNow
       ELSE /\ UNCHANGED mTree
            /\ Update(TRUE)
            /\ popped' = NULL
            /\ timerOfNow' = 0
    /\ UNCHANGED <<now, clientVars, life, mFutureTime, msgs, client,
                   fdVars, poll>>

(* EPOLL_CTL_ADD fails on an fd that is already in the set *)
AddPoll ==
    /\ task = "addpoll"
    /\ polled' = TRUE
    /\ task' = "settime"
    /\ UNCHANGED <<now, clientVars, life, mFutureTime, msgs, mTree, popped,
                   client, timerOfNow, fd, poll>>

SetTime ==
    /\ task = "settime"
    /\ fd' = mFutureTime[top]
    /\ task' = "idle"
    /\ UNCHANGED <<now, clientVars, life, mFutureTime, msgs, mTree, popped,
                   client, timerOfNow, polled, poll>>

TaskStep ==
    \/ PushProc \/ RemoveProc \/ ExpireProc
    \/ ReadClient \/ StopClient \/ CallbackReturns \/ PopNext
    \/ AddPoll \/ SetTime

-----------------------------------------------------------------------------
(* The poll thread: epoll_wait(), then LocTimerContainer::expire().        *)

PollUnchanged ==
    UNCHANGED <<now, clientVars, life, mFutureTime, mTree, taskVars>>

EpollWait(then) ==
    /\ poll = "wait"
    /\ polled /\ fd <= now
    /\ poll' = then
    /\ UNCHANGED <<fdVars, msgs>>

Disarm(then) ==
    /\ poll = "disarm"
    /\ fd' = Never
    /\ poll' = then
    /\ UNCHANGED <<polled, msgs>>

RemovePoll(then) ==
    /\ poll = "remove"
    /\ polled' = FALSE
    /\ poll' = then
    /\ UNCHANGED <<fd, msgs>>

SendExpire(then) ==
    /\ poll = "send"
    /\ Send(MsgTimerExpire)
    /\ poll' = then
    /\ UNCHANGED fdVars

SendsBeforeDisarming ==
    /\ \/ EpollWait("send") \/ SendExpire("disarm")
       \/ Disarm("remove") \/ RemovePoll("wait")
    /\ PollUnchanged

PollStep ==
    /\ \/ EpollWait("disarm") \/ Disarm("remove")
       \/ RemovePoll("send") \/ SendExpire("wait")
    /\ PollUnchanged

-----------------------------------------------------------------------------
Tick ==
    /\ now < MaxTime
    /\ now' = now + 1
    /\ UNCHANGED <<clientVars, life, mFutureTime, msgs, mTree, taskVars, fdVars, poll>>

TimerInit ==
    /\ now = 0
    /\ exists = Clients
    /\ mTimer = [c \in Clients |-> NULL]
    /\ life = [d \in Delegates |-> "unborn"]
    /\ mClient = [d \in Delegates |-> NULL]
    /\ mFutureTime = [d \in Delegates |-> 0]
    /\ msgs = <<>>
    /\ mTree = NULL
    /\ task = "idle"
    /\ popped = NULL
    /\ client = NULL
    /\ timerOfNow = 0
    /\ fd = Never
    /\ polled = FALSE
    /\ poll = "wait"

TimerNext ==
    \/ \E c \in Clients :
          \/ \E delay \in Delays : start(c, delay)
          \/ stop(c)
          \/ Delete(c)
    \/ TaskStep
    \/ PollStep
    \/ Tick

TimerSpec == TimerInit /\ [][TimerNext]_timerVars

(* Time passes and both threads of the service run; callbacks return.      *)
FairTimerSpec == TimerSpec /\ WF_timerVars(TaskStep) /\ WF_timerVars(PollStep) /\ WF_timerVars(Tick)

-----------------------------------------------------------------------------
(* Every variable has its type, and the heap is one.                       *)
TimerTypeOK ==
    /\ now \in Times /\ timerOfNow \in Times /\ fd \in Times \cup {Never}
    /\ exists \subseteq Clients
    /\ mTimer \in [Clients -> Delegates \cup {NULL}]
    /\ life \in [Delegates -> {"unborn", "live", "deleted"}]
    /\ mClient \in [Delegates -> Clients \cup {NULL}]
    /\ mFutureTime \in [Delegates -> Times]
    /\ \A i \in 1..Len(msgs) :
          \/ msgs[i] = MsgTimerExpire
          \/ \E d \in Delegates : msgs[i] \in {MsgTimerPush(d), MsgTimerRemove(d)}
    /\ mTree \in Trees
    /\ checkTree(mFutureTime, mTree)
    /\ task \in Places
    /\ popped \in Delegates \cup {NULL}
    /\ client \in Clients \cup {NULL}
    /\ polled \in BOOLEAN
    /\ poll \in {"wait", "disarm", "remove", "send"}

Queued(m) == \E i \in 1..Len(msgs) : msgs[i] = m

(* Delegates are neither leaked nor used after they are deleted: a live    *)
(* one still is its client's timer, or its one MsgTimerRemove is on the    *)
(* way; and only live ones are in the heap, in a message or being expired. *)
DelegateLifetime ==
    /\ TimerTypeOK
    /\ \A d \in Delegates :
          life[d] = "live" <=> \/ \E c \in Clients : mTimer[c] = d
                               \/ Queued(MsgTimerRemove(d))
    /\ \A i, j \in 1..Len(msgs) :
          msgs[i].type = "remove" /\ msgs[i].timer = msgs[j].timer => j <= i
    /\ \A c \in Clients : mTimer[c] # NULL =>
          c \in exists /\ mClient[mTimer[c]] = c /\ ~Queued(MsgTimerRemove(mTimer[c]))
    /\ \A d \in Data(mTree) : life[d] = "live"
    /\ task = "read" => life[popped] = "live"

(* Somebody is about to look at the heap again. *)
Attended ==
    \/ task # "idle"
    \/ poll # "wait"
    \/ Queued(MsgTimerExpire)

(* A timer in the heap is never forgotten: the kernel will report its      *)
(* deadline, or a report that is on its way makes the task look at the     *)
(* heap, although the poll thread disarms the timerfd and takes it out of  *)
(* the epoll set with nothing to order it with the task that arms it.      *)
NeverForgotten ==
    top # NULL => Attended \/ (polled /\ fd <= mFutureTime[top])

(* LocTimer implements the timer service its clients rely on.              *)
Service == INSTANCE TimerService WITH
        deadline <- [c \in Clients |->
                       IF mTimer[c] = NULL THEN Never ELSE mFutureTime[mTimer[c]]],
        calling <- IF task = "callback" THEN client ELSE NULL,
        None <- NULL

ImplementsService == Service!Spec
=============================================================================
