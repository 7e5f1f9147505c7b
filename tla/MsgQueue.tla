------------------------------ MODULE MsgQueue ------------------------------
(***************************************************************************)
(* The message queue of gps/utils/msg_q.c: a list of messages, a mutex and *)
(* a condition variable.  Every function but msg_q_rcv() is one critical   *)
(* section of the mutex and so one step; msg_q_rcv() is one step up to     *)
(* pthread_cond_wait(), which gives the mutex up, and one step for every   *)
(* time it comes out of it.                                                *)
(*                                                                         *)
(* msg_list is kept oldest message first: linked_list_add() puts a message *)
(* at the head of its list and linked_list_remove() takes one off the tail.*)
(***************************************************************************)
EXTENDS Naturals, Sequences, FiniteSets

CONSTANTS
    Receivers,  \* threads that call msg_q_rcv()
    Msgs,       \* messages that may be sent, each once
    NoMsg       \* no message

ASSUME QueueAssumption ==
    /\ IsFiniteSet(Receivers)
    /\ NoMsg \notin Msgs

VARIABLES
    msg_list,   \* the queued messages, oldest first
    unblocked,  \* msg_q_unblock() has been called
    rcv,        \* where each receiver is: see RcvStates
    msg_obj,    \* the message each receiver got and has not yet deleted
    fate        \* of each message: see Fates

queueVars == <<msg_list, unblocked, rcv, msg_obj, fate>>

RcvStates == {"out",        \* not in msg_q_rcv()
              "waiting",    \* in the wait set of list_cond
              "woken",      \* woken up, and waiting for list_mutex
              "busy",       \* msg_q_rcv() returned a message
              "failed"}     \* msg_q_rcv() returned an error

Fates == {"unsent", "queued", "received", "deleted",
          "rejected"}       \* msg_q_snd() failed: nobody owns the message

Waiting == {r \in Receivers : rcv[r] = "waiting"}
Woken == {r \in Receivers : rcv[r] = "woken"}

-----------------------------------------------------------------------------
SignalNobody == UNCHANGED rcv

(* pthread_cond_signal(): one waiter, if there is one *)
Signal ==
    \/ Waiting = {} /\ UNCHANGED rcv
    \/ \E r \in Waiting : rcv' = [rcv EXCEPT ![r] = "woken"]

SndRefused(m) ==
    /\ unblocked
    /\ fate[m] = "unsent"
    /\ fate' = [fate EXCEPT ![m] = "rejected"]
    /\ UNCHANGED <<msg_list, unblocked, rcv, msg_obj>>

SndStored(m) ==
    /\ ~unblocked
    /\ fate[m] = "unsent"
    /\ msg_list' = Append(msg_list, m)
    /\ fate' = [fate EXCEPT ![m] = "queued"]
    /\ Signal
    /\ UNCHANGED <<unblocked, msg_obj>>

(* linked_list_add() found no memory for its node *)
SndNoMemory(m) ==
    /\ ~unblocked
    /\ fate[m] = "unsent"
    /\ fate' = [fate EXCEPT ![m] = "rejected"]
    /\ Signal
    /\ UNCHANGED <<msg_list, unblocked, msg_obj>>

Snd(m) == SndRefused(m) \/ SndStored(m) \/ SndNoMemory(m)

-----------------------------------------------------------------------------
RemoveNewest(r) ==
    /\ msg_list # <<>>
    /\ msg_list' = SubSeq(msg_list, 1, Len(msg_list) - 1)
    /\ msg_obj' = [msg_obj EXCEPT ![r] = msg_list[Len(msg_list)]]
    /\ fate' = [fate EXCEPT ![msg_list[Len(msg_list)]] = "received"]
    /\ rcv' = [rcv EXCEPT ![r] = "busy"]
    /\ UNCHANGED unblocked

RemoveCopy(r) ==
    /\ msg_list # <<>>
    /\ msg_list' = msg_list
    /\ msg_obj' = [msg_obj EXCEPT ![r] = Head(msg_list)]
    /\ fate' = [fate EXCEPT ![Head(msg_list)] = "received"]
    /\ rcv' = [rcv EXCEPT ![r] = "busy"]
    /\ UNCHANGED unblocked

(* linked_list_remove() of a list that is not empty *)
Remove(r) ==
    /\ msg_list # <<>>
    /\ msg_list' = Tail(msg_list)
    /\ msg_obj' = [msg_obj EXCEPT ![r] = Head(msg_list)]
    /\ fate' = [fate EXCEPT ![Head(msg_list)] = "received"]
    /\ rcv' = [rcv EXCEPT ![r] = "busy"]
    /\ UNCHANGED unblocked

(* msg_q_rcv() gives up *)
Fail(r) ==
    /\ rcv' = [rcv EXCEPT ![r] = "failed"]
    /\ UNCHANGED <<msg_list, unblocked, msg_obj, fate>>

(* pthread_cond_wait(): gives up the mutex and joins the wait set at once *)
CondWait(r) ==
    /\ rcv' = [rcv EXCEPT ![r] = "waiting"]
    /\ UNCHANGED <<msg_list, unblocked, msg_obj, fate>>

(* msg_q_rcv(), up to its return or its first wait *)
Rcv(r) ==
    /\ rcv[r] = "out"
    /\ \/ unblocked /\ Fail(r)
       \/ ~unblocked /\ Remove(r)
       \/ ~unblocked /\ msg_list = <<>> /\ CondWait(r)

(* the loop of msg_q_rcv(): a woken receiver has the mutex again.  It takes *)
(* what is queued even if the queue has been unblocked meanwhile.          *)
RcvWake(r) ==
    /\ rcv[r] = "woken"
    /\ \/ Remove(r)
       \/ msg_list = <<>> /\ unblocked /\ Fail(r)
       \/ msg_list = <<>> /\ ~unblocked /\ CondWait(r)

(* pthread_cond_wait() may return with nobody having signalled *)
Spurious(r) ==
    /\ rcv[r] = "waiting"
    /\ rcv' = [rcv EXCEPT ![r] = "woken"]
    /\ UNCHANGED <<msg_list, unblocked, msg_obj, fate>>

(* the receiver is done with its message: it deletes it and comes back *)
Delete(r) ==
    /\ rcv[r] = "busy"
    /\ rcv' = [rcv EXCEPT ![r] = "out"]
    /\ fate' = [fate EXCEPT ![msg_obj[r]] = "deleted"]
    /\ msg_obj' = [msg_obj EXCEPT ![r] = NoMsg]
    /\ UNCHANGED <<msg_list, unblocked>>

-----------------------------------------------------------------------------
(* linked_list_flush() calls the dealloc function of every message *)
Flush ==
    /\ msg_list' = <<>>
    /\ fate' = [m \in Msgs |-> IF fate[m] = "queued" THEN "deleted" ELSE fate[m]]
    /\ UNCHANGED <<unblocked, rcv, msg_obj>>

(* a second call returns an error and changes nothing *)
Unblock ==
    /\ ~unblocked
    /\ unblocked' = TRUE
    /\ rcv' = [r \in Receivers |-> IF rcv[r] = "waiting" THEN "woken" ELSE rcv[r]]
    /\ UNCHANGED <<msg_list, msg_obj, fate>>

-----------------------------------------------------------------------------
QueueInit ==
    /\ msg_list = <<>>
    /\ unblocked = FALSE
    /\ rcv = [r \in Receivers |-> "out"]
    /\ msg_obj = [r \in Receivers |-> NoMsg]
    /\ fate = [m \in Msgs |-> "unsent"]

Receiver(r) == Rcv(r) \/ RcvWake(r) \/ Spurious(r) \/ Delete(r)

QueueNext ==
    \/ \E m \in Msgs : Snd(m)
    \/ \E r \in Receivers : Receiver(r)
    \/ Flush
    \/ Unblock

QueueSpec == QueueInit /\ [][QueueNext]_queueVars

(* A thread that has been woken gets the mutex in the end: every critical  *)
(* section is short.  Nothing is assumed of senders, of unblock(), or of   *)
(* what a receiver does with its message.                                  *)
FairQueueSpec == QueueSpec /\ \A r \in Receivers : WF_queueVars(RcvWake(r))

-----------------------------------------------------------------------------
(* Every variable has its type.                                            *)
QueueTypeOK ==
    /\ msg_list \in Seq(Msgs)
    /\ unblocked \in BOOLEAN
    /\ rcv \in [Receivers -> RcvStates]
    /\ msg_obj \in [Receivers -> Msgs \cup {NoMsg}]
    /\ fate \in [Msgs -> Fates]

(* No wakeup is lost: while a receiver sleeps, every queued message has a  *)
(* woken receiver on its way to it, and no receiver sleeps on an unblocked *)
(* queue.  One signal per message and the loop around the wait suffice,    *)
(* although a receiver that never slept may take the message first.        *)
NoLostWakeup ==
    Waiting # {} => ~unblocked /\ Len(msg_list) <= Cardinality(Woken)

(* Every message has one owner: it is queued once, or one receiver has it, *)
(* or it is gone.  Nothing is received twice, and nothing that was queued  *)
(* is dropped without its dealloc function.                                *)
OneOwner ==
    /\ \A i, j \in 1..Len(msg_list) : msg_list[i] = msg_list[j] => i = j
    /\ \A m \in Msgs :
          /\ fate[m] = "queued" <=> \E i \in 1..Len(msg_list) : msg_list[i] = m
          /\ fate[m] = "received" <=> \E r \in Receivers : msg_obj[r] = m
    /\ \A r, s \in Receivers : msg_obj[r] = msg_obj[s] => r = s \/ msg_obj[r] = NoMsg
    /\ \A r \in Receivers : msg_obj[r] # NoMsg <=> rcv[r] = "busy"

(* The queue implements the mailbox: first in, first out, failure only     *)
(* after msg_q_unblock(), and no receiver left asleep.                     *)
M == INSTANCE Mailbox WITH
        pending <- msg_list,
        closed <- unblocked,
        inside <- Waiting \cup Woken,
        held <- msg_obj,
        settled <- {m \in Msgs : fate[m] \in {"deleted", "rejected"}}

ImplementsMailbox == M!Spec
=============================================================================
