----------------------------- MODULE TimerService -----------------------------
(***************************************************************************)
(* What LocTimer promises its clients, without delegates, heap, messages,  *)
(* timerfd or epoll: a running timer ends by one stop() or by one callback, *)
(* never both; callbacks are made one at a time; and a timer that is due   *)
(* does not stay so.  It does not promise that a callback is never early.  *)
(***************************************************************************)
EXTENDS Naturals

CONSTANTS Clients, Never, None

VARIABLES
    now,        \* the clock
    deadline,   \* of each client's running timer, or Never
    calling     \* the client whose callback is running, or None

vars == <<now, deadline, calling>>

Start(c, time) ==
    /\ deadline[c] = Never
    /\ time \in now..Never - 1
    /\ deadline' = [deadline EXCEPT ![c] = time]
    /\ UNCHANGED <<now, calling>>

Stop(c) ==
    /\ deadline' = [deadline EXCEPT ![c] = Never]
    /\ UNCHANGED <<now, calling>>

Fire(c) ==
    /\ calling = None
    /\ deadline[c] # Never
    /\ deadline' = [deadline EXCEPT ![c] = Never]
    /\ calling' = c
    /\ UNCHANGED now

Return ==
    /\ calling # None
    /\ calling' = None
    /\ UNCHANGED <<now, deadline>>

Tick ==
    /\ now' = now + 1
    /\ UNCHANGED <<deadline, calling>>

Init ==
    /\ now = 0
    /\ deadline = [c \in Clients |-> Never]
    /\ calling = None

Next ==
    \/ \E c \in Clients :
          \/ \E time \in 0..Never - 1 : Start(c, time)
          \/ Stop(c)
          \/ Fire(c)
    \/ Return
    \/ Tick

Safe == Init /\ [][Next]_vars

Punctual == \A c \in Clients : deadline[c] <= now ~> deadline[c] > now

Spec == Safe /\ Punctual
=============================================================================
