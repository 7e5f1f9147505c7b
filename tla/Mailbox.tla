------------------------------- MODULE Mailbox -------------------------------
(***************************************************************************)
(* What msg_q promises its users, without its lock, its condition variable *)
(* or its wakeups: messages are received in the order they were accepted,  *)
(* each at most once; a receive fails only once the mailbox is closed; a   *)
(* receiver inside a call never sleeps while it could return.              *)
(***************************************************************************)
EXTENDS Naturals, Sequences

CONSTANTS Receivers, Msgs, NoMsg

VARIABLES
    pending,    \* accepted and not yet received, oldest first
    closed,     \* has the mailbox been closed
    inside,     \* receivers blocked in a call to receive
    held,       \* the message each receiver is working on
    settled     \* messages that were refused, dropped or dealt with

vars == <<pending, closed, inside, held, settled>>

Fresh(m) ==
    /\ m \notin settled
    /\ \A i \in 1..Len(pending) : pending[i] # m
    /\ \A r \in Receivers : held[r] # m

Accept(m) ==
    /\ ~closed
    /\ Fresh(m)
    /\ pending' = Append(pending, m)
    /\ UNCHANGED <<closed, inside, held, settled>>

Refuse(m) ==
    /\ Fresh(m)
    /\ settled' = settled \cup {m}
    /\ UNCHANGED <<pending, closed, inside, held>>

Block(r) ==
    /\ ~closed
    /\ r \notin inside
    /\ held[r] = NoMsg
    /\ pending = <<>>
    /\ inside' = inside \cup {r}
    /\ UNCHANGED <<pending, closed, held, settled>>

Receive(r) ==
    /\ pending # <<>>
    /\ r \in inside \/ (~closed /\ held[r] = NoMsg)
    /\ held' = [held EXCEPT ![r] = Head(pending)]
    /\ pending' = Tail(pending)
    /\ inside' = inside \ {r}
    /\ UNCHANGED <<closed, settled>>

Fail(r) ==
    /\ closed
    /\ pending = <<>>
    /\ r \in inside
    /\ inside' = inside \ {r}
    /\ UNCHANGED <<pending, closed, held, settled>>

Finish(r) ==
    /\ held[r] # NoMsg
    /\ settled' = settled \cup {held[r]}
    /\ held' = [held EXCEPT ![r] = NoMsg]
    /\ UNCHANGED <<pending, closed, inside>>

Discard ==
    /\ settled' = settled \cup {pending[i] : i \in 1..Len(pending)}
    /\ pending' = <<>>
    /\ UNCHANGED <<closed, inside, held>>

Close ==
    /\ closed' = TRUE
    /\ UNCHANGED <<pending, inside, held, settled>>

Init ==
    /\ pending = <<>>
    /\ closed = FALSE
    /\ inside = {}
    /\ held = [r \in Receivers |-> NoMsg]
    /\ settled = {}

Next ==
    \/ \E m \in Msgs : Accept(m) \/ Refuse(m)
    \/ \E r \in Receivers : Block(r) \/ Receive(r) \/ Fail(r) \/ Finish(r)
    \/ Discard
    \/ Close

Safe == Init /\ [][Next]_vars

(* A blocked receiver returns: with a message when one is there, with a    *)
(* failure when the mailbox is closed and drained.                         *)
Prompt ==
    /\ WF_vars(\E r \in Receivers : r \in inside /\ Receive(r))
    /\ \A r \in Receivers : WF_vars(Fail(r))

Spec == Safe /\ Prompt
=============================================================================
