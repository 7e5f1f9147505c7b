--------------------------- MODULE Threads_proofs ----------------------------
(***************************************************************************)
(* Proofs about what the threads of the location stack are built from.     *)
(* MsgQueue, for any finite set of receivers and any set of messages:      *)
(* types, one owner per message, no lost wakeup, and that the queue        *)
(* implements the safety part of Mailbox.  LocThread, for any set of       *)
(* delegates: types, and that a delegate is in memory exactly as long as   *)
(* one of its two users needs it.                                          *)
(***************************************************************************)
EXTENDS MsgQueue, LocThread, FiniteSetTheorems, TLAPS

USE QueueAssumption

(* Types.                                                                  *)
LEMMA TypeStep == QueueTypeOK /\ [QueueNext]_queueVars => QueueTypeOK'
<1> SUFFICES ASSUME QueueTypeOK, [QueueNext]_queueVars PROVE QueueTypeOK'
  OBVIOUS
<1> USE DEF QueueTypeOK, RcvStates, Fates
<1>1. ASSUME NEW m \in Msgs, Snd(m) PROVE QueueTypeOK'
  <2>1. ASSUME Signal PROVE rcv' \in [Receivers -> RcvStates]
    BY <2>1 DEF Signal, Waiting
  <2>2. CASE SndRefused(m)
    BY <2>2 DEF SndRefused
  <2>3. CASE SndStored(m)
    <3>1. Append(msg_list, m) \in Seq(Msgs)
      OBVIOUS
    <3> QED BY <2>1, <2>3, <3>1 DEF SndStored
  <2>4. CASE SndNoMemory(m)
    BY <2>1, <2>4 DEF SndNoMemory
  <2> QED BY <1>1, <2>2, <2>3, <2>4 DEF Snd
<1>2. ASSUME NEW r \in Receivers, Receiver(r) PROVE QueueTypeOK'
  <2>1. ASSUME Remove(r) PROVE QueueTypeOK'
    <3>1. /\ Head(msg_list) \in Msgs
          /\ Tail(msg_list) \in Seq(Msgs)
      BY <2>1 DEF Remove
    <3> QED BY <2>1, <3>1 DEF Remove
  <2>2. CASE Rcv(r)
    BY <2>1, <2>2 DEF Rcv, Fail, CondWait
  <2>3. CASE RcvWake(r)
    BY <2>1, <2>3 DEF RcvWake, Fail, CondWait
  <2>4. CASE Spurious(r)
    BY <2>4 DEF Spurious
  <2>5. CASE Delete(r)
    BY <2>5 DEF Delete
  <2> QED BY <1>2, <2>2, <2>3, <2>4, <2>5 DEF Receiver
<1>3. CASE Flush
  BY <1>3 DEF Flush
<1>4. CASE Unblock
  BY <1>4 DEF Unblock
<1>5. CASE UNCHANGED queueVars
  BY <1>5 DEF queueVars
<1> QED BY <1>1, <1>2, <1>3, <1>4, <1>5 DEF QueueNext

(* Types of every reachable state.                                         *)
THEOREM QueueTypes == QueueSpec => []QueueTypeOK
<1>1. QueueInit => QueueTypeOK
  <2> SUFFICES ASSUME QueueInit PROVE QueueTypeOK
    OBVIOUS
  <2>1. msg_list \in Seq(Msgs)
    BY DEF QueueInit
  <2> QED BY <2>1 DEF QueueInit, QueueTypeOK, RcvStates, Fates
<1> QED BY <1>1, TypeStep, PTL DEF QueueSpec

-----------------------------------------------------------------------------
(* Counting the woken receivers. *)

(* There are finitely many of them, and their number is a natural number. *)
LEMMA WokenFinite ==
    /\ IsFiniteSet(Woken)
    /\ Cardinality(Woken) \in Nat
<1>1. Woken \subseteq Receivers
  BY DEF Woken
<1> QED BY <1>1, FS_Subset, FS_CardinalityType

(* Waking one more receiver adds one to their number.                      *)
LEMMA WakeOne ==
    ASSUME QueueTypeOK, NEW r \in Receivers, rcv[r] # "woken",
           rcv' = [rcv EXCEPT ![r] = "woken"]
    PROVE  Cardinality(Woken') = Cardinality(Woken) + 1
<1>1. Woken' = Woken \cup {r}
  BY DEF Woken, QueueTypeOK
<1>2. r \notin Woken
  BY DEF Woken
<1> QED BY <1>1, <1>2, WokenFinite, FS_AddElement

(* A receiver that leaves takes itself off that number.                    *)
LEMMA LeaveOne ==
    ASSUME QueueTypeOK, NEW r \in Receivers, NEW s, s # "woken",
           rcv[r] = "woken", rcv' = [rcv EXCEPT ![r] = s]
    PROVE  Cardinality(Woken') = Cardinality(Woken) - 1
<1>1. Woken' = Woken \ {r}
  BY DEF Woken, QueueTypeOK
<1>2. r \in Woken
  BY DEF Woken
<1> QED BY <1>1, <1>2, WokenFinite, FS_RemoveElement

(* A step of a receiver that was not woken and is not now keeps it.        *)
LEMMA KeepWoken ==
    ASSUME QueueTypeOK, NEW r \in Receivers, NEW s, s # "woken",
           rcv[r] # "woken", rcv' = [rcv EXCEPT ![r] = s]
    PROVE  Woken' = Woken
  BY DEF Woken, QueueTypeOK

(* No step leaves a message without somebody awake to take it. *)
LEMMA WakeupStep == QueueTypeOK /\ NoLostWakeup /\ [QueueNext]_queueVars => NoLostWakeup'
<1> SUFFICES ASSUME QueueTypeOK, NoLostWakeup, [QueueNext]_queueVars PROVE NoLostWakeup'
  OBVIOUS
<1>0. Len(msg_list) \in Nat /\ Cardinality(Woken) \in Nat
  BY WokenFinite DEF QueueTypeOK
<1>1. ASSUME NEW m \in Msgs, Snd(m) PROVE NoLostWakeup'
  <2>1. CASE SndRefused(m)
    BY <2>1 DEF SndRefused, NoLostWakeup, Waiting, Woken
  <2>2. ASSUME ~unblocked, UNCHANGED unblocked, Signal,
               Len(msg_list') \in Nat, Len(msg_list') <= Len(msg_list) + 1
        PROVE  NoLostWakeup'
    <3>1. CASE Waiting = {} /\ UNCHANGED rcv
      BY <3>1 DEF NoLostWakeup, Waiting
    <3>2. ASSUME NEW r \in Waiting, rcv' = [rcv EXCEPT ![r] = "woken"]
          PROVE  NoLostWakeup'
      <4>1. r \in Receivers /\ rcv[r] # "woken" /\ Waiting # {}
        BY <3>2 DEF Waiting
      <4>2. Cardinality(Woken') = Cardinality(Woken) + 1
        BY <3>2, <4>1, WakeOne
      <4> QED BY <1>0, <2>2, <4>1, <4>2 DEF NoLostWakeup
    <3> QED BY <2>2, <3>1, <3>2 DEF Signal
  <2>3. CASE SndStored(m)
    <3>1. Len(msg_list') = Len(msg_list) + 1
      BY <2>3 DEF SndStored, QueueTypeOK
    <3> QED BY <1>0, <2>2, <2>3, <3>1 DEF SndStored
  <2>4. CASE SndNoMemory(m)
    BY <1>0, <2>2, <2>4 DEF SndNoMemory
  <2> QED BY <1>1, <2>1, <2>3, <2>4 DEF Snd
<1>2. ASSUME NEW r \in Receivers, Receiver(r) PROVE NoLostWakeup'
  <2>1. ASSUME Remove(r), rcv[r] \in {"out", "woken"} PROVE NoLostWakeup'
    <3>1. /\ Len(msg_list') = Len(msg_list) - 1
          /\ rcv' = [rcv EXCEPT ![r] = "busy"]
          /\ UNCHANGED unblocked
      BY <2>1 DEF Remove, QueueTypeOK
    <3>2. Waiting' = Waiting
      BY <2>1, <3>1 DEF Waiting, QueueTypeOK
    <3>3. CASE rcv[r] = "woken"
      <4>1. Cardinality(Woken') = Cardinality(Woken) - 1
        BY <3>1, <3>3, LeaveOne
      <4> QED BY <1>0, <3>1, <3>2, <4>1 DEF NoLostWakeup
    <3>4. CASE rcv[r] = "out"
      <4>1. Woken' = Woken
        BY <3>1, <3>4, KeepWoken
      <4> QED BY <1>0, <3>1, <3>2, <4>1 DEF NoLostWakeup
    <3> QED BY <2>1, <3>3, <3>4
  <2>2. ASSUME CondWait(r), msg_list = <<>>, ~unblocked PROVE NoLostWakeup'
    <3>1. Cardinality(Woken') \in Nat
      <4>1. Woken' \subseteq Receivers
        BY DEF Woken
      <4> QED BY <4>1, FS_Subset, FS_CardinalityType
    <3> QED BY <2>2, <3>1 DEF CondWait, NoLostWakeup
  <2>3. ASSUME Fail(r), unblocked PROVE NoLostWakeup'
    BY <2>3 DEF Fail, NoLostWakeup, Waiting, QueueTypeOK
  <2>4. CASE Rcv(r)
    BY <2>1, <2>2, <2>3, <2>4 DEF Rcv
  <2>5. CASE RcvWake(r)
    BY <2>1, <2>2, <2>3, <2>5 DEF RcvWake
  <2>6. CASE Spurious(r)
    <3>1. Cardinality(Woken') = Cardinality(Woken) + 1
      BY <2>6, WakeOne DEF Spurious
    <3>2. Waiting # {} /\ UNCHANGED <<msg_list, unblocked>>
      BY <2>6 DEF Spurious, Waiting
    <3> QED BY <1>0, <3>1, <3>2 DEF NoLostWakeup
  <2>7. CASE Delete(r)
    <3>1. Woken' = Woken /\ Waiting' = Waiting
      BY <2>7, KeepWoken DEF Delete, Waiting, QueueTypeOK
    <3> QED BY <2>7, <3>1 DEF Delete, NoLostWakeup
  <2> QED BY <1>2, <2>4, <2>5, <2>6, <2>7 DEF Receiver
<1>3. CASE Flush
  <2>1. Len(msg_list') = 0 /\ UNCHANGED <<unblocked, rcv>>
    BY <1>3 DEF Flush
  <2> QED BY <1>0, <2>1 DEF NoLostWakeup, Waiting, Woken
<1>4. CASE Unblock
  BY <1>4 DEF Unblock, NoLostWakeup, Waiting, QueueTypeOK
<1>5. CASE UNCHANGED queueVars
  BY <1>5 DEF queueVars, NoLostWakeup, Waiting, Woken
<1> QED BY <1>1, <1>2, <1>3, <1>4, <1>5 DEF QueueNext

(* No receiver sleeps while the queue holds a message nobody is on the way  *)
(* to, or after msg_q_unblock().                                           *)
THEOREM NoWakeupIsLost == QueueSpec => []NoLostWakeup
<1>1. QueueInit => NoLostWakeup
  BY DEF QueueInit, NoLostWakeup, Waiting
<1> QED BY <1>1, WakeupStep, QueueTypes, PTL DEF QueueSpec

-----------------------------------------------------------------------------
(* One owner per message.  The conjuncts of OneOwner need one another: a   *)
(* message may be appended because an unsent one is not in the list, and   *)
(* the one received is in nobody's hands because it was in the list.       *)
LEMMA OwnerStep == QueueTypeOK /\ OneOwner /\ [QueueNext]_queueVars => OneOwner'
<1> SUFFICES ASSUME QueueTypeOK, OneOwner, [QueueNext]_queueVars PROVE OneOwner'
  OBVIOUS
<1> USE DEF QueueTypeOK, Fates, RcvStates
<1>1. ASSUME NEW m \in Msgs, Snd(m) PROVE OneOwner'
  <2>1. CASE SndRefused(m)
    BY <2>1 DEF SndRefused, OneOwner
  <2>2. ASSUME Signal
        PROVE  \A r \in Receivers : rcv'[r] = "busy" <=> rcv[r] = "busy"
    BY <2>2 DEF Signal, Waiting
  <2>3. CASE SndStored(m)
    <3>1. /\ Len(msg_list') = Len(msg_list) + 1
          /\ msg_list'[Len(msg_list) + 1] = m
          /\ \A i \in 1..Len(msg_list) : msg_list'[i] = msg_list[i]
      BY <2>3 DEF SndStored
    <3>2. \A i \in 1..Len(msg_list) : msg_list[i] # m
      BY <2>3 DEF SndStored, OneOwner
    <3> QED BY <2>2, <2>3, <3>1, <3>2 DEF SndStored, OneOwner
  <2>4. CASE SndNoMemory(m)
    BY <2>2, <2>4 DEF SndNoMemory, OneOwner
  <2> QED BY <1>1, <2>1, <2>3, <2>4 DEF Snd
<1>2. ASSUME NEW r \in Receivers, Receiver(r) PROVE OneOwner'
  <2>1. ASSUME Remove(r), rcv[r] # "busy" PROVE OneOwner'
    <3> DEFINE h == Head(msg_list)
    <3>1. /\ h = msg_list[1] /\ h \in Msgs
          /\ Len(msg_list) >= 1
          /\ Len(msg_list') = Len(msg_list) - 1
          /\ \A i \in 1..Len(msg_list') : msg_list'[i] = msg_list[i + 1]
      BY <2>1 DEF Remove
    <3>2. /\ fate[h] = "queued"
          /\ \A s \in Receivers : msg_obj[s] # h
      BY <3>1 DEF OneOwner
    <3>3. /\ msg_obj' = [msg_obj EXCEPT ![r] = h]
          /\ fate' = [fate EXCEPT ![h] = "received"]
          /\ rcv' = [rcv EXCEPT ![r] = "busy"]
      BY <2>1 DEF Remove
    <3> HIDE DEF h
    <3>4. \A i, j \in 1..Len(msg_list') : msg_list'[i] = msg_list'[j] => i = j
      BY <3>1 DEF OneOwner
    <3>5. \A m \in Msgs : (\E i \in 1..Len(msg_list') : msg_list'[i] = m)
                           <=> m # h /\ \E i \in 1..Len(msg_list) : msg_list[i] = m
      <4> TAKE m \in Msgs
      <4>1. ASSUME NEW i \in 1..Len(msg_list'), msg_list'[i] = m
            PROVE  m # h /\ \E k \in 1..Len(msg_list) : msg_list[k] = m
        <5>1. i + 1 \in 1..Len(msg_list) /\ msg_list[i + 1] = m /\ i + 1 # 1
          BY <3>1, <4>1
        <5> QED BY <3>1, <5>1 DEF OneOwner
      <4>2. ASSUME NEW k \in 1..Len(msg_list), msg_list[k] = m, m # h
            PROVE  \E i \in 1..Len(msg_list') : msg_list'[i] = m
        <5>1. k - 1 \in 1..Len(msg_list')
          BY <3>1, <4>2
        <5>2. msg_list'[k - 1] = m
          BY <3>1, <4>2, <5>1
        <5> WITNESS k - 1 \in 1..Len(msg_list')
        <5> QED BY <5>2
      <4> QED BY <4>1, <4>2
    <3>6. \A m \in Msgs : fate'[m] = "queued"
                           <=> \E i \in 1..Len(msg_list') : msg_list'[i] = m
      <4> TAKE m \in Msgs
      <4>1. CASE m = h
        BY <3>1, <3>3, <3>5, <4>1
      <4>2. CASE m # h
        <5>1. fate'[m] = fate[m]
          BY <3>1, <3>3, <4>2
        <5> QED BY <3>5, <4>2, <5>1 DEF OneOwner
      <4> QED BY <4>1, <4>2
    <3>7. \A m \in Msgs : fate'[m] = "received" <=> \E s \in Receivers : msg_obj'[s] = m
      <4> TAKE m \in Msgs
      <4>1. CASE m = h
        BY <3>1, <3>3, <4>1
      <4>2. CASE m # h
        <5>1. fate'[m] = fate[m]
          BY <3>1, <3>3, <4>2
        <5>2. msg_obj[r] # m
          BY <2>1 DEF OneOwner
        <5>3. \A s \in Receivers : msg_obj'[s] = m <=> msg_obj[s] = m
          BY <3>1, <3>3, <4>2, <5>2
        <5> QED BY <5>1, <5>3 DEF OneOwner
      <4> QED BY <4>1, <4>2
    <3>8. \A s, t \in Receivers :
             msg_obj'[s] = msg_obj'[t] => s = t \/ msg_obj'[s] = NoMsg
      <4>1. \A s \in Receivers : msg_obj'[s] = IF s = r THEN h ELSE msg_obj[s]
        BY <3>1, <3>3
      <4> QED BY <3>2, <4>1 DEF OneOwner
    <3>9. \A s \in Receivers : msg_obj'[s] # NoMsg <=> rcv'[s] = "busy"
      BY <3>1, <3>3 DEF OneOwner
    <3> QED BY <3>4, <3>6, <3>7, <3>8, <3>9 DEF OneOwner
  <2>2. CASE Rcv(r)
    BY <2>1, <2>2 DEF Rcv, Fail, CondWait, OneOwner
  <2>3. CASE RcvWake(r)
    BY <2>1, <2>3 DEF RcvWake, Fail, CondWait, OneOwner
  <2>4. CASE Spurious(r)
    BY <2>4 DEF Spurious, OneOwner
  <2>5. CASE Delete(r)
    <3>1. msg_obj[r] \in Msgs
      BY <2>5 DEF Delete, OneOwner
    <3> QED BY <2>5, <3>1 DEF Delete, OneOwner
  <2> QED BY <1>2, <2>2, <2>3, <2>4, <2>5 DEF Receiver
<1>3. CASE Flush
  <2>1. Len(msg_list') = 0 /\ UNCHANGED <<msg_obj, rcv>>
    BY <1>3 DEF Flush
  <2>2. \A m \in Msgs : fate'[m] # "queued" /\ (fate'[m] = "received" <=> fate[m] = "received")
    BY <1>3 DEF Flush
  <2> QED BY <2>1, <2>2 DEF OneOwner
<1>4. CASE Unblock
  BY <1>4 DEF Unblock, OneOwner
<1>5. CASE UNCHANGED queueVars
  BY <1>5 DEF queueVars, OneOwner
<1> QED BY <1>1, <1>2, <1>3, <1>4, <1>5 DEF QueueNext

(* Nothing is received twice, and nothing queued disappears unfreed.       *)
THEOREM MessagesHaveOneOwner == QueueSpec => []OneOwner
<1>1. QueueInit => OneOwner
  BY DEF QueueInit, OneOwner
<1> QED BY <1>1, OwnerStep, QueueTypes, PTL DEF QueueSpec

-----------------------------------------------------------------------------
(* Every step of the queue is a step of the mailbox or leaves it alone.    *)
LEMMA MailboxStep == QueueTypeOK /\ OneOwner /\ [QueueNext]_queueVars => [M!Next]_M!vars
<1> SUFFICES ASSUME QueueTypeOK, OneOwner, [QueueNext]_queueVars PROVE [M!Next]_M!vars
  OBVIOUS
<1> DEFINE settled == {m \in Msgs : fate[m] \in {"deleted", "rejected"}}
           inside == Waiting \cup Woken
<1> USE DEF QueueTypeOK, Fates, RcvStates
<1>1. ASSUME NEW m \in Msgs, Snd(m) PROVE [M!Next]_M!vars
  <2>1. ASSUME fate[m] = "unsent" PROVE M!Fresh(m)
    BY <2>1 DEF M!Fresh, OneOwner
  <2>2. ASSUME Signal PROVE inside' = inside
    BY <2>2 DEF Signal, Waiting, Woken
  <2>3. CASE SndStored(m)
    <3>1. settled' = settled
      BY <2>3 DEF SndStored
    <3>2. M!Accept(m)
      BY <2>1, <2>2, <2>3, <3>1 DEF SndStored, M!Accept
    <3> QED BY <3>2 DEF M!Next
  <2>4. CASE SndRefused(m) \/ SndNoMemory(m)
    <3>1. settled' = settled \cup {m}
      BY <2>4 DEF SndRefused, SndNoMemory
    <3>2. inside' = inside
      BY <2>2, <2>4 DEF SndRefused, SndNoMemory, Waiting, Woken
    <3>3. M!Refuse(m)
      BY <2>1, <2>4, <3>1, <3>2 DEF SndRefused, SndNoMemory, M!Refuse
    <3> QED BY <3>3 DEF M!Next
  <2> QED BY <1>1, <2>3, <2>4 DEF Snd
<1>2. ASSUME NEW r \in Receivers, Receiver(r) PROVE [M!Next]_M!vars
  <2>1. ASSUME Remove(r), rcv[r] = "woken" \/ (rcv[r] = "out" /\ ~unblocked)
        PROVE  M!Receive(r)
    <3>1. Head(msg_list) \in Msgs /\ fate[Head(msg_list)] = "queued"
      BY <2>1 DEF Remove, OneOwner
    <3>2. settled' = settled
      BY <2>1, <3>1 DEF Remove
    <3>3. inside' = inside \ {r}
      BY <2>1 DEF Remove, Waiting, Woken
    <3>4. r \in inside \/ (~unblocked /\ msg_obj[r] = NoMsg)
      BY <2>1 DEF Waiting, Woken, OneOwner
    <3> QED BY <2>1, <3>2, <3>3, <3>4 DEF Remove, M!Receive
  <2>2. CASE Rcv(r)
    <3>1. CASE unblocked /\ Fail(r)
      <4>1. inside' = inside
        BY <2>2, <3>1 DEF Rcv, Fail, Waiting, Woken
      <4> QED BY <3>1, <4>1 DEF Fail, M!vars
    <3>2. CASE ~unblocked /\ Remove(r)
      BY <2>1, <2>2, <3>2 DEF Rcv, M!Next
    <3>3. CASE ~unblocked /\ msg_list = <<>> /\ CondWait(r)
      <4>1. inside' = inside \cup {r} /\ r \notin inside /\ msg_obj[r] = NoMsg
        BY <2>2, <3>3 DEF Rcv, CondWait, Waiting, Woken, OneOwner
      <4>2. M!Block(r)
        BY <3>3, <4>1 DEF CondWait, M!Block
      <4> QED BY <4>2 DEF M!Next
    <3> QED BY <2>2, <3>1, <3>2, <3>3 DEF Rcv
  <2>3. CASE RcvWake(r)
    <3>1. CASE Remove(r)
      BY <2>1, <2>3, <3>1 DEF RcvWake, M!Next
    <3>2. CASE msg_list = <<>> /\ unblocked /\ Fail(r)
      <4>1. inside' = inside \ {r} /\ r \in inside
        BY <2>3, <3>2 DEF RcvWake, Fail, Waiting, Woken
      <4>2. M!Fail(r)
        BY <3>2, <4>1 DEF Fail, M!Fail
      <4> QED BY <4>2 DEF M!Next
    <3>3. CASE msg_list = <<>> /\ ~unblocked /\ CondWait(r)
      <4>1. inside' = inside
        BY <2>3, <3>3 DEF RcvWake, CondWait, Waiting, Woken
      <4> QED BY <3>3, <4>1 DEF CondWait, M!vars
    <3> QED BY <2>3, <3>1, <3>2, <3>3 DEF RcvWake
  <2>4. CASE Spurious(r)
    <3>1. inside' = inside
      BY <2>4 DEF Spurious, Waiting, Woken
    <3> QED BY <2>4, <3>1 DEF Spurious, M!vars
  <2>5. CASE Delete(r)
    <3>1. msg_obj[r] \in Msgs /\ msg_obj[r] # NoMsg
      BY <2>5 DEF Delete, OneOwner
    <3>2. settled' = settled \cup {msg_obj[r]}
      BY <2>5, <3>1 DEF Delete
    <3>3. inside' = inside
      BY <2>5 DEF Delete, Waiting, Woken
    <3>4. M!Finish(r)
      BY <2>5, <3>1, <3>2, <3>3 DEF Delete, M!Finish
    <3> QED BY <3>4 DEF M!Next
  <2> QED BY <1>2, <2>2, <2>3, <2>4, <2>5 DEF Receiver
<1>3. CASE Flush
  <2>1. settled' = settled \cup {msg_list[i] : i \in 1..Len(msg_list)}
    BY <1>3 DEF Flush, OneOwner
  <2>2. inside' = inside
    BY <1>3 DEF Flush, Waiting, Woken
  <2>3. M!Discard
    BY <1>3, <2>1, <2>2 DEF Flush, M!Discard
  <2> QED BY <2>3 DEF M!Next
<1>4. CASE Unblock
  <2>1. inside' = inside
    BY <1>4 DEF Unblock, Waiting, Woken
  <2>2. M!Close
    BY <1>4, <2>1 DEF Unblock, M!Close
  <2> QED BY <2>2 DEF M!Next
<1>5. CASE UNCHANGED queueVars
  BY <1>5 DEF queueVars, M!vars, Waiting, Woken
<1> QED BY <1>1, <1>2, <1>3, <1>4, <1>5 DEF QueueNext

(* The queue is a first-in first-out mailbox, whatever its users do.       *)
THEOREM QueueIsMailbox == QueueSpec => M!Safe
<1>1. QueueInit => M!Init
  BY DEF QueueInit, M!Init, Waiting, Woken
<1> QED BY <1>1, MailboxStep, QueueTypes, MessagesHaveOneOwner, PTL DEF QueueSpec, M!Safe

-----------------------------------------------------------------------------
(* The worker threads: the types, and that a delegate is in memory exactly *)
(* as long as one of its two users needs it                                *)

USE ThreadsAssumption

(* What the invariants say of one delegate, with the two threads that may  *)
(* delete it named instead of quantified.                                  *)
ClientDeletes(d) == pc[Client] = "delete" /\ arg = d
WorkerDeletes(d) == pc[d] = "delete"
Used(d) == ClientHolds(d) \/ WorkerHolds(d) \/ ClientDeletes(d) \/ WorkerDeletes(d)

OneDelegate(d) ==
    /\ life[d] = "live" <=> Used(d)
    /\ life[d] = "live" => mRefCount[d] = Owed(d)
    /\ ClientDeletes(d) => ~WorkerHolds(d) /\ ~WorkerDeletes(d)
    /\ WorkerDeletes(d) => ~ClientHolds(d)

(* The inductive invariant.  The count says which thread deletes, and the  *)
(* lifetime says that a thread that touches the count touches live memory, *)
(* so neither part is inductive alone.                                     *)
IInv == ThreadTypeOK /\ \A d \in Delegates : OneDelegate(d)

(* A delegate in use is owed by its client, its worker, or both. *)
LEMMA OwedValue ==
    ASSUME NEW d \in Delegates
    PROVE  /\ Owed(d) \in 0..2
           /\ Owed(d) > 0 <=> ClientHolds(d) \/ WorkerHolds(d)
           /\ Owed(d) = 0 <=> ~ClientHolds(d) /\ ~WorkerHolds(d)
           /\ Owed(d) = 2 <=> ClientHolds(d) /\ WorkerHolds(d)
  BY DEF Owed

(* The invariant is the conjunction of the properties the runs check.      *)
LEMMA IInvImplies ==
    IInv => RefCountCounts /\ DelegateLifetime /\ DestroyFindsReference
<1> SUFFICES ASSUME IInv PROVE RefCountCounts /\ DelegateLifetime /\ DestroyFindsReference
  OBVIOUS
<1>1. \A d \in Delegates : OneDelegate(d)
  BY DEF IInv
<1>2. RefCountCounts
  BY <1>1 DEF RefCountCounts, OneDelegate
<1>3. ASSUME NEW d \in Delegates, NEW t \in Threads, Deletes(t, d)
      PROVE  (t = Client /\ ClientDeletes(d)) \/ (t = d /\ WorkerDeletes(d))
  BY <1>3 DEF Deletes, Obj, Threads, ClientDeletes, WorkerDeletes
<1>4. ASSUME NEW d \in Delegates
      PROVE  (\E t \in Threads : Deletes(t, d)) <=> ClientDeletes(d) \/ WorkerDeletes(d)
  BY <1>3 DEF Deletes, Obj, Threads, ClientDeletes, WorkerDeletes
<1>5. DelegateLifetime
  <2> SUFFICES ASSUME NEW d \in Delegates
               PROVE  /\ life[d] = "live" <=> Owed(d) > 0 \/ \E t \in Threads : Deletes(t, d)
                      /\ \A t \in Threads : Deletes(t, d) =>
                            /\ Owed(d) = 0
                            /\ \A u \in Threads : Deletes(u, d) => u = t
    BY DEF DelegateLifetime
  <2>1. life[d] = "live" <=> Owed(d) > 0 \/ \E t \in Threads : Deletes(t, d)
    BY <1>1, <1>4, OwedValue DEF OneDelegate, Used
  <2>2. ASSUME NEW t \in Threads, Deletes(t, d) PROVE Owed(d) = 0
    BY <1>1, <1>3, <2>2, OwedValue DEF OneDelegate, ClientDeletes, ClientHolds,
       WorkerDeletes, WorkerHolds
  <2>3. ASSUME NEW t \in Threads, NEW u \in Threads, Deletes(t, d), Deletes(u, d)
        PROVE  u = t
    BY <1>1, <1>3, <2>3 DEF OneDelegate
  <2> QED BY <2>1, <2>2, <2>3
<1>6. DestroyFindsReference
  <2> SUFFICES ASSUME NEW t \in Threads, pc[t] \in {"destroy", "drop"}
               PROVE  mRefCount[Obj(t)] > 0
    BY DEF DestroyFindsReference
  <2>1. Obj(t) \in Delegates /\ (ClientHolds(Obj(t)) \/ WorkerHolds(Obj(t)))
    BY DEF IInv, ThreadTypeOK, Obj, Threads, ClientHolds, WorkerHolds
  <2> QED BY <1>1, <2>1, OwedValue DEF OneDelegate, Used
<1> QED BY <1>2, <1>5, <1>6

(* It holds before any delegate is made. *)
LEMMA InitIInv == ThreadInit => IInv
<1> SUFFICES ASSUME ThreadInit PROVE IInv
  OBVIOUS
<1>1. ThreadTypeOK
  BY DEF ThreadInit, ThreadTypeOK, Threads, PcOfClient, PcOfWorker, Lives
<1>2. ASSUME NEW d \in Delegates PROVE OneDelegate(d)
  BY DEF ThreadInit, OneDelegate, Used, ClientHolds, WorkerHolds, ClientDeletes,
         WorkerDeletes, Threads
<1> QED BY <1>1, <1>2 DEF IInv

(* destroy(), whichever of its two callers runs it.                        *)
LEMMA DestroyStep ==
    ASSUME IInv, NEW t \in Threads, Destroy(t) PROVE IInv'
<1>1. /\ ThreadTypeOK
      /\ \A d \in Delegates : OneDelegate(d)
  BY DEF IInv
<1>2. /\ Obj(t) \in Delegates
      /\ pc[t] \in {"destroy", "drop", "delete"}
  BY <1>1 DEF Destroy, DestroyTest, DestroyDrop, DestroyDelete, ThreadTypeOK, Obj, Threads
<1>3. CASE DestroyTest(t)
  <2>1. pc[t] = "destroy" /\ mRefCount[Obj(t)] > 0
    BY <1>1, <1>2, <1>3, OwedValue DEF DestroyTest, OneDelegate, Used, ClientHolds,
       WorkerHolds, Obj, Threads
  <2>2. pc' = [pc EXCEPT ![t] = "drop"]
    BY <1>3, <2>1 DEF DestroyTest, Goto
  <2>3. ThreadTypeOK'
    BY <1>1, <1>2, <1>3, <2>2 DEF DestroyTest, ThreadTypeOK, Threads, PcOfClient, PcOfWorker,
       delegateVars, callVars, Obj
  <2>4. ASSUME NEW d \in Delegates PROVE OneDelegate(d)'
    BY <1>1, <1>3, <2>1, <2>2 DEF DestroyTest, OneDelegate, Used, ClientHolds,
       WorkerHolds, ClientDeletes, WorkerDeletes, Owed, ThreadTypeOK, Threads,
       delegateVars, callVars
  <2> QED BY <2>3, <2>4 DEF IInv
<1>4. CASE DestroyDrop(t)
  <2> DEFINE o == Obj(t)
  <2>1. /\ life[o] = "live"
        /\ mRefCount[o] = Owed(o)
        /\ mRefCount[o] \in 1..2
    BY <1>1, <1>2, <1>4, OwedValue DEF DestroyDrop, OneDelegate, Used, ClientHolds,
       WorkerHolds, Obj, Threads
  <2>2. ThreadTypeOK'
    BY <1>1, <1>2, <1>4, <2>1 DEF DestroyDrop, ThreadTypeOK, Threads, PcOfClient, PcOfWorker,
       callVars, Obj, Goto, Leave
  <2>3. ASSUME NEW d \in Delegates PROVE OneDelegate(d)'
    BY <1>1, <1>2, <1>4, <2>1 DEF DestroyDrop, OneDelegate, Used, ClientHolds,
       WorkerHolds, ClientDeletes, WorkerDeletes, Owed, ThreadTypeOK, Threads, callVars,
       Obj, Goto, Leave
  <2> QED BY <2>2, <2>3 DEF IInv
<1>5. CASE DestroyDelete(t)
  <2>1. ThreadTypeOK'
    BY <1>1, <1>2, <1>5 DEF DestroyDelete, ThreadTypeOK, Threads, PcOfClient, PcOfWorker,
       callVars, Obj, Goto, Leave, Lives
  <2>2. ASSUME NEW d \in Delegates PROVE OneDelegate(d)'
    BY <1>1, <1>2, <1>5 DEF DestroyDelete, OneDelegate, Used, ClientHolds,
       WorkerHolds, ClientDeletes, WorkerDeletes, Owed, ThreadTypeOK, Threads, callVars,
       Obj, Goto, Leave
  <2> QED BY <2>1, <2>2 DEF IInv
<1> QED BY <1>3, <1>4, <1>5 DEF Destroy

(* The client's own steps.                                                 *)
LEMMA ClientInvStep ==
    ASSUME IInv, ClientStep PROVE IInv'
<1>1. /\ ThreadTypeOK
      /\ \A d \in Delegates : OneDelegate(d)
  BY DEF IInv
<1> USE DEF OneDelegate, Used, ClientHolds, WorkerHolds, ClientDeletes,
            WorkerDeletes, Owed, ThreadTypeOK, Threads, delegateVars, callVars, Goto,
            PcOfClient, PcOfWorker, Lives
<1>2. ASSUME NEW d \in Delegates, NEW joinable \in BOOLEAN, NEW created \in BOOLEAN,
             Construct(d, joinable, created)
      PROVE  IInv'
  <2>1. ThreadTypeOK'
    BY <1>1, <1>2 DEF Construct
  <2>2. ASSUME NEW e \in Delegates, e # d PROVE OneDelegate(e)'
    BY <1>1, <1>2, <2>2 DEF Construct
  <2>3. OneDelegate(d)'
    BY <1>1, <1>2 DEF Construct
  <2> QED BY <2>1, <2>2, <2>3 DEF IInv
<1>3. CASE CreateTest
  BY <1>1, <1>3 DEF CreateTest, IInv
<1>4. CASE Stop
  BY <1>1, <1>4 DEF Stop, IInv
<1>5. CASE Dtor
  BY <1>1, <1>5 DEF Dtor, IInv
<1>6. CASE StopRunnable
  BY <1>1, <1>6 DEF StopRunnable, IInv
<1>7. CASE Join
  BY <1>1, <1>7 DEF Join, IInv
<1>8. CASE Return
  BY <1>1, <1>8 DEF Return, IInv
<1>9. CASE Destroy(Client)
  BY <1>9, DestroyStep DEF Threads
<1> QED BY <1>2, <1>3, <1>4, <1>5, <1>6, <1>7, <1>8, <1>9 DEF ClientStep

(* The worker's steps.                                                     *)
LEMMA WorkerInvStep ==
    ASSUME IInv, NEW w \in Delegates, WorkerStep(w) PROVE IInv'
<1>1. /\ ThreadTypeOK
      /\ \A d \in Delegates : OneDelegate(d)
  BY DEF IInv
<1>2. CASE Destroy(w)
  BY <1>2, DestroyStep DEF Threads
<1> USE DEF OneDelegate, Used, ClientHolds, WorkerHolds, ClientDeletes,
            WorkerDeletes, Owed, ThreadTypeOK, Threads, delegateVars, callVars, Goto,
            PcOfClient, PcOfWorker, Lives
<1>3. CASE Entry(w) \/ PrerunTest(w) \/ LoopTest(w) \/ PostTest(w)
  BY <1>1, <1>3 DEF Entry, PrerunTest, LoopTest, PostTest, Test, IInv
<1>4. CASE Prerun(w) \/ Postrun(w) \/ \E again \in BOOLEAN : RunReturns(w, again)
  BY <1>1, <1>4 DEF Prerun, Postrun, RunReturns, IInv
<1>5. CASE Clear(w)
  BY <1>1, <1>5 DEF Clear, IInv
<1>6. CASE Reap(w)
  BY <1>1, <1>6 DEF Reap, IInv
<1> QED BY <1>2, <1>3, <1>4, <1>5, <1>6 DEF WorkerStep, Outside

(* Every step keeps it. *)
LEMMA NextIInv == IInv /\ [ThreadNext]_threadVars => IInv'
<1> SUFFICES ASSUME IInv, [ThreadNext]_threadVars PROVE IInv'
  OBVIOUS
<1>1. CASE ClientStep
  BY <1>1, ClientInvStep
<1>2. CASE \E d \in Delegates : WorkerStep(d)
  BY <1>2, WorkerInvStep
<1>3. CASE UNCHANGED threadVars
  BY <1>3 DEF IInv, OneDelegate, Used, ClientHolds, WorkerHolds, ClientDeletes,
     WorkerDeletes, Owed, ThreadTypeOK, Threads, threadVars, delegateVars, callVars
<1> QED BY <1>1, <1>2, <1>3 DEF ThreadNext

(* The reference counts, the phases of the delegates and the places of the *)
(* client and the workers always fit together.                             *)
THEOREM Invariance == ThreadSpec => []IInv
  BY InitIInv, NextIInv, PTL DEF ThreadSpec

(* Types of every reachable state.                                         *)
THEOREM TypeCorrect == ThreadSpec => []ThreadTypeOK
<1>1. IInv => ThreadTypeOK
  BY DEF IInv
<1> QED BY <1>1, Invariance, PTL

(* The reference count of LocThreadDelegate is right, nobody uses a deleted *)
(* delegate, nobody leaks one, and destroy() always finds a reference.      *)
THEOREM DelegateSafe ==
    ThreadSpec => []DelegateSafety
<1>1. IInv => DelegateSafety
  BY IInvImplies DEF IInv, DelegateSafety
<1> QED BY <1>1, Invariance, PTL

-----------------------------------------------------------------------------
(* A worker that will not call its runnable again. *)
Past == {"unborn", "reap", "destroy", "drop", "delete", "exited"}

(* FailedStartRunsNothing, carried back to the test in create() that finds *)
(* the runnable NULL: only the worker itself can have cleared it there.    *)
StartInv(d) ==
    /\ pc[Client] = "create" /\ arg = d /\ ~mRunnable[d] => pc[d] \in Past
    /\ pc[Client] \in {"destroy", "drop", "delete", "return"} /\ call = "start"
          /\ arg = d => pc[d] \in Past
    /\ answer[d] = "failed" => life[d] # "unborn" /\ pc[d] \in Past
    /\ mThread = d \/ (pc[Client] \notin {"idle", "gone"} /\ arg = d)
          => life[d] # "unborn"
    /\ pc[Client] \in {"stop", "join"} => call # "start"

(* Every step keeps what is known of a start() under way. *)
LEMMA StartInvStep ==
    ASSUME IInv, NEW d \in Delegates, StartInv(d), [ThreadNext]_threadVars
    PROVE  StartInv(d)'
<1>0. ThreadTypeOK
  BY DEF IInv
<1> USE <1>0 DEF StartInv, Past, ThreadTypeOK, Threads, delegateVars, callVars, Goto,
            PcOfClient, PcOfWorker, Lives
<1>1. CASE \E e \in Delegates, joinable, created \in BOOLEAN :
              Construct(e, joinable, created)
  <2>1. life[d] = "unborn" => pc[d] \in Past
    BY DEF IInv, OneDelegate, Used, WorkerHolds
  <2> QED BY <1>1, <2>1 DEF Construct
<1>2. CASE CreateTest
  <2>1. CASE mRunnable[arg]
    BY <1>2, <2>1 DEF CreateTest
  <2>2. CASE ~mRunnable[arg]
    BY <1>2, <2>2 DEF CreateTest
  <2> QED BY <2>1, <2>2
<1>9. CASE Join
  BY <1>9 DEF Join
<1>10. CASE Return
  BY <1>10 DEF Return
<1>3. CASE Stop \/ StopRunnable
  BY <1>3 DEF Stop, StopRunnable
<1>4. CASE Dtor
  BY <1>4 DEF Dtor
<1>5. CASE \E t \in Threads : Destroy(t)
  BY <1>5 DEF Destroy, DestroyTest, DestroyDrop, DestroyDelete, Leave, Obj
<1>6. CASE \E w \in Delegates : Entry(w) \/ PrerunTest(w) \/ LoopTest(w) \/ PostTest(w)
  BY <1>6 DEF Entry, PrerunTest, LoopTest, PostTest, Test
<1>7. CASE \E w \in Delegates : \/ Prerun(w) \/ Postrun(w) \/ Clear(w) \/ Reap(w)
                                \/ \E again \in BOOLEAN : RunReturns(w, again)
  BY <1>7 DEF Prerun, Postrun, Clear, Reap, RunReturns
<1>8. CASE UNCHANGED threadVars
  BY <1>8 DEF threadVars
<1> QED BY <1>1, <1>2, <1>3, <1>4, <1>5, <1>6, <1>7, <1>8, <1>9, <1>10
        DEF ThreadNext, ClientStep, WorkerStep, Outside

(* After a start() that returned false no worker runs the client's object. *)
THEOREM FailedStartSafe == ThreadSpec => []FailedStartRunsNothing
<1> DEFINE SInv == \A d \in Delegates : StartInv(d)
<1>1. ThreadInit => SInv
  <2> SUFFICES ASSUME ThreadInit, NEW d \in Delegates PROVE StartInv(d)
    OBVIOUS
  <2> QED BY DEF ThreadInit, StartInv, Threads, Past
<1>2. IInv /\ SInv /\ [ThreadNext]_threadVars => SInv'
  BY StartInvStep
<1>3. SInv => FailedStartRunsNothing
  BY DEF StartInv, Past, FailedStartRunsNothing
<1> HIDE DEF SInv
<1> QED BY <1>1, <1>2, <1>3, Invariance, PTL DEF ThreadSpec
=============================================================================
