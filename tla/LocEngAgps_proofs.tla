-------------------------- MODULE LocEngAgps_proofs --------------------------
(***************************************************************************)
(* Proofs about LocEngAgps for any number of handles, retries and restarts *)
(* and for every set of NIFs the program can have.                         *)
(***************************************************************************)
EXTENDS LocEngAgps, FiniteSetTheorems, TLAPS

(* What the queue may hold after n restarts. *)
Expected(n) == {x \in Message : x # Report("ds", "DENIED") /\ (x = EngineUp => n > 0)}

(* The types of what the handler of a message changes, but for the queue. *)
HandlerTypes ==
    /\ mStatePtr \in [AllNifs -> {"released", "pending", "acquired", "releasing"}]
    /\ sub \in [AllNifs -> [Handles -> {"none", "active", "inactive"}]]
    /\ mRetries \in 0..MaxRetries
    /\ timers \in Nat
    /\ asked \in [AllNifs -> Seq({"REQUEST", "RELEASE"})]
    /\ told \in [Handles -> {"unused", "waiting", "opened", "refused", "closed",
                             "forgotten"}]
    /\ answers \in [Handles -> 0..2]

OtherTypes ==
    /\ nifs \in {{}, Nifs}
    /\ agps_status_cb \in BOOLEAN
    /\ conn \in [AllNifs -> {"open", "closed"}]
    /\ kind \in [Handles -> {"none", "atl", "es"}]
    /\ released \in [Handles -> BOOLEAN]
    /\ restarts \in 0..MaxRestarts

(* StateFitsSubscribers of one machine, handle by handle; and that only    *)
(* "ds" has inactive subscribers, without which the others could reach the *)
(* releasing state.                                                        *)
Fits(m) ==
    /\ mStatePtr[m] \in {"pending", "acquired"} =>
          (\E h \in Handles : sub[m][h] = "active") \/ (m # "ds" /\ restarts > 0)
    /\ mStatePtr[m] = "releasing" =>
          m = "ds" /\ \E h \in Handles : sub[m][h] = "inactive"
    /\ mStatePtr[m] = "released" =>
          \A h \in Handles : IF m = "ds" THEN sub[m][h] # "inactive"
                                         ELSE sub[m][h] = "none"
    /\ m # "ds" => \A h \in Handles : sub[m][h] # "inactive"

AllFit == \A m \in AllNifs : Fits(m)

IInv ==
    /\ HandlerTypes
    /\ OtherTypes
    /\ msgs \in Seq(Expected(restarts))
    /\ AllFit

-----------------------------------------------------------------------------
(* What a message of each type carries. *)
LEMMA MessageFields ==
    ASSUME NEW x \in Message
    PROVE  /\ x.type = "requestATL" => x.handle \in Handles /\ x.nif \in AllNifs
           /\ x.type \in {"requestSuplES", "releaseATL"} => x.handle \in Handles
           /\ x.type \in {"GRANTED", "DENIED", "RELEASED"} => x.nif \in AllNifs
           /\ x.type = "engineUp" => x = EngineUp
  BY DEF Message, NifInit, EngineUp

(* What the program sends is expected. *)
LEMMA SentIsExpected ==
    ASSUME NEW n \in Nat
    PROVE  /\ \A h \in Handles : \A m \in AllNifs \ {"ds"} :
                 AtlRequest(h, m) \in Expected(n)
           /\ \A h \in Handles : EsRequest(h) \in Expected(n)
           /\ \A h \in Handles : Release(h) \in Expected(n)
           /\ \A m \in AllNifs : \A event \in {"GRANTED", "RELEASED"} :
                 Report(m, event) \in Expected(n)
           /\ \A m \in AllNifs \ {"ds"} : Report(m, "DENIED") \in Expected(n)
           /\ NifInit \in Expected(n)
           /\ n > 0 => EngineUp \in Expected(n)
  BY DEF Expected, Message, AtlRequest, EsRequest, Release, Report, NifInit, EngineUp

(* Telling the modem keeps what it was told within its type. *)
LEMMA TellTypes ==
    ASSUME HandlerTypes, NEW H \in SUBSET Handles,
           NEW status \in {"opened", "refused", "closed"}, Tell(H, status)
    PROVE  /\ told' \in [Handles -> {"unused", "waiting", "opened", "refused",
                                     "closed", "forgotten"}]
           /\ answers' \in [Handles -> 0..2]
  BY DEF Tell, HandlerTypes

(* The fallback puts requests for "agnss" at the end of the queue. *)
LEMMA FallBackAppends ==
    ASSUME AgpsAssumption, NEW n \in Nat, NEW H \in SUBSET Handles,
           NEW q \in Seq(Expected(n)), FallBack(H, q)
    PROVE  \E t \in Seq(Expected(n)) :
              /\ msgs' = q \o t
              /\ \A i \in 1..Len(t) : \E h \in H : t[i] = AtlRequest(h, "agnss")
  <1>1. PICK order \in SetToSeqs(H) :
            msgs' = q \o [i \in 1..Len(order) |-> AtlRequest(order[i], "agnss")]
    BY DEF FallBack
  <1>2. IsFiniteSet(Handles)
    BY FS_Interval DEF AgpsAssumption, Handles
  <1>3. Cardinality(H) \in Nat
    BY <1>2, FS_Subset, FS_CardinalityType
  <1>4. order \in [1..Cardinality(H) -> H]
    BY DEF SetToSeqs
  <1>5. order \in Seq(H) /\ Len(order) \in Nat
    BY <1>3, <1>4
  <1> DEFINE t == [i \in 1..Len(order) |-> AtlRequest(order[i], "agnss")]
  <1>6. \A i \in 1..Len(order) : order[i] \in H
    BY <1>5
  <1>7. t \in Seq(Expected(n)) /\ Len(t) = Len(order)
    <2>1. \A i \in 1..Len(order) : AtlRequest(order[i], "agnss") \in Expected(n)
      BY <1>6, SentIsExpected DEF AllNifs
    <2> QED
      BY <1>5, <2>1
  <1>8. \A i \in 1..Len(t) : \E h \in H : t[i] = AtlRequest(h, "agnss")
    BY <1>6, <1>7
  <1> HIDE DEF t
  <1>9. msgs' = q \o t
    BY <1>1 DEF t
  <1> QED
    BY <1>7, <1>8, <1>9

LEMMA FallBackTypes ==
    ASSUME AgpsAssumption, NEW n \in Nat, NEW H \in SUBSET Handles,
           NEW q \in Seq(Expected(n)), FallBack(H, q)
    PROVE  /\ mRetries' \in 0..MaxRetries
           /\ msgs' \in Seq(Expected(n))
  <1>1. PICK t \in Seq(Expected(n)) : msgs' = q \o t
    BY FallBackAppends
  <1>2. q \o t \in Seq(Expected(n))
    OBVIOUS
  <1>3. mRetries' \in 0..MaxRetries
    BY DEF FallBack, AgpsAssumption
  <1> QED
    BY <1>1, <1>2, <1>3

(* Notifying subscribers changes what the modem was told, the retries, and *)
(* the queue, each within its type.                                        *)
LEMMA NotifyTypes ==
    ASSUME AgpsAssumption, HandlerTypes, NEW n \in Nat,
           NEW m \in AllNifs, NEW H \in SUBSET Handles,
           NEW event \in {"GRANTED", "DENIED", "RELEASED", "UNSUBSCRIBE"},
           NEW q \in Seq(Expected(n)), Notify(m, H, event, q)
    PROVE  /\ told' \in [Handles -> {"unused", "waiting", "opened", "refused",
                                     "closed", "forgotten"}]
           /\ answers' \in [Handles -> 0..2]
           /\ mRetries' \in 0..MaxRetries
           /\ msgs' \in Seq(Expected(n))
  <1>1. CASE FallBack(H, q) /\ TellNobody
    BY <1>1, FallBackTypes DEF TellNobody, HandlerTypes
  <1>2. CASE msgs' = q /\ TellNobody /\ UNCHANGED mRetries
    BY <1>2 DEF TellNobody, HandlerTypes
  <1>3. CASE Tell(H, StatusOf(event)) /\ msgs' = q /\ UNCHANGED mRetries
    <2>1. StatusOf(event) \in {"opened", "refused", "closed"}
      BY DEF StatusOf
    <2> QED
      BY <1>3, <2>1, TellTypes DEF HandlerTypes
  <1> QED
    BY <1>1, <1>2, <1>3 DEF Notify

-----------------------------------------------------------------------------
(* What every handler of a message guarantees. *)
Handled ==
    /\ HandlerTypes'
    /\ msgs' \in Seq(Expected(restarts))
    /\ AllFit'

(* A machine that is left alone still fits its subscribers. *)
LEMMA OthersFit ==
    ASSUME AllFit, HandlerTypes, restarts' = restarts, NEW m \in AllNifs,
           \A k \in AllNifs \ {m} : mStatePtr'[k] = mStatePtr[k] /\ sub'[k] = sub[k],
           Fits(m)'
    PROVE  AllFit'
  BY DEF AllFit, Fits

(* Asking the framework keeps its inbox within its type. *)
LEMMA AskTypes ==
    ASSUME HandlerTypes, NEW m \in AllNifs, NEW action \in {"REQUEST", "RELEASE"},
           Ask(m, action)
    PROVE  asked' \in [AllNifs -> Seq({"REQUEST", "RELEASE"})]
  BY DEF Ask, HandlerTypes

(* A call of the data services that fails leaves all within its type. *)
LEMMA RequestFailsTypes ==
    ASSUME AgpsAssumption, HandlerTypes, NEW n \in Nat, NEW q \in Seq(Expected(n)),
           RequestFails(q)
    PROVE  /\ mRetries' \in 0..MaxRetries
           /\ timers' \in Nat
           /\ msgs' \in Seq(Expected(n))
           /\ UNCHANGED <<told, answers, asked>>
  <1>1. Active(sub', "ds") \subseteq Handles
    BY DEF Active
  <1>2. ASSUME NEW h \in Active(sub', "ds"), FallBack({h}, q), UNCHANGED timers
        PROVE  mRetries' \in 0..MaxRetries /\ timers' \in Nat /\ msgs' \in Seq(Expected(n))
    <2>1. {h} \in SUBSET Handles
      BY <1>1, <1>2
    <2> QED
      BY <1>2, <2>1, FallBackTypes DEF HandlerTypes
  <1>3. ASSUME Busy(q)
        PROVE  mRetries' \in 0..MaxRetries /\ timers' \in Nat /\ msgs' \in Seq(Expected(n))
    <2>1. CASE mRetries + 1 > MaxRetries
      BY <1>2, <1>3, <2>1 DEF Busy
    <2>2. CASE ~(mRetries + 1 > MaxRetries)
      BY <1>3, <2>2 DEF Busy, HandlerTypes, AgpsAssumption
    <2> QED
      BY <2>1, <2>2
  <1>4. CASE msgs' = q /\ UNCHANGED callVars
    BY <1>4 DEF callVars, HandlerTypes, RequestFails, TellNobody
  <1> QED
    BY <1>2, <1>3, <1>4 DEF RequestFails, TellNobody

-----------------------------------------------------------------------------
(* Subscribing a handle. *)
LEMMA SubscribeHandled ==
    ASSUME AgpsAssumption, IInv, restarts' = restarts,
           NEW m \in AllNifs, NEW h \in Handles, NEW q \in Seq(Expected(restarts)),
           Subscribe(m, h, q)
    PROVE  Handled
  <1> USE DEF Handled
  <1>0. /\ Fits(m) /\ AllFit /\ HandlerTypes
        /\ sub \in [AllNifs -> [Handles -> {"none", "active", "inactive"}]]
    BY DEF IInv, AllFit, HandlerTypes
  <1>1. restarts \in Nat
    BY DEF IInv, OtherTypes, AgpsAssumption
  <1>2. Add(m, h) \in [AllNifs -> [Handles -> {"none", "active", "inactive"}]]
    BY <1>0 DEF Add
  <1>3. /\ \A k \in AllNifs \ {m} : Add(m, h)[k] = sub[k]
        /\ \A g \in Handles \ {h} : Add(m, h)[m][g] = sub[m][g]
        /\ Add(m, h)[m][h] = IF sub[m][h] = "none" THEN "active" ELSE sub[m][h]
    BY <1>0 DEF Add
  <1>4. CASE SubscribeReleased(m, h, q)
    <2>1. sub[m][h] \in {"none", "active"}
      BY <1>0, <1>4 DEF SubscribeReleased, Fits
    <2>2. /\ Add(m, h)[m][h] = "active"
          /\ \A g \in Handles : Add(m, h)[m][g] # "inactive"
      BY <1>0, <1>3, <1>4, <2>1 DEF SubscribeReleased, Fits
    <2>3. CASE RequestSent(m, q) /\ mStatePtr' = [mStatePtr EXCEPT ![m] = "pending"]
      <3>1. HandlerTypes' /\ msgs' \in Seq(Expected(restarts))
        BY <1>0, <1>2, <1>4, <2>3, AskTypes
           DEF SubscribeReleased, RequestSent, TellNobody, callVars, HandlerTypes
      <3>2. Fits(m)'
        BY <1>0, <1>4, <2>2, <2>3 DEF SubscribeReleased, Fits, HandlerTypes
      <3> QED
        BY <1>0, <1>3, <1>4, <2>3, <3>1, <3>2, OthersFit DEF SubscribeReleased, HandlerTypes
    <2>4. CASE m = "ds" /\ RequestFails(q) /\ UNCHANGED mStatePtr
      <3>1. HandlerTypes' /\ msgs' \in Seq(Expected(restarts))
        BY <1>0, <1>1, <1>2, <1>4, <2>4, RequestFailsTypes DEF SubscribeReleased, HandlerTypes
      <3>2. Fits(m)'
        BY <1>0, <1>4, <2>2, <2>4 DEF SubscribeReleased, Fits, HandlerTypes
      <3> QED
        BY <1>0, <1>3, <1>4, <2>4, <3>1, <3>2, OthersFit DEF SubscribeReleased, HandlerTypes
    <2> QED
      BY <1>4, <2>3, <2>4 DEF SubscribeReleased
  <1>5. CASE SubscribeWaiting(m, h, q)
    <2>1. HandlerTypes' /\ msgs' \in Seq(Expected(restarts))
      BY <1>0, <1>2, <1>5 DEF SubscribeWaiting, TellNobody, callVars, HandlerTypes
    <2>2. Fits(m)'
      BY <1>0, <1>3, <1>5
         DEF SubscribeWaiting, Fits
    <2> QED
      BY <1>0, <1>3, <1>5, <2>1, <2>2, OthersFit DEF SubscribeWaiting, HandlerTypes
  <1>6. CASE SubscribeAcquired(m, h, q)
    <2>1. HandlerTypes' /\ msgs' \in Seq(Expected(restarts))
      <3>1. {h} \in SUBSET Handles
        OBVIOUS
      <3> QED
        BY <1>0, <1>1, <1>2, <1>6, <3>1, NotifyTypes DEF SubscribeAcquired, HandlerTypes
    <2>2. Fits(m)'
      BY <1>0, <1>3, <1>6
         DEF SubscribeAcquired, Fits
    <2> QED
      BY <1>0, <1>3, <1>6, <2>1, <2>2, OthersFit DEF SubscribeAcquired, HandlerTypes
  <1> QED
    BY <1>4, <1>5, <1>6 DEF Subscribe

(* Unsubscribing a handle. *)
LEMMA UnsubscribeHandled ==
    ASSUME AgpsAssumption, IInv, restarts' = restarts,
           NEW m \in AllNifs, NEW h \in Handles, NEW q \in Seq(Expected(restarts)),
           Unsubscribe(m, h, q)
    PROVE  Handled
  <1> USE DEF Handled
  <1>0. /\ Fits(m) /\ AllFit /\ HandlerTypes
        /\ sub \in [AllNifs -> [Handles -> {"none", "active", "inactive"}]]
    BY DEF IInv, AllFit, HandlerTypes
  <1>1. restarts \in Nat
    BY DEF IInv, OtherTypes, AgpsAssumption
  <1>2. {h} \in SUBSET Handles
    OBVIOUS
  <1>3. CASE UnsubscribeReleased(m, h, q)
    <2>1. HandlerTypes' /\ msgs' \in Seq(Expected(restarts))
      BY <1>0, <1>1, <1>2, <1>3, NotifyTypes DEF UnsubscribeReleased, smVars, HandlerTypes
    <2>2. AllFit'
      BY <1>0, <1>3 DEF UnsubscribeReleased, smVars, AllFit, Fits
    <2> QED
      BY <2>1, <2>2
  <1>4. CASE UnsubscribeHeld(m, h, q)
    <2>1. /\ sub' \in [AllNifs -> [Handles -> {"none", "active", "inactive"}]]
          /\ \A k \in AllNifs \ {m} : sub'[k] = sub[k]
          /\ \A g \in Handles \ {h} : sub'[m][g] = sub[m][g]
          /\ sub'[m][h] = IF m = "ds" THEN "inactive" ELSE "none"
      BY <1>0, <1>4 DEF UnsubscribeHeld, HandlerTypes
    <2>2. /\ mStatePtr' \in [AllNifs -> {"released", "pending", "acquired", "releasing"}]
          /\ \A k \in AllNifs \ {m} : mStatePtr'[k] = mStatePtr[k]
          /\ mStatePtr'[m] = IF Subscribers(sub', m) = {} THEN "released"
                             ELSE IF Active(sub', m) = {} THEN "releasing"
                             ELSE mStatePtr[m]
      BY <1>0, <1>4 DEF UnsubscribeHeld, HandlerTypes
    <2>3. asked' \in [AllNifs -> Seq({"REQUEST", "RELEASE"})]
      BY <1>0, <1>4, AskTypes DEF UnsubscribeHeld, HandlerTypes
    <2>4. HandlerTypes' /\ msgs' \in Seq(Expected(restarts))
      BY <1>0, <1>1, <1>2, <1>4, <2>1, <2>2, <2>3, NotifyTypes DEF UnsubscribeHeld, HandlerTypes
    <2>5. m # "ds" => \A g \in Handles : sub'[m][g] # "inactive"
      BY <1>0, <2>1 DEF Fits
    <2>6. m = "ds" => sub'[m][h] = "inactive"
      BY <2>1
    <2>7. mStatePtr[m] \in {"pending", "acquired", "releasing"}
      BY <1>0, <1>4 DEF UnsubscribeHeld, HandlerTypes
    <2>8. Fits(m)'
      <3>1. CASE Subscribers(sub', m) = {}
        BY <1>0, <2>2, <2>5, <2>6, <3>1 DEF Fits, Subscribers
      <3>2. CASE Subscribers(sub', m) # {} /\ Active(sub', m) = {}
        <4>1. m = "ds"
          BY <1>0, <2>1, <2>5, <3>2 DEF Active, Subscribers
        <4> QED
          BY <1>0, <2>2, <2>6, <3>2, <4>1 DEF Fits
      <3>3. CASE Subscribers(sub', m) # {} /\ Active(sub', m) # {}
        BY <1>0, <2>2, <2>5, <2>6, <2>7, <3>3 DEF Fits, Active
      <3> QED
        BY <3>1, <3>2, <3>3
    <2>9. \A k \in AllNifs \ {m} : mStatePtr'[k] = mStatePtr[k] /\ sub'[k] = sub[k]
      BY <2>1, <2>2
    <2>10. AllFit'
      BY <1>0, <2>8, <2>9, OthersFit
    <2> QED
      BY <2>4, <2>10
  <1> QED
    BY <1>3, <1>4 DEF Unsubscribe

(* An event of the framework or the data services. *)
LEMMA EventHandled ==
    ASSUME AgpsAssumption, IInv, restarts' = restarts, NEW m \in AllNifs,
           NEW event \in {"GRANTED", "DENIED", "RELEASED"},
           NEW q \in Seq(Expected(restarts)), OnRsrcEvent(m, event, q)
    PROVE  Handled
  <1> USE DEF Handled
  <1>0. /\ Fits(m) /\ AllFit /\ HandlerTypes
        /\ sub \in [AllNifs -> [Handles -> {"none", "active", "inactive"}]]
        /\ mStatePtr \in [AllNifs -> {"released", "pending", "acquired", "releasing"}]
    BY DEF IInv, AllFit, HandlerTypes
  <1>1. restarts \in Nat
    BY DEF IInv, OtherTypes, AgpsAssumption
  <1>2. /\ Active(sub, m) \in SUBSET Handles
        /\ Subscribers(sub, m) \in SUBSET Handles
    BY DEF Active, Subscribers
  <1>3. ASSUME NEW e \in {"DENIED", "RELEASED"}, DropAll(m, e, q)
        PROVE  Handled
    <2>1. /\ sub' \in [AllNifs -> [Handles -> {"none", "active", "inactive"}]]
          /\ \A k \in AllNifs \ {m} : sub'[k] = sub[k]
          /\ \A g \in Handles : sub'[m][g] = "none"
      BY <1>0, <1>3 DEF DropAll, NoSubscribers
    <2>2. /\ mStatePtr' \in [AllNifs -> {"released", "pending", "acquired", "releasing"}]
          /\ \A k \in AllNifs \ {m} : mStatePtr'[k] = mStatePtr[k]
          /\ mStatePtr'[m] = "released"
      BY <1>0, <1>3 DEF DropAll
    <2>3. HandlerTypes' /\ msgs' \in Seq(Expected(restarts))
      <3>1. Notify(m, Subscribers(sub, m), e, q)
        BY <1>3 DEF DropAll
      <3>2. e \in {"GRANTED", "DENIED", "RELEASED", "UNSUBSCRIBE"}
        BY <1>3
      <3>3. /\ told' \in [Handles -> {"unused", "waiting", "opened", "refused",
                                      "closed", "forgotten"}]
            /\ answers' \in [Handles -> 0..2]
            /\ mRetries' \in 0..MaxRetries
            /\ msgs' \in Seq(Expected(restarts))
        BY <1>0, <1>1, <1>2, <3>1, <3>2, NotifyTypes
      <3> QED
        BY <1>0, <1>3, <2>1, <2>2, <3>3 DEF DropAll, HandlerTypes
    <2>4. Fits(m)'
      BY <2>1, <2>2 DEF Fits
    <2>5. AllFit'
      BY <1>0, <2>1, <2>2, <2>4, OthersFit
    <2> QED
      BY <2>3, <2>5
  <1>4. CASE Granted(m, q)
    <2>1. /\ mStatePtr' \in [AllNifs -> {"released", "pending", "acquired", "releasing"}]
          /\ \A k \in AllNifs \ {m} : mStatePtr'[k] = mStatePtr[k]
          /\ mStatePtr'[m] = "acquired"
          /\ sub' = sub
      BY <1>0, <1>4 DEF Granted
    <2>2. HandlerTypes' /\ msgs' \in Seq(Expected(restarts))
      BY <1>0, <1>1, <1>2, <1>4, <2>1, NotifyTypes DEF Granted, HandlerTypes
    <2>3. Fits(m)'
      BY <1>0, <1>4, <2>1 DEF Granted, Fits
    <2>4. AllFit'
      BY <1>0, <2>1, <2>3, OthersFit
    <2> QED
      BY <2>2, <2>4
  <1>5. CASE Closed(m, q)
    <2>1. /\ sub' \in [AllNifs -> [Handles -> {"none", "active", "inactive"}]]
          /\ \A k \in AllNifs \ {m} : sub'[k] = sub[k]
          /\ \A g \in Handles :
                sub'[m][g] = IF sub[m][g] = "inactive" THEN "none" ELSE sub[m][g]
      BY <1>0, <1>5 DEF Closed
    <2>2. CASE Active(sub, m) # {}
      <3>1. /\ mStatePtr' \in [AllNifs -> {"released", "pending", "acquired", "releasing"}]
            /\ \A k \in AllNifs \ {m} : mStatePtr'[k] = mStatePtr[k]
            /\ mStatePtr'[m] = "pending"
        BY <1>0, <1>5, <2>2 DEF Closed
      <3>2. \E g \in Handles : sub'[m][g] = "active"
        BY <2>1, <2>2 DEF Active
      <3>3. Fits(m)'
        BY <2>1, <3>1, <3>2 DEF Fits
      <3>4. AllFit'
        BY <1>0, <2>1, <3>1, <3>3, OthersFit
      <3>5. HandlerTypes' /\ msgs' \in Seq(Expected(restarts))
        BY <1>0, <1>1, <1>5, <2>1, <2>2, <3>1, AskTypes, RequestFailsTypes
           DEF Closed, RequestSent, TellNobody, callVars, HandlerTypes
      <3> QED
        BY <3>4, <3>5
    <2>3. CASE Active(sub, m) = {}
      <3>1. /\ mStatePtr' \in [AllNifs -> {"released", "pending", "acquired", "releasing"}]
            /\ \A k \in AllNifs \ {m} : mStatePtr'[k] = mStatePtr[k]
            /\ mStatePtr'[m] = "released"
        BY <1>0, <1>5, <2>3 DEF Closed
      <3>2. HandlerTypes' /\ msgs' \in Seq(Expected(restarts))
        BY <1>0, <1>5, <2>1, <2>3, <3>1 DEF Closed, TellNobody, callVars, HandlerTypes
      <3>3. \A g \in Handles : sub'[m][g] = "none"
        BY <1>0, <2>1, <2>3 DEF Active
      <3>4. Fits(m)'
        BY <3>1, <3>3 DEF Fits
      <3>5. AllFit'
        BY <1>0, <2>1, <3>1, <3>4, OthersFit
      <3> QED
        BY <3>2, <3>5
    <2> QED
      BY <2>2, <2>3
  <1>6. CASE EventIgnored(m, event, q)
    <2>1. HandlerTypes' /\ msgs' \in Seq(Expected(restarts))
      BY <1>0, <1>6 DEF EventIgnored, smVars, callVars, TellNobody, HandlerTypes
    <2>2. AllFit'
      BY <1>0, <1>6 DEF EventIgnored, smVars, AllFit, Fits
    <2> QED
      BY <2>1, <2>2
  <1> QED
    BY <1>3, <1>4, <1>5, <1>6 DEF OnRsrcEvent, Denied, ForceReleased

-----------------------------------------------------------------------------
(* What a message that has arrived leaves behind and carries. *)
LEMMA Arrival ==
    ASSUME IInv, msgs # <<>>
    PROVE  /\ Head(msgs) \in Message
           /\ Head(msgs) \in Expected(restarts)
           /\ Rest \in Seq(Expected(restarts))
  BY DEF IInv, Expected, Rest

(* A handler that keeps the other variables keeps the invariant. *)
LEMMA HandledKeeps ==
    ASSUME IInv, Handled, UNCHANGED <<initVars, conn, modemVars>>
    PROVE  IInv'
  BY DEF IInv, Handled, OtherTypes, initVars, modemVars

(* A handle that nobody holds is told so. *)
LEMMA TellHandled ==
    ASSUME IInv, NEW h \in Handles, NEW status \in {"refused", "closed"},
           Tell({h}, status), msgs' = Rest, Rest \in Seq(Expected(restarts)),
           restarts' = restarts, UNCHANGED <<smVars, callVars, asked>>
    PROVE  Handled
  <1>1. HandlerTypes /\ AllFit
    BY DEF IInv
  <1>2. /\ told' \in [Handles -> {"unused", "waiting", "opened", "refused",
                                  "closed", "forgotten"}]
        /\ answers' \in [Handles -> 0..2]
    BY <1>1, TellTypes
  <1>3. HandlerTypes'
    BY <1>1, <1>2 DEF HandlerTypes, smVars, callVars
  <1>4. AllFit'
    BY <1>1 DEF AllFit, Fits, smVars
  <1> QED
    BY <1>3, <1>4 DEF Handled

(* Every message keeps the invariant. *)
LEMMA MsgTaskKeeps ==
    ASSUME AgpsAssumption, IInv, MsgTaskStep
    PROVE  IInv'
  <1>0. /\ HandlerTypes /\ OtherTypes /\ AllFit
        /\ msgs \in Seq(Expected(restarts))
    BY DEF IInv
  <1>1. nifs \subseteq AllNifs
    BY <1>0 DEF OtherTypes, AgpsAssumption, AllNifs
  <1>2. CASE RequestATLProc
    <2>1. /\ msgs # <<>> /\ Head(msgs).type = "requestATL"
          /\ UNCHANGED <<initVars, conn, modemVars>> /\ restarts' = restarts
      BY <1>2 DEF RequestATLProc, Arrives, modemVars
    <2>2. /\ Head(msgs).handle \in Handles
          /\ Rest \in Seq(Expected(restarts))
      BY <2>1, Arrival, MessageFields
    <2>3. CASE Head(msgs).nif \in nifs
      <3>1. Subscribe(Head(msgs).nif, Head(msgs).handle, Rest)
        BY <1>2, <2>3 DEF RequestATLProc
      <3> QED
        BY <1>1, <2>1, <2>2, <2>3, <3>1, SubscribeHandled, HandledKeeps
    <2>4. CASE Head(msgs).nif \notin nifs
      <3>1. Refuse(Head(msgs).handle)
        BY <1>2, <2>4 DEF RequestATLProc
      <3> QED
        BY <2>1, <2>2, <3>1, TellHandled, HandledKeeps DEF Refuse
    <2> QED
      BY <2>3, <2>4
  <1>3. CASE RequestSuplEsProc
    <2>1. /\ msgs # <<>> /\ Head(msgs).type = "requestSuplES"
          /\ UNCHANGED <<initVars, conn, modemVars>> /\ restarts' = restarts
      BY <1>3 DEF RequestSuplEsProc, Arrives, modemVars
    <2>2. /\ Head(msgs).handle \in Handles
          /\ Rest \in Seq(Expected(restarts))
      BY <2>1, Arrival, MessageFields
    <2>3. ASSUME NEW m \in AllNifs, Subscribe(m, Head(msgs).handle, Rest)
          PROVE  IInv'
      BY <2>1, <2>2, <2>3, SubscribeHandled, HandledKeeps
    <2>4. CASE Refuse(Head(msgs).handle)
      BY <2>1, <2>2, <2>4, TellHandled, HandledKeeps DEF Refuse
    <2> QED
      BY <1>3, <2>3, <2>4 DEF RequestSuplEsProc, AllNifs
  <1>4. CASE ReleaseATLProc
    <2>1. /\ msgs # <<>> /\ Head(msgs).type = "releaseATL"
          /\ UNCHANGED <<initVars, conn, modemVars>> /\ restarts' = restarts
      BY <1>4 DEF ReleaseATLProc, Arrives, modemVars
    <2>2. /\ Head(msgs).handle \in Handles
          /\ Rest \in Seq(Expected(restarts))
      BY <2>1, Arrival, MessageFields
    <2>3. CASE Unsubscribe(Holder(Head(msgs).handle), Head(msgs).handle, Rest)
      <3>1. Holder(Head(msgs).handle) \in AllNifs
        BY DEF Holder, AllNifs
      <3> QED
        BY <2>1, <2>2, <2>3, <3>1, UnsubscribeHandled, HandledKeeps
    <2>4. CASE NoneFound(Head(msgs).handle)
      BY <2>1, <2>2, <2>4, TellHandled, HandledKeeps DEF NoneFound
    <2> QED
      BY <1>4, <2>3, <2>4 DEF ReleaseATLProc
  <1>5. CASE ReportProc
    <2>1. PICK event \in {"GRANTED", "DENIED", "RELEASED"} :
              Arrives(event) /\ OnRsrcEvent(Head(msgs).nif, event, Rest)
      BY <1>5 DEF ReportProc
    <2>2. /\ UNCHANGED <<initVars, conn, modemVars>> /\ restarts' = restarts
          /\ msgs # <<>> /\ Head(msgs).type = event
      BY <1>5, <2>1 DEF ReportProc, Arrives, modemVars
    <2>3. /\ Head(msgs).nif \in AllNifs
          /\ Rest \in Seq(Expected(restarts))
      BY <2>2, Arrival, MessageFields
    <2> QED
      BY <2>1, <2>2, <2>3, EventHandled, HandledKeeps
  <1>6. CASE NifInitProc
    <2>1. msgs' \in Seq(Expected(restarts))
      BY <1>6, Arrival DEF NifInitProc, Arrives
    <2> QED
      BY <1>0, <1>6, <2>1
         DEF NifInitProc, IInv, HandlerTypes, OtherTypes, AllFit, Fits, smVars,
             callVars, modemVars
  <1>7. CASE EngineUpProc
    <2>1. /\ msgs' \in Seq(Expected(restarts))
          /\ Head(msgs) \in Expected(restarts) /\ Head(msgs) \in Message
          /\ Head(msgs).type = "engineUp"
      BY <1>7, Arrival DEF EngineUpProc, Arrives
    <2>2. restarts > 0
      BY <2>1, MessageFields DEF Expected
    <2>3. /\ sub' \in [AllNifs -> [Handles -> {"none", "active", "inactive"}]]
          /\ \A m \in AllNifs :
                \/ sub'[m] = sub[m]
                \/ m # "ds" /\ \A h \in Handles : sub'[m][h] = "none"
          /\ UNCHANGED <<mStatePtr, restarts>>
      BY <1>0, <1>7 DEF EngineUpProc, HandlerTypes, NoSubscribers, modemVars
    <2>4. AllFit'
      <3> SUFFICES ASSUME NEW m \in AllNifs PROVE Fits(m)'
        BY DEF AllFit
      <3>1. Fits(m)
        BY <1>0 DEF AllFit
      <3> QED
        BY <2>2, <2>3, <3>1 DEF Fits
    <2> QED
      BY <1>0, <1>7, <2>1, <2>3, <2>4
         DEF EngineUpProc, IInv, HandlerTypes, OtherTypes, initVars, callVars, modemVars
  <1> QED
    BY <1>2, <1>3, <1>4, <1>5, <1>6, <1>7 DEF MsgTaskStep

(* A step that sends one message, and changes no machine, keeps the        *)
(* invariant if the message is expected.                                   *)
LEMMA SendKeeps ==
    ASSUME IInv, AgpsAssumption, UNCHANGED smVars, restarts' = restarts,
           HandlerTypes', OtherTypes',
           \/ UNCHANGED msgs
           \/ \E x \in Expected(restarts) : msgs' = Append(msgs, x)
    PROVE  IInv'
  <1>1. msgs' \in Seq(Expected(restarts))
    BY DEF IInv
  <1>2. AllFit'
    BY DEF IInv, AllFit, Fits, smVars
  <1> QED
    BY <1>1, <1>2 DEF IInv

(* What runs beside the message task keeps the invariant. *)
LEMMA OthersKeep ==
    ASSUME AgpsAssumption, IInv,
           \/ RetryCallback
           \/ \E m \in AllNifs : Answer(m) \/ LoseConnection(m)
           \/ AgpsInit
           \/ \E h \in Handles : ModemRequests(h) \/ ModemReleases(h)
    PROVE  IInv'
  <1>0. /\ HandlerTypes /\ OtherTypes /\ restarts \in Nat
    BY DEF IInv, OtherTypes, AgpsAssumption
  <1>1. CASE RetryCallback
    <2>1. HandlerTypes' /\ OtherTypes' /\ UNCHANGED smVars /\ restarts' = restarts
      BY <1>0, <1>1 DEF RetryCallback, HandlerTypes, OtherTypes, initVars, smVars, modemVars
    <2>2. \A h \in Active(sub, "ds") : EsRequest(h) \in Expected(restarts)
      BY <1>0, SentIsExpected DEF Active
    <2> QED
      BY <1>1, <2>1, <2>2, SendKeeps DEF RetryCallback
  <1>2. ASSUME NEW m \in AllNifs, AnswerRequest(m)
        PROVE  IInv'
    <2>1. HandlerTypes' /\ OtherTypes' /\ UNCHANGED smVars /\ restarts' = restarts
      <3>1. /\ UNCHANGED <<mStatePtr, sub, mRetries, timers, nifs, agps_status_cb>>
            /\ UNCHANGED <<told, answers, kind, released, restarts>>
        BY <1>2 DEF AnswerRequest, initVars, smVars, callVars, modemVars
      <3>2. asked' \in [AllNifs -> Seq({"REQUEST", "RELEASE"})]
        <4>1. asked[m] \in Seq({"REQUEST", "RELEASE"}) /\ asked[m] # <<>>
          BY <1>0, <1>2 DEF AnswerRequest, HandlerTypes
        <4>2. Tail(asked[m]) \in Seq({"REQUEST", "RELEASE"})
          BY <4>1
        <4> QED
          BY <1>0, <1>2, <4>2 DEF AnswerRequest, HandlerTypes
      <3>3. conn' \in [AllNifs -> {"open", "closed"}]
        BY <1>0, <1>2 DEF AnswerRequest, OtherTypes
      <3> QED
        BY <1>0, <3>1, <3>2, <3>3 DEF HandlerTypes, OtherTypes, smVars
    <2>2. \E x \in Expected(restarts) : msgs' = Append(msgs, x)
      BY <1>0, <1>2, SentIsExpected DEF AnswerRequest, Reports
    <2> QED
      BY <2>1, <2>2, SendKeeps
  <1>3. ASSUME NEW m \in AllNifs, AnswerRelease(m)
        PROVE  IInv'
    <2>1. HandlerTypes' /\ OtherTypes' /\ UNCHANGED smVars /\ restarts' = restarts
      <3>1. /\ UNCHANGED <<mStatePtr, sub, mRetries, timers, nifs, agps_status_cb>>
            /\ UNCHANGED <<told, answers, kind, released, restarts>>
        BY <1>3 DEF AnswerRelease, initVars, smVars, callVars, modemVars
      <3>2. asked' \in [AllNifs -> Seq({"REQUEST", "RELEASE"})]
        <4>1. asked[m] \in Seq({"REQUEST", "RELEASE"}) /\ asked[m] # <<>>
          BY <1>0, <1>3 DEF AnswerRelease, HandlerTypes
        <4>2. Tail(asked[m]) \in Seq({"REQUEST", "RELEASE"})
          BY <4>1
        <4> QED
          BY <1>0, <1>3, <4>2 DEF AnswerRelease, HandlerTypes
      <3>3. conn' \in [AllNifs -> {"open", "closed"}]
        BY <1>0, <1>3 DEF AnswerRelease, OtherTypes
      <3> QED
        BY <1>0, <3>1, <3>2, <3>3 DEF HandlerTypes, OtherTypes, smVars
    <2>2. UNCHANGED msgs \/ \E x \in Expected(restarts) : msgs' = Append(msgs, x)
      BY <1>0, <1>3, SentIsExpected DEF AnswerRelease, Reports
    <2> QED
      BY <2>1, <2>2, SendKeeps
  <1>4. ASSUME NEW m \in AllNifs, LoseConnection(m)
        PROVE  IInv'
    <2>1. HandlerTypes' /\ OtherTypes' /\ UNCHANGED smVars /\ restarts' = restarts
      BY <1>0, <1>4
         DEF LoseConnection, HandlerTypes, OtherTypes, initVars, smVars, callVars, modemVars
    <2>2. \E x \in Expected(restarts) : msgs' = Append(msgs, x)
      BY <1>0, <1>4, SentIsExpected DEF LoseConnection, Reports
    <2> QED
      BY <2>1, <2>2, SendKeeps
  <1>5. CASE AgpsInit
    <2>1. HandlerTypes' /\ OtherTypes' /\ UNCHANGED smVars /\ restarts' = restarts
      BY <1>0, <1>5 DEF AgpsInit, HandlerTypes, OtherTypes, smVars, callVars, modemVars
    <2>2. \E x \in Expected(restarts) : msgs' = Append(msgs, x)
      BY <1>0, <1>5, SentIsExpected DEF AgpsInit
    <2> QED
      BY <2>1, <2>2, SendKeeps
  <1>6. ASSUME NEW h \in Handles, ModemRequests(h)
        PROVE  IInv'
    <2>1. HandlerTypes' /\ OtherTypes' /\ UNCHANGED smVars /\ restarts' = restarts
      BY <1>0, <1>6 DEF ModemRequests, HandlerTypes, OtherTypes, initVars, smVars, callVars
    <2>2. AtlNifs \subseteq AllNifs \ {"ds"}
      BY DEF AgpsAssumption, AllNifs
    <2>3. \E x \in Expected(restarts) : msgs' = Append(msgs, x)
      BY <1>0, <1>6, <2>2, SentIsExpected DEF ModemRequests
    <2> QED
      BY <2>1, <2>3, SendKeeps
  <1>7. ASSUME NEW h \in Handles, ModemReleases(h)
        PROVE  IInv'
    <2>1. HandlerTypes' /\ OtherTypes' /\ UNCHANGED smVars /\ restarts' = restarts
      BY <1>0, <1>7 DEF ModemReleases, HandlerTypes, OtherTypes, initVars, smVars, callVars
    <2>2. \E x \in Expected(restarts) : msgs' = Append(msgs, x)
      BY <1>0, <1>7, SentIsExpected DEF ModemReleases
    <2> QED
      BY <2>1, <2>2, SendKeeps
  <1> QED
    BY <1>1, <1>2, <1>3, <1>4, <1>5, <1>6, <1>7 DEF Answer

(* A restart lets the queue hold one kind of message more. *)
LEMMA RestartKeeps ==
    ASSUME AgpsAssumption, IInv, ModemRestarts
    PROVE  IInv'
  <1>0. /\ HandlerTypes /\ OtherTypes /\ AllFit /\ msgs \in Seq(Expected(restarts))
        /\ restarts \in Nat /\ restarts' = restarts + 1
    BY DEF IInv, OtherTypes, AgpsAssumption, ModemRestarts
  <1>1. HandlerTypes' /\ OtherTypes'
    BY <1>0 DEF ModemRestarts, HandlerTypes, OtherTypes, initVars, smVars, callVars,
                AgpsAssumption
  <1>2. msgs' \in Seq(Expected(restarts'))
    <2>1. Expected(restarts) \subseteq Expected(restarts')
      BY <1>0 DEF Expected
    <2>2. msgs \in Seq(Expected(restarts'))
      BY <1>0, <2>1
    <2>3. EngineUp \in Expected(restarts')
      BY <1>0, SentIsExpected
    <2> QED
      BY <2>2, <2>3 DEF ModemRestarts
  <1>3. AllFit'
    BY <1>0 DEF ModemRestarts, smVars, AllFit, Fits
  <1> QED
    BY <1>1, <1>2, <1>3 DEF IInv

-----------------------------------------------------------------------------
(* Every list is empty at first and every machine released. *)
LEMMA InitFits ==
    ASSUME AgpsAssumption, Init
    PROVE  IInv
  <1>1. HandlerTypes
    <2>1. NoSubscribers \in [Handles -> {"none", "active", "inactive"}]
      BY DEF NoSubscribers
    <2>2. <<>> \in Seq({"REQUEST", "RELEASE"})
      OBVIOUS
    <2> QED
      BY <2>1, <2>2 DEF Init, HandlerTypes, AgpsAssumption
  <1>2. OtherTypes
    <2>1. 0 \in 0..MaxRestarts
      BY DEF AgpsAssumption
    <2>2. /\ conn \in [AllNifs -> {"open", "closed"}]
          /\ kind \in [Handles -> {"none", "atl", "es"}]
          /\ released \in [Handles -> BOOLEAN]
      BY DEF Init
    <2>3. agps_status_cb \in BOOLEAN /\ nifs \in {{}, Nifs} /\ restarts = 0
      BY DEF Init
    <2> QED
      BY <2>1, <2>2, <2>3 DEF OtherTypes
  <1>3. msgs \in Seq(Expected(restarts))
    BY DEF Init
  <1>4. AllFit
    BY DEF Init, AllFit, Fits, NoSubscribers
  <1> QED
    BY <1>1, <1>2, <1>3, <1>4 DEF IInv

(* Every step keeps the invariant. *)
LEMMA NextKeeps ==
    ASSUME AgpsAssumption, IInv, [Next]_vars
    PROVE  IInv'
  <1>1. CASE Next
    BY <1>1, MsgTaskKeeps, OthersKeep, RestartKeeps DEF Next
  <1>2. CASE UNCHANGED vars
    BY <1>2 DEF vars, initVars, smVars, callVars, modemVars, IInv, HandlerTypes,
                OtherTypes, AllFit, Fits
  <1> QED
    BY <1>1, <1>2

(* The inductive invariant gives what the runs check. *)
LEMMA IInvImplies ==
    ASSUME IInv
    PROVE  TypeOK /\ StateFitsSubscribers
  <1>1. /\ HandlerTypes /\ OtherTypes /\ AllFit /\ msgs \in Seq(Expected(restarts))
    BY DEF IInv
  <1>2. /\ msgs \in Seq(Message)
        /\ \A i \in 1..Len(msgs) : msgs[i] # Report("ds", "DENIED")
    <2>1. Expected(restarts) \subseteq Message
      BY DEF Expected
    <2>2. \A i \in 1..Len(msgs) : msgs[i] \in Expected(restarts)
      BY <1>1
    <2> QED
      BY <1>1, <2>1, <2>2 DEF Expected
  <1>3. TypeOK
    BY <1>1, <1>2 DEF TypeOK, HandlerTypes, OtherTypes
  <1>4. StateFitsSubscribers
    <2> SUFFICES ASSUME NEW m \in AllNifs
                 PROVE
        /\ mStatePtr[m] \in {"pending", "acquired"} =>
              Active(sub, m) # {} \/ (m # "ds" /\ restarts > 0)
        /\ mStatePtr[m] = "releasing" =>
              m = "ds" /\ Active(sub, m) # Subscribers(sub, m)
        /\ mStatePtr[m] = "released" =>
              IF m = "ds" THEN Active(sub, m) = Subscribers(sub, m)
                          ELSE Subscribers(sub, m) = {}
      BY <1>3 DEF StateFitsSubscribers
    <2>1. Fits(m) /\ \A h \in Handles : sub[m][h] \in {"none", "active", "inactive"}
      BY <1>1 DEF AllFit, HandlerTypes
    <2>2. mStatePtr[m] \in {"pending", "acquired"} =>
              Active(sub, m) # {} \/ (m # "ds" /\ restarts > 0)
      BY <2>1 DEF Fits, Active
    <2>3. mStatePtr[m] = "releasing" =>
              m = "ds" /\ Active(sub, m) # Subscribers(sub, m)
      BY <2>1 DEF Fits, Active, Subscribers
    <2>4. mStatePtr[m] = "released" =>
              IF m = "ds" THEN Active(sub, m) = Subscribers(sub, m)
                          ELSE Subscribers(sub, m) = {}
      BY <2>1 DEF Fits, Active, Subscribers
    <2> QED
      BY <2>2, <2>3, <2>4
  <1> QED
    BY <1>3, <1>4

(* Every variable has its type, for any number of handles, retries and     *)
(* restarts, and the retries never pass MAX_START_DATA_CALL_RETRIES.       *)
THEOREM AgpsTypes == Spec => []TypeOK
  <1>1. Init => IInv
    BY AgpsAssumption, InitFits
  <1>2. IInv /\ [Next]_vars => IInv'
    BY AgpsAssumption, NextKeeps
  <1>3. IInv => TypeOK
    BY IInvImplies
  <1> QED
    BY <1>1, <1>2, <1>3, PTL DEF Spec

(* The state of every machine fits its list of subscribers, whatever the   *)
(* order in which requests, releases, reports, retries and restarts come:  *)
(* a connection is wanted or held only for somebody active, and a machine  *)
(* that released it has left nobody behind.                                *)
THEOREM StatesFitSubscribers == Spec => []StateFitsSubscribers
  <1>1. Init => IInv
    BY AgpsAssumption, InitFits
  <1>2. IInv /\ [Next]_vars => IInv'
    BY AgpsAssumption, NextKeeps
  <1>3. IInv => StateFitsSubscribers
    BY IInvImplies
  <1> QED
    BY <1>1, <1>2, <1>3, PTL DEF Spec

-----------------------------------------------------------------------------
(* PendingIsRequested: what a machine that waits is waiting for is found   *)
(* in the framework's inbox or in the queue.                               *)
Has(s, x) == \E i \in 1..Len(s) : s[i] = x

LEMMA HasAppend ==
    ASSUME NEW S, NEW s \in Seq(S), NEW x \in S, NEW y
    PROVE  Has(Append(s, x), y) <=> Has(s, y) \/ y = x
  <1>1. /\ Len(Append(s, x)) = Len(s) + 1 /\ Len(s) \in Nat
        /\ Append(s, x)[Len(s) + 1] = x
        /\ \A i \in 1..Len(s) : Append(s, x)[i] = s[i]
    OBVIOUS
  <1> QED
    BY <1>1 DEF Has

LEMMA HasTail ==
    ASSUME NEW S, NEW s \in Seq(S), s # <<>>, NEW y
    PROVE  Has(s, y) <=> y = Head(s) \/ Has(Tail(s), y)
  <1>1. /\ Len(Tail(s)) = Len(s) - 1 /\ Len(s) \in Nat \ {0}
        /\ Head(s) = s[1]
        /\ \A i \in 1..Len(Tail(s)) : Tail(s)[i] = s[i + 1]
    OBVIOUS
  <1>2. ASSUME Has(s, y) PROVE y = Head(s) \/ Has(Tail(s), y)
    <2>1. PICK i \in 1..Len(s) : s[i] = y
      BY <1>2 DEF Has
    <2>2. i # 1 => i - 1 \in 1..Len(Tail(s)) /\ Tail(s)[i - 1] = y
      BY <1>1, <2>1
    <2> QED
      BY <1>1, <2>1, <2>2 DEF Has
  <1>3. ASSUME Has(Tail(s), y) PROVE Has(s, y)
    <2>1. PICK i \in 1..Len(Tail(s)) : Tail(s)[i] = y
      BY <1>3 DEF Has
    <2>2. i + 1 \in 1..Len(s) /\ s[i + 1] = y
      BY <1>1, <2>1
    <2> QED
      BY <2>2 DEF Has
  <1>4. ASSUME y = Head(s) PROVE Has(s, y)
    <2>1. 1 \in 1..Len(s) /\ s[1] = y
      BY <1>1, <1>4
    <2> QED
      BY <2>1 DEF Has
  <1> QED
    BY <1>2, <1>3, <1>4

LEMMA ConcatElements ==
    ASSUME NEW S, NEW s \in Seq(S), NEW t \in Seq(S)
    PROVE  /\ Len(s \o t) = Len(s) + Len(t) /\ Len(s) \in Nat /\ Len(t) \in Nat
           /\ \A i \in 1..Len(s) : (s \o t)[i] = s[i]
           /\ \A i \in 1..Len(t) : (s \o t)[Len(s) + i] = t[i]
  OBVIOUS

LEMMA HasConcat ==
    ASSUME NEW S, NEW s \in Seq(S), NEW t \in Seq(S), NEW y
    PROVE  Has(s \o t, y) <=> Has(s, y) \/ Has(t, y)
  <1>1. /\ Len(s \o t) = Len(s) + Len(t) /\ Len(s) \in Nat /\ Len(t) \in Nat
        /\ \A i \in 1..Len(s) : (s \o t)[i] = s[i]
        /\ \A i \in 1..Len(t) : (s \o t)[Len(s) + i] = t[i]
    BY ConcatElements
  <1>2. ASSUME Has(s \o t, y) PROVE Has(s, y) \/ Has(t, y)
    <2>1. PICK i \in 1..Len(s \o t) : (s \o t)[i] = y
      BY <1>2 DEF Has
    <2>2. i \in 1..Len(s) \/ (i - Len(s) \in 1..Len(t) /\ i = Len(s) + (i - Len(s)))
      BY <1>1, <2>1
    <2>3. CASE i \in 1..Len(s)
      BY <1>1, <2>1, <2>3 DEF Has
    <2>4. CASE i - Len(s) \in 1..Len(t) /\ i = Len(s) + (i - Len(s))
      <3>1. t[i - Len(s)] = y
        BY <1>1, <2>1, <2>4
      <3> QED
        BY <2>4, <3>1 DEF Has
    <2> QED
      BY <2>2, <2>3, <2>4
  <1>3. ASSUME Has(s, y) PROVE Has(s \o t, y)
    <2>1. PICK i \in 1..Len(s) : s[i] = y
      BY <1>3 DEF Has
    <2>2. i \in 1..Len(s \o t) /\ (s \o t)[i] = y
      BY <1>1, <2>1
    <2> QED
      BY <2>2 DEF Has
  <1>4. ASSUME Has(t, y) PROVE Has(s \o t, y)
    <2>1. PICK i \in 1..Len(t) : t[i] = y
      BY <1>4 DEF Has
    <2>2. Len(s) + i \in 1..Len(s \o t) /\ (s \o t)[Len(s) + i] = y
      BY <1>1, <2>1
    <2> QED
      BY <2>2 DEF Has
  <1> QED
    BY <1>2, <1>3, <1>4

-----------------------------------------------------------------------------
(* PendingIsRequested and AnswersFit need to know which of the modem's     *)
(* requests are where.                                                     *)

About(x, h) ==
    x.type \in {"requestATL", "requestSuplES", "releaseATL"} /\ x.handle = h

(* not answered yet; a modem that restarted hears nothing *)
Hears(h) == told[h] \in {"waiting", "forgotten"}

Unlisted(h) == \A k \in AllNifs : sub[k][h] = "none"

(* An ordinary request is in one list at most, never in that of "ds", and  *)
(* while its machine waits it has not been answered.                       *)
Lists ==
    \A h \in Handles :
       /\ kind[h] = "none" <=> told[h] = "unused"
       /\ kind[h] = "none" => Unlisted(h)
       /\ \A k \in AllNifs : kind[h] = "atl" /\ sub[k][h] # "none" =>
             k # "ds" /\ (mStatePtr[k] = "pending" => Hears(h))
       /\ kind[h] = "atl" =>
             \A k, l \in AllNifs : sub[k][h] # "none" /\ sub[l][h] # "none" => k = l

(* An ordinary request in the queue has not been answered, is in no list   *)
(* and has nothing about it before it.                                     *)
Queue ==
    \A i \in 1..Len(msgs) : \A h \in Handles : About(msgs[i], h) =>
       /\ kind[h] # "none"
       /\ msgs[i].type = "requestSuplES" => kind[h] = "es"
       /\ msgs[i].type = "requestATL" /\ kind[h] = "atl" =>
             Hears(h) /\ Unlisted(h) /\ \A j \in 1..(i - 1) : ~About(msgs[j], h)

Awaited ==
    \A m \in AllNifs \ {"ds"} : mStatePtr[m] = "pending" =>
       \/ Has(asked[m], "REQUEST")
       \/ Has(msgs, Report(m, "GRANTED"))
       \/ Has(msgs, Report(m, "DENIED"))

Calls == Lists /\ Queue /\ Awaited

(* the emergency requests of the fallback, behind what is left in the queue *)
Adds(q) ==
    \E t \in Seq(Expected(restarts)) :
       /\ msgs' = q \o t
       /\ \A i \in 1..Len(t) : \E h \in Handles :
             t[i] = AtlRequest(h, "agnss") /\ kind[h] = "es"

(* only the handles of H are told anything *)
Tells(H, status) ==
    \A h \in Handles :
       /\ told'[h] # told[h] => h \in H /\ told[h] # "forgotten" /\ told'[h] = status
       /\ answers'[h] # answers[h] => h \in H /\ told[h] # "forgotten" /\ status # "closed"

EsOnly(H) == \A h \in H : kind[h] = "es"

LEMMA AddsNothing ==
    ASSUME NEW q \in Seq(Expected(restarts)), msgs' = q
    PROVE  Adds(q)
  <1>1. msgs' = q \o <<>> /\ <<>> \in Seq(Expected(restarts))
    OBVIOUS
  <1>2. \A i \in 1..Len(<<>>) : FALSE
    OBVIOUS
  <1> QED
    BY <1>1, <1>2 DEF Adds

LEMMA FallBackAdds ==
    ASSUME AgpsAssumption, restarts \in Nat, NEW H \in SUBSET Handles, EsOnly(H),
           NEW q \in Seq(Expected(restarts)), FallBack(H, q)
    PROVE  Adds(q)
  <1>1. PICK t \in Seq(Expected(restarts)) :
              /\ msgs' = q \o t
              /\ \A i \in 1..Len(t) : \E h \in H : t[i] = AtlRequest(h, "agnss")
    BY FallBackAppends
  <1>2. \A i \in 1..Len(t) : \E h \in Handles :
             t[i] = AtlRequest(h, "agnss") /\ kind[h] = "es"
    BY <1>1 DEF EsOnly
  <1> QED
    BY <1>1, <1>2 DEF Adds

LEMMA NotifyAdds ==
    ASSUME AgpsAssumption, restarts \in Nat, NEW m, NEW H \in SUBSET Handles,
           m = "ds" => EsOnly(H),
           NEW event \in {"GRANTED", "DENIED", "RELEASED", "UNSUBSCRIBE"},
           NEW q \in Seq(Expected(restarts)), Notify(m, H, event, q),
           HandlerTypes
    PROVE  Adds(q) /\ Tells(H, StatusOf(event))
  <1>1. CASE m = "ds" /\ FallBack(H, q) /\ TellNobody
    BY <1>1, FallBackAdds DEF TellNobody, Tells
  <1>2. CASE msgs' = q /\ TellNobody
    BY <1>2, AddsNothing DEF TellNobody, Tells
  <1>3. CASE Tell(H, StatusOf(event)) /\ msgs' = q
    <2>1. Tells(H, StatusOf(event))
      BY <1>3 DEF Tell, Tells
    <2> QED
      BY <1>3, <2>1, AddsNothing
  <1> QED
    BY <1>1, <1>2, <1>3 DEF Notify

LEMMA RequestFailsAdds ==
    ASSUME AgpsAssumption, restarts \in Nat, EsOnly(Active(sub', "ds")),
           NEW q \in Seq(Expected(restarts)), RequestFails(q)
    PROVE  Adds(q) /\ Tells({}, "closed") /\ UNCHANGED asked
  <1>1. Tells({}, "closed") /\ UNCHANGED asked
    BY DEF RequestFails, TellNobody, Tells
  <1>2. ASSUME NEW h \in Active(sub', "ds"), FallBack({h}, q) PROVE Adds(q)
    <2>1. {h} \in SUBSET Handles /\ EsOnly({h})
      BY <1>2 DEF Active, EsOnly
    <2> QED
      BY <1>2, <2>1, FallBackAdds
  <1>3. ASSUME msgs' = q PROVE Adds(q)
    BY <1>3, AddsNothing
  <1> QED
    BY <1>1, <1>2, <1>3 DEF RequestFails, Busy

LEMMA AskKeeps ==
    ASSUME HandlerTypes, NEW m \in AllNifs, NEW action \in {"REQUEST", "RELEASE"},
           Ask(m, action)
    PROVE  /\ \A k \in AllNifs : Has(asked[k], "REQUEST") => Has(asked'[k], "REQUEST")
           /\ action = "REQUEST" /\ Active(sub', m) # {} => Has(asked'[m], "REQUEST")
  <1>1. asked[m] \in Seq({"REQUEST", "RELEASE"})
    BY DEF HandlerTypes
  <1>2. \A y : Has(Append(asked[m], action), y) <=> Has(asked[m], y) \/ y = action
    BY <1>1, HasAppend
  <1>3. /\ asked \in [AllNifs -> Seq({"REQUEST", "RELEASE"})]
        /\ asked' = asked \/ asked' = [asked EXCEPT ![m] = Append(@, action)]
        /\ action = "REQUEST" /\ Active(sub', m) # {} =>
              asked' = [asked EXCEPT ![m] = Append(@, action)]
    BY DEF HandlerTypes, Ask
  <1> QED
    BY <1>2, <1>3

-----------------------------------------------------------------------------
(* What every handler of a message guarantees about the requests: only     *)
(* those of H or in a list are told anything, only those of H join a list, *)
(* and a machine that starts to wait has asked.                            *)
Settles(q, H) ==
    /\ Adds(q)
    /\ Lists'
    /\ \A h \in Handles \ H :
          Unlisted(h) => UNCHANGED told[h] /\ \A k \in AllNifs : sub'[k][h] = "none"
    /\ \A h \in Handles :
          kind[h] = "atl" /\ answers'[h] # answers[h] => told[h] = "waiting"
    /\ \A m \in AllNifs : Has(asked[m], "REQUEST") => Has(asked'[m], "REQUEST")
    /\ \A m \in AllNifs \ {"ds"} :
          mStatePtr'[m] = "pending" /\ mStatePtr[m] # "pending" => Has(asked'[m], "REQUEST")

LEMMA ListsFacts ==
    ASSUME IInv, Lists
    PROVE  /\ EsOnly(Active(sub, "ds")) /\ EsOnly(Subscribers(sub, "ds"))
           /\ \A h \in Handles : kind[h] \in {"none", "atl", "es"}
           /\ sub \in [AllNifs -> [Handles -> {"none", "active", "inactive"}]]
           /\ mStatePtr \in [AllNifs -> {"released", "pending", "acquired", "releasing"}]
           /\ restarts \in Nat
           /\ \A m \in AllNifs \ {"ds"} : mStatePtr[m] # "releasing"
           /\ "ds" \in AllNifs
  BY AgpsAssumption
     DEF IInv, Lists, EsOnly, Active, Subscribers, Unlisted, OtherTypes, HandlerTypes,
         AllFit, Fits, AllNifs

(* An ordinary request may be answered only while it waits. *)
MayTell(H, status) ==
    \A h \in Handles : h \in H =>
       kind[h] # "none" /\ (kind[h] = "atl" /\ status # "closed" => Hears(h))

(* Nobody joins a list but a request that is in none; and one that is in   *)
(* the list of a machine that waits is not told, waited before or has not  *)
(* been answered.                                                          *)
ListsMove(H) ==
    \A h \in Handles : \A k \in AllNifs : sub'[k][h] # "none" =>
       /\ kind[h] # "none"
       /\ kind[h] = "atl" =>
             /\ k # "ds"
             /\ sub[k][h] # "none" \/ Unlisted(h)
             /\ \A l \in AllNifs \ {k} : sub[l][h] = "none" => sub'[l][h] = "none"
             /\ mStatePtr'[k] = "pending" =>
                   /\ h \notin H
                   /\ (sub[k][h] # "none" /\ mStatePtr[k] = "pending") \/ Hears(h)

(* Telling requests that wait, or are closed, keeps the lists. *)
LEMMA TellsKeepsLists ==
    ASSUME Lists, HandlerTypes, NEW H \in SUBSET Handles,
           NEW status \in {"opened", "refused", "closed"}, Tells(H, status),
           UNCHANGED kind, MayTell(H, status), ListsMove(H),
           \A h \in Handles : kind[h] \in {"none", "atl", "es"}
    PROVE  /\ Lists'
           /\ \A h \in Handles :
                 kind[h] = "atl" /\ answers'[h] # answers[h] => told[h] = "waiting"
  <1>1. ASSUME NEW h \in Handles
        PROVE  /\ kind[h] = "none" <=> told'[h] = "unused"
               /\ kind[h] = "none" => \A k \in AllNifs : sub'[k][h] = "none"
    BY DEF Lists, Tells, MayTell, ListsMove
  <1>2. ASSUME NEW h \in Handles, NEW k \in AllNifs, kind[h] = "atl", sub'[k][h] # "none"
        PROVE  k # "ds" /\ (mStatePtr'[k] = "pending" => Hears(h)')
    <2>1. ASSUME mStatePtr'[k] = "pending" PROVE Hears(h)'
      <3>1. h \notin H /\ told'[h] = told[h]
        BY <1>2, <2>1 DEF Tells, ListsMove
      <3>2. Hears(h)
        BY <1>2, <2>1 DEF Lists, Hears, ListsMove
      <3> QED
        BY <3>1, <3>2 DEF Hears
    <2> QED
      BY <1>2, <2>1 DEF ListsMove
  <1>3. ASSUME NEW h \in Handles, kind[h] = "atl", NEW k \in AllNifs, NEW l \in AllNifs,
               sub'[k][h] # "none", sub'[l][h] # "none", k # l
        PROVE  FALSE
    <2>1. sub[k][h] # "none" /\ sub[l][h] # "none"
      BY <1>3 DEF ListsMove
    <2> QED
      BY <1>3, <2>1 DEF Lists
  <1>4. ASSUME NEW h \in Handles, kind[h] = "atl", answers'[h] # answers[h]
        PROVE  told[h] = "waiting"
    BY <1>4 DEF Tells, Hears, MayTell
  <1> QED
    BY <1>1, <1>2, <1>3, <1>4 DEF Lists, Unlisted

LEMMA SubscribeSettles ==
    ASSUME IInv, Lists, restarts' = restarts, UNCHANGED kind,
           NEW m \in AllNifs, NEW h \in Handles, NEW q \in Seq(Expected(restarts)),
           kind[h] # "none",
           m = "ds" => kind[h] = "es",
           kind[h] = "atl" => Hears(h) /\ Unlisted(h),
           Subscribe(m, h, q)
    PROVE  Settles(q, {h})
  <1>0. /\ EsOnly(Active(sub, "ds")) /\ EsOnly(Subscribers(sub, "ds"))
        /\ \A g \in Handles : kind[g] \in {"none", "atl", "es"}
        /\ sub \in [AllNifs -> [Handles -> {"none", "active", "inactive"}]]
        /\ mStatePtr \in [AllNifs -> {"released", "pending", "acquired", "releasing"}]
        /\ restarts \in Nat /\ HandlerTypes /\ AllFit
        /\ \A k \in AllNifs \ {"ds"} : mStatePtr[k] # "releasing"
        /\ "ds" \in AllNifs
    BY ListsFacts DEF IInv
  <1>1. sub' = Add(m, h)
    BY DEF Subscribe, SubscribeReleased, SubscribeWaiting, SubscribeAcquired
  <1>2. /\ \A k \in AllNifs \ {m} : sub'[k] = sub[k]
        /\ \A g \in Handles \ {h} : sub'[m][g] = sub[m][g]
        /\ sub'[m][h] = IF sub[m][h] = "none" THEN "active" ELSE sub[m][h]
    BY <1>0, <1>1 DEF Add
  <1>3. EsOnly(Active(sub', "ds"))
    BY <1>0, <1>2 DEF EsOnly, Active
  <1>4. \A g \in Handles \ {h} :
           Unlisted(g) => \A k \in AllNifs : sub'[k][g] = "none"
    BY <1>2 DEF Unlisted
  <1>5. \A g \in Handles : \A k \in AllNifs : sub'[k][g] # "none" =>
           /\ kind[g] # "none"
           /\ kind[g] = "atl" =>
                 /\ k # "ds"
                 /\ sub[k][g] # "none" \/ Unlisted(g)
                 /\ \A l \in AllNifs \ {k} : sub[l][g] = "none" => sub'[l][g] = "none"
                 /\ sub[k][g] # "none" \/ Hears(g)
    BY <1>2 DEF Lists, Unlisted
  <1>6. CASE SubscribeReleased(m, h, q) /\ RequestSent(m, q)
             /\ mStatePtr' = [mStatePtr EXCEPT ![m] = "pending"]
    <2>1. Tells({}, "closed") /\ Adds(q)
      BY <1>6, AddsNothing DEF RequestSent, TellNobody, Tells
    <2>2. \A g \in Handles : \A k \in AllNifs :
             kind[g] = "atl" /\ sub'[k][g] # "none" /\ mStatePtr'[k] = "pending" =>
                (sub[k][g] # "none" /\ mStatePtr[k] = "pending") \/ Hears(g)
      BY <1>0, <1>2, <1>5, <1>6 DEF SubscribeReleased, AllFit, Fits
    <2>3. ListsMove({}) /\ MayTell({}, "closed")
      BY <1>5, <2>2 DEF ListsMove, MayTell
    <2>4. /\ Lists'
          /\ \A g \in Handles :
                kind[g] = "atl" /\ answers'[g] # answers[g] => told[g] = "waiting"
      BY <1>0, <2>1, <2>3, TellsKeepsLists
    <2>5. m # "ds" => Active(sub', m) # {}
      BY <1>0, <1>2, <1>6 DEF Active, AllFit, Fits, SubscribeReleased
    <2>6. \A k \in AllNifs : Has(asked[k], "REQUEST") => Has(asked'[k], "REQUEST")
      BY <1>0, <1>6, AskKeeps DEF RequestSent
    <2>7. \A k \in AllNifs \ {"ds"} :
             mStatePtr'[k] = "pending" /\ mStatePtr[k] # "pending" => Has(asked'[k], "REQUEST")
      BY <1>0, <1>6, <2>5, AskKeeps DEF RequestSent
    <2>8. UNCHANGED told
      BY <1>6 DEF RequestSent, TellNobody
    <2> QED
      BY <1>4, <2>1, <2>4, <2>6, <2>7, <2>8 DEF Settles
  <1>7. CASE SubscribeReleased(m, h, q) /\ m = "ds" /\ RequestFails(q) /\ UNCHANGED mStatePtr
    <2>1. Tells({}, "closed") /\ Adds(q) /\ UNCHANGED asked
      BY <1>0, <1>3, <1>7, RequestFailsAdds, AgpsAssumption
    <2>2. ListsMove({}) /\ MayTell({}, "closed")
      BY <1>5, <1>7 DEF ListsMove, MayTell
    <2>3. /\ Lists'
          /\ \A g \in Handles :
                kind[g] = "atl" /\ answers'[g] # answers[g] => told[g] = "waiting"
      BY <1>0, <2>1, <2>2, TellsKeepsLists
    <2>4. UNCHANGED told
      BY <1>7 DEF RequestFails, TellNobody
    <2> QED
      BY <1>4, <1>7, <2>1, <2>3, <2>4 DEF Settles
  <1>8. CASE SubscribeWaiting(m, h, q)
    <2>1. /\ Tells({}, "closed") /\ Adds(q)
          /\ UNCHANGED <<asked, told, mStatePtr>>
      BY <1>8, AddsNothing DEF SubscribeWaiting, TellNobody, Tells
    <2>2. ListsMove({}) /\ MayTell({}, "closed")
      BY <1>5, <2>1 DEF ListsMove, MayTell
    <2>3. /\ Lists'
          /\ \A g \in Handles :
                kind[g] = "atl" /\ answers'[g] # answers[g] => told[g] = "waiting"
      BY <1>0, <2>1, <2>2, TellsKeepsLists
    <2> QED
      BY <1>4, <2>1, <2>3 DEF Settles
  <1>9. CASE SubscribeAcquired(m, h, q)
    <2>1. Tells({h}, "opened") /\ Adds(q)
      <3>1. Notify(m, {h}, "GRANTED", q) /\ {h} \in SUBSET Handles
        BY <1>9 DEF SubscribeAcquired
      <3>2. m = "ds" => EsOnly({h})
        BY DEF EsOnly
      <3> QED
        BY <1>0, <3>1, <3>2, NotifyAdds, AgpsAssumption DEF StatusOf
    <2>2. mStatePtr[m] = "acquired" /\ UNCHANGED <<asked, mStatePtr>>
      BY <1>9 DEF SubscribeAcquired
    <2>3. ListsMove({h}) /\ MayTell({h}, "opened")
      <3>1. \A g \in Handles : \A k \in AllNifs :
               kind[g] = "atl" /\ sub'[k][g] # "none" /\ mStatePtr'[k] = "pending" =>
                  /\ g \notin {h}
                  /\ (sub[k][g] # "none" /\ mStatePtr[k] = "pending") \/ Hears(g)
        BY <1>2, <2>2 DEF Unlisted
      <3> QED
        BY <1>5, <3>1 DEF ListsMove, MayTell
    <2>4. /\ Lists'
          /\ \A g \in Handles :
                kind[g] = "atl" /\ answers'[g] # answers[g] => told[g] = "waiting"
      BY <1>0, <2>1, <2>3, TellsKeepsLists
    <2>5. \A g \in Handles \ {h} : UNCHANGED told[g]
      BY <2>1 DEF Tells
    <2> QED
      BY <1>4, <2>1, <2>2, <2>4, <2>5 DEF Settles
  <1> QED
    BY <1>6, <1>7, <1>8, <1>9 DEF Subscribe, SubscribeReleased

LEMMA UnsubscribeSettles ==
    ASSUME IInv, Lists, restarts' = restarts, UNCHANGED kind,
           NEW m \in AllNifs, NEW h \in Handles, NEW q \in Seq(Expected(restarts)),
           Unsubscribe(m, h, q)
    PROVE  Settles(q, {h})
  <1>0. /\ EsOnly(Active(sub, "ds")) /\ EsOnly(Subscribers(sub, "ds"))
        /\ \A g \in Handles : kind[g] \in {"none", "atl", "es"}
        /\ sub \in [AllNifs -> [Handles -> {"none", "active", "inactive"}]]
        /\ mStatePtr \in [AllNifs -> {"released", "pending", "acquired", "releasing"}]
        /\ restarts \in Nat /\ HandlerTypes /\ AllFit
        /\ \A k \in AllNifs \ {"ds"} : mStatePtr[k] # "releasing"
        /\ "ds" \in AllNifs
    BY ListsFacts DEF IInv
  <1>1. sub[m][h] # "none" /\ Notify(m, {h}, "UNSUBSCRIBE", q) /\ {h} \in SUBSET Handles
    BY DEF Unsubscribe, UnsubscribeReleased, UnsubscribeHeld
  <1>2. kind[h] # "none" /\ (m = "ds" => EsOnly({h}))
    BY <1>0, <1>1 DEF Lists, Unlisted, EsOnly, Subscribers
  <1>3. Tells({h}, "closed") /\ Adds(q)
    BY <1>0, <1>1, <1>2, NotifyAdds, AgpsAssumption DEF StatusOf
  <1>4. (\A g \in Handles \ {h} : UNCHANGED told[g]) /\ MayTell({h}, "closed")
    BY <1>2, <1>3 DEF Tells, MayTell
  <1>5. CASE UnsubscribeReleased(m, h, q)
    <2>1. UNCHANGED <<mStatePtr, sub, asked>> /\ mStatePtr[m] = "released"
      BY <1>5 DEF UnsubscribeReleased, smVars
    <2>2. m = "ds" /\ kind[h] = "es"
      BY <1>0, <1>1, <1>2, <2>1 DEF AllFit, Fits, EsOnly
    <2>3. ListsMove({h})
      BY <2>1, <2>2 DEF Lists, Unlisted, ListsMove
    <2>4. /\ Lists'
          /\ \A g \in Handles :
                kind[g] = "atl" /\ answers'[g] # answers[g] => told[g] = "waiting"
      BY <1>0, <1>3, <1>4, <2>3, TellsKeepsLists
    <2> QED
      BY <1>3, <1>4, <2>1, <2>4 DEF Settles, Unlisted
  <1>6. CASE UnsubscribeHeld(m, h, q)
    <2>1. /\ \A k \in AllNifs \ {m} : sub'[k] = sub[k]
          /\ \A g \in Handles \ {h} : sub'[m][g] = sub[m][g]
          /\ sub'[m][h] = IF m = "ds" THEN "inactive" ELSE "none"
      BY <1>0, <1>6 DEF UnsubscribeHeld
    <2>2. /\ \A k \in AllNifs \ {m} : mStatePtr'[k] = mStatePtr[k]
          /\ mStatePtr'[m] \in {"released", "releasing", mStatePtr[m]}
      BY <1>0, <1>6 DEF UnsubscribeHeld
    <2>3. \A k \in AllNifs : mStatePtr'[k] = "pending" => mStatePtr[k] = "pending"
      BY <2>2
    <2>4. \A g \in Handles : \A k \in AllNifs : sub'[k][g] # "none" => sub[k][g] # "none"
      BY <1>1, <2>1
    <2>5. \A k \in AllNifs : kind[h] = "atl" => sub'[k][h] = "none"
      BY <1>1, <1>2, <2>1 DEF Lists, EsOnly
    <2>6. ListsMove({h})
      BY <2>3, <2>4, <2>5 DEF Lists, Unlisted, ListsMove
    <2>7. /\ Lists'
          /\ \A g \in Handles :
                kind[g] = "atl" /\ answers'[g] # answers[g] => told[g] = "waiting"
      BY <1>0, <1>3, <1>4, <2>6, TellsKeepsLists
    <2>8. \A k \in AllNifs : Has(asked[k], "REQUEST") => Has(asked'[k], "REQUEST")
      BY <1>0, <1>6, AskKeeps DEF UnsubscribeHeld
    <2> QED
      BY <1>3, <1>4, <2>3, <2>4, <2>7, <2>8 DEF Settles, Unlisted
  <1> QED
    BY <1>5, <1>6 DEF Unsubscribe

LEMMA EventSettles ==
    ASSUME IInv, Lists, restarts' = restarts, UNCHANGED kind, NEW m \in AllNifs,
           NEW event \in {"GRANTED", "DENIED", "RELEASED"},
           NEW q \in Seq(Expected(restarts)), OnRsrcEvent(m, event, q)
    PROVE  /\ Settles(q, {})
           /\ m # "ds" /\ mStatePtr[m] = "pending" /\ event # "RELEASED" =>
                 mStatePtr'[m] # "pending"
  <1>0. /\ EsOnly(Active(sub, "ds")) /\ EsOnly(Subscribers(sub, "ds"))
        /\ \A g \in Handles : kind[g] \in {"none", "atl", "es"}
        /\ sub \in [AllNifs -> [Handles -> {"none", "active", "inactive"}]]
        /\ mStatePtr \in [AllNifs -> {"released", "pending", "acquired", "releasing"}]
        /\ restarts \in Nat /\ HandlerTypes /\ AllFit
        /\ \A k \in AllNifs \ {"ds"} : mStatePtr[k] # "releasing"
        /\ "ds" \in AllNifs
    BY ListsFacts DEF IInv
  <1>1. /\ Active(sub, m) \in SUBSET Handles /\ Subscribers(sub, m) \in SUBSET Handles
        /\ \A h \in Active(sub, m) : sub[m][h] # "none"
        /\ \A h \in Subscribers(sub, m) : sub[m][h] # "none"
    BY DEF Active, Subscribers
  \* the listed requests H of m are told, and m waits no longer
  <1>2. ASSUME NEW H \in SUBSET Handles, NEW status \in {"opened", "refused", "closed"},
               \A h \in H : sub[m][h] # "none",
               mStatePtr[m] = "pending" \/ status = "closed",
               Tells(H, status), Adds(q), UNCHANGED asked,
               \A k \in AllNifs \ {m} : mStatePtr'[k] = mStatePtr[k] /\ sub'[k] = sub[k],
               mStatePtr'[m] # "pending",
               \A h \in Handles : sub'[m][h] # "none" => sub[m][h] # "none"
        PROVE  Settles(q, {})
    <2>1. MayTell(H, status)
      BY <1>2 DEF Lists, Unlisted, MayTell
    <2>2. \A g \in Handles : \A k \in AllNifs : sub'[k][g] # "none" => sub[k][g] # "none"
      BY <1>2
    <2>3. \A g \in Handles : \A k \in AllNifs :
             kind[g] = "atl" /\ sub[k][g] # "none" /\ mStatePtr'[k] = "pending" => g \notin H
      BY <1>2 DEF Lists
    <2>4. \A k \in AllNifs : mStatePtr'[k] = "pending" => mStatePtr[k] = "pending"
      BY <1>2
    <2>5. ListsMove(H)
      BY <2>2, <2>3, <2>4 DEF Lists, Unlisted, ListsMove
    <2>6. /\ Lists'
          /\ \A g \in Handles :
                kind[g] = "atl" /\ answers'[g] # answers[g] => told[g] = "waiting"
      BY <1>0, <1>2, <2>1, <2>5, TellsKeepsLists
    <2>7. \A g \in Handles : Unlisted(g) =>
             UNCHANGED told[g] /\ \A k \in AllNifs : sub'[k][g] = "none"
      BY <1>2, <2>2 DEF Unlisted, Tells
    <2> QED
      BY <1>2, <2>4, <2>6, <2>7 DEF Settles
  <1>3. ASSUME Granted(m, q)
        PROVE  Settles(q, {}) /\ mStatePtr'[m] # "pending"
    <2>1. /\ mStatePtr[m] = "pending" /\ mStatePtr' = [mStatePtr EXCEPT ![m] = "acquired"]
          /\ UNCHANGED <<sub, asked>> /\ Notify(m, Active(sub, m), "GRANTED", q)
      BY <1>3 DEF Granted
    <2>2. Tells(Active(sub, m), "opened") /\ Adds(q)
      BY <1>0, <1>1, <2>1, NotifyAdds, AgpsAssumption DEF StatusOf
    <2> QED
      BY <1>0, <1>1, <1>2, <2>1, <2>2
  <1>4. ASSUME NEW e \in {"DENIED", "RELEASED"}, DropAll(m, e, q),
               mStatePtr[m] = "pending" \/ e = "RELEASED"
        PROVE  Settles(q, {}) /\ mStatePtr'[m] # "pending"
    <2>1. /\ mStatePtr' = [mStatePtr EXCEPT ![m] = "released"]
          /\ sub' = [sub EXCEPT ![m] = NoSubscribers]
          /\ UNCHANGED asked /\ Notify(m, Subscribers(sub, m), e, q)
      BY <1>4 DEF DropAll
    <2>2. Tells(Subscribers(sub, m), StatusOf(e)) /\ Adds(q)
      <3>1. e \in {"GRANTED", "DENIED", "RELEASED", "UNSUBSCRIBE"}
        BY <1>4
      <3>2. m = "ds" => EsOnly(Subscribers(sub, m))
        BY <1>0
      <3>3. Notify(m, Subscribers(sub, m), e, q)
        BY <2>1
      <3>4. restarts \in Nat /\ HandlerTypes /\ Subscribers(sub, m) \in SUBSET Handles
        BY <1>0, <1>1
      <3> QED
        BY <3>1, <3>2, <3>3, <3>4, NotifyAdds, AgpsAssumption
    <2>3. /\ \A k \in AllNifs \ {m} : mStatePtr'[k] = mStatePtr[k] /\ sub'[k] = sub[k]
          /\ mStatePtr'[m] = "released"
          /\ \A h \in Handles : sub'[m][h] = "none"
      BY <1>0, <2>1 DEF NoSubscribers
    <2>4. /\ StatusOf(e) \in {"opened", "refused", "closed"}
          /\ e = "RELEASED" => StatusOf(e) = "closed"
      BY <1>4 DEF StatusOf
    <2> QED
      BY <1>1, <1>2, <1>4, <2>1, <2>2, <2>3, <2>4
  <1>5. ASSUME Closed(m, q)
        PROVE  Settles(q, {}) /\ m = "ds"
    <2>1. mStatePtr[m] = "releasing" /\ m = "ds"
      BY <1>0, <1>5 DEF Closed
    <2>2. /\ \A k \in AllNifs \ {"ds"} : sub'[k] = sub[k]
          /\ \A g \in Handles :
                sub'["ds"][g] = IF sub["ds"][g] = "inactive" THEN "none" ELSE sub["ds"][g]
      BY <1>0, <1>5, <2>1 DEF Closed
    <2>3. \A k \in AllNifs \ {"ds"} : mStatePtr'[k] = mStatePtr[k]
      BY <1>0, <1>5, <2>1 DEF Closed
    <2>4. EsOnly(Active(sub', "ds"))
      BY <1>0, <2>2 DEF EsOnly, Active
    <2>5. RequestSent(m, q) \/ RequestFails(q) \/ (msgs' = q /\ TellNobody /\ UNCHANGED asked)
      BY <1>5 DEF Closed
    <2>6. /\ Adds(q) /\ Tells({}, "closed")
          /\ \A k \in AllNifs : Has(asked[k], "REQUEST") => Has(asked'[k], "REQUEST")
      <3>1. CASE RequestSent(m, q)
        BY <1>0, <3>1, AddsNothing, AskKeeps DEF RequestSent, TellNobody, Tells
      <3>2. CASE RequestFails(q)
        BY <1>0, <2>4, <3>2, RequestFailsAdds, AgpsAssumption
      <3>3. CASE msgs' = q /\ TellNobody /\ UNCHANGED asked
        BY <3>3, AddsNothing DEF TellNobody, Tells
      <3> QED
        BY <2>5, <3>1, <3>2, <3>3
    <2>7. \A g \in Handles : \A k \in AllNifs : sub'[k][g] # "none" => sub[k][g] # "none"
      BY <2>2
    <2>8. ListsMove({})
      BY <2>3, <2>7 DEF Lists, Unlisted, ListsMove
    <2>9. MayTell({}, "closed")
      BY DEF MayTell
    <2>10. /\ Lists'
          /\ \A g \in Handles :
                kind[g] = "atl" /\ answers'[g] # answers[g] => told[g] = "waiting"
      BY <1>0, <2>6, <2>8, <2>9, TellsKeepsLists
    <2>11. \A g \in Handles : UNCHANGED told[g]
      BY <2>6 DEF Tells
    <2> QED
      BY <2>1, <2>3, <2>6, <2>7, <2>10, <2>11 DEF Settles, Unlisted
  <1>6. ASSUME EventIgnored(m, event, q)
        PROVE  /\ Settles(q, {})
               /\ m # "ds" /\ mStatePtr[m] = "pending" => event = "RELEASED"
    <2>1. UNCHANGED <<mStatePtr, sub, asked, told, answers>> /\ msgs' = q
      BY <1>6 DEF EventIgnored, smVars, TellNobody
    <2>2. Lists'
      BY <2>1 DEF Lists, Unlisted, Hears
    <2>3. m # "ds" /\ mStatePtr[m] = "pending" => event = "RELEASED"
      BY <1>6 DEF EventIgnored
    <2> QED
      BY <2>1, <2>2, <2>3, AddsNothing DEF Settles, Unlisted
  <1> QED
    BY <1>3, <1>4, <1>5, <1>6 DEF OnRsrcEvent, Denied, ForceReleased

-----------------------------------------------------------------------------
(* A handler takes the first message and adds emergency requests only, so  *)
(* an ordinary request that stays in the queue stays as it was.            *)
LEMMA SettlesKeepsQueue ==
    ASSUME IInv, Queue, msgs # <<>>, UNCHANGED kind,
           NEW H, \A h \in Handles : h \in H => About(Head(msgs), h),
           Settles(Rest, H)
    PROVE  Queue'
  <1>1. PICK t \in Seq(Expected(restarts)) :
              /\ msgs' = Rest \o t
              /\ \A i \in 1..Len(t) : \E h \in Handles :
                    t[i] = AtlRequest(h, "agnss") /\ kind[h] = "es"
    BY DEF Settles, Adds
  <1>2. /\ msgs \in Seq(Expected(restarts)) /\ Rest \in Seq(Expected(restarts))
        /\ Head(msgs) = msgs[1] /\ Len(Rest) = Len(msgs) - 1 /\ Len(msgs) \in Nat \ {0}
        /\ \A i \in 1..Len(Rest) : Rest[i] = msgs[i + 1]
    BY DEF IInv, Rest
  <1>3. /\ Len(msgs') = Len(Rest) + Len(t) /\ Len(t) \in Nat
        /\ \A i \in 1..Len(Rest) : msgs'[i] = Rest[i]
        /\ \A i \in 1..Len(t) : msgs'[Len(Rest) + i] = t[i]
    <2> DEFINE u == Rest \o t
    <2>1. /\ Len(u) = Len(Rest) + Len(t) /\ Len(t) \in Nat
          /\ \A i \in 1..Len(Rest) : u[i] = Rest[i]
          /\ \A i \in 1..Len(t) : u[Len(Rest) + i] = t[i]
      <3> DEFINE S == Expected(restarts)
      <3>1. Rest \in Seq(S) /\ t \in Seq(S)
        BY <1>2
      <3> HIDE DEF S
      <3> QED
        BY <3>1, ConcatElements
    <2>2. msgs' = u
      BY <1>1
    <2> HIDE DEF u
    <2> QED
      BY <2>1, <2>2
  <1>4. \A h \in Handles \ H :
           Unlisted(h) /\ Hears(h) => Unlisted(h)' /\ Hears(h)'
    <2>1. \A h \in Handles \ H : Unlisted(h) =>
             told'[h] = told[h] /\ \A k \in AllNifs : sub'[k][h] = "none"
      BY DEF Settles
    <2> QED
      BY <2>1 DEF Unlisted, Hears
  <1>5. ASSUME NEW i \in 1..Len(msgs'), NEW h \in Handles, About(msgs'[i], h)
        PROVE  /\ kind[h] # "none"
               /\ msgs'[i].type = "requestSuplES" => kind[h] = "es"
               /\ msgs'[i].type = "requestATL" /\ kind[h] = "atl" =>
                     /\ Hears(h)' /\ Unlisted(h)'
                     /\ \A j \in 1..(i - 1) : ~About(msgs'[j], h)
    <2>1. CASE i \in 1..Len(Rest)
      <3>1. i + 1 \in 1..Len(msgs) /\ msgs'[i] = msgs[i + 1]
        BY <1>2, <1>3, <2>1
      <3>2. About(msgs[i + 1], h)
        BY <1>5, <3>1
      <3>3. ASSUME msgs'[i].type = "requestATL", kind[h] = "atl"
            PROVE  /\ Hears(h)' /\ Unlisted(h)'
                   /\ \A j \in 1..(i - 1) : ~About(msgs'[j], h)
        <4>1. Hears(h) /\ Unlisted(h) /\ \A j \in 1..i : ~About(msgs[j], h)
          BY <3>1, <3>2, <3>3 DEF Queue
        <4>2. h \notin H
          BY <1>2, <2>1, <4>1
        <4>3. \A j \in 1..(i - 1) : j + 1 \in 1..i /\ msgs'[j] = msgs[j + 1]
          <5>1. \A j \in 1..(i - 1) : j \in 1..Len(Rest) /\ j + 1 \in 1..i
            BY <1>2, <2>1
          <5> QED
            BY <1>2, <1>3, <5>1
        <4>4. \A j \in 1..(i - 1) : ~About(msgs'[j], h)
          BY <4>1, <4>3
        <4> QED
          BY <1>4, <4>1, <4>2, <4>4
      <3> QED
        BY <3>1, <3>2, <3>3 DEF Queue
    <2>2. CASE i \notin 1..Len(Rest)
      <3>1. i - Len(Rest) \in 1..Len(t) /\ msgs'[i] = t[i - Len(Rest)]
        BY <1>2, <1>3, <2>2
      <3>2. PICK g \in Handles : msgs'[i] = AtlRequest(g, "agnss") /\ kind[g] = "es"
        BY <1>1, <3>1
      <3>3. g = h /\ msgs'[i].type = "requestATL"
        BY <1>5, <3>2 DEF About, AtlRequest
      <3> QED
        BY <3>2, <3>3
    <2> QED
      BY <2>1, <2>2
  <1> QED
    BY <1>5 DEF Queue

(* A machine that waits loses what it waits for only by ceasing to wait. *)
LEMMA SettlesKeepsAwaited ==
    ASSUME IInv, Awaited, msgs # <<>>, NEW H, Settles(Rest, H),
           \A m \in AllNifs \ {"ds"} : \A event \in {"GRANTED", "DENIED"} :
              mStatePtr[m] = "pending" /\ Head(msgs) = Report(m, event) =>
                 mStatePtr'[m] # "pending"
    PROVE  Awaited'
  <1>1. PICK t \in Seq(Expected(restarts)) : msgs' = Rest \o t
    BY DEF Settles, Adds
  <1>2. msgs \in Seq(Expected(restarts)) /\ Rest \in Seq(Expected(restarts)) /\ Rest = Tail(msgs)
    BY DEF IInv, Rest
  <1>3. \A y : Has(msgs, y) <=> y = Head(msgs) \/ Has(Rest, y)
    BY <1>2, HasTail
  <1>4. \A y : Has(msgs', y) <=> Has(Rest, y) \/ Has(t, y)
    BY <1>1, <1>2, HasConcat
  <1>5. ASSUME NEW m \in AllNifs \ {"ds"}, mStatePtr'[m] = "pending"
        PROVE  \/ Has(asked'[m], "REQUEST")
               \/ Has(msgs', Report(m, "GRANTED"))
               \/ Has(msgs', Report(m, "DENIED"))
    <2>1. CASE mStatePtr[m] # "pending"
      BY <1>5, <2>1 DEF Settles
    <2>2. CASE mStatePtr[m] = "pending"
      <3>1. \/ Has(asked[m], "REQUEST")
            \/ Has(msgs, Report(m, "GRANTED"))
            \/ Has(msgs, Report(m, "DENIED"))
        BY <2>2 DEF Awaited
      <3>2. /\ Head(msgs) # Report(m, "GRANTED")
            /\ Head(msgs) # Report(m, "DENIED")
        BY <1>5, <2>2
      <3> QED
        BY <1>3, <1>4, <3>1, <3>2 DEF Settles
    <2> QED
      BY <2>1, <2>2
  <1> QED
    BY <1>5 DEF Awaited, Report

(* What was to be answered is answered while the modem waits for it. *)
Fit ==
    \A h \in Handles :
       kind[h] = "atl" /\ answers'[h] # answers[h] => told[h] = "waiting"

LEMMA SettlesKeepsCalls ==
    ASSUME IInv, Calls, msgs # <<>>, UNCHANGED kind,
           NEW H, \A h \in Handles : h \in H => About(Head(msgs), h),
           Settles(Rest, H),
           Head(msgs).type \notin {"GRANTED", "DENIED"}
    PROVE  Calls' /\ Fit
  <1>1. \A m \in AllNifs \ {"ds"} : \A event \in {"GRANTED", "DENIED"} :
           Head(msgs) # Report(m, event)
    BY DEF Report
  <1>2. Lists' /\ Fit
    BY DEF Settles, Fit
  <1> QED
    BY <1>1, <1>2, SettlesKeepsQueue, SettlesKeepsAwaited DEF Calls

(* What a message about a call may be when its turn comes. *)
LEMMA HeadAbout ==
    ASSUME IInv, Calls, msgs # <<>>, NEW h \in Handles, About(Head(msgs), h)
    PROVE  /\ kind[h] # "none"
           /\ Head(msgs).type = "requestSuplES" => kind[h] = "es"
           /\ Head(msgs).type = "requestATL" /\ kind[h] = "atl" => Hears(h) /\ Unlisted(h)
  <1>1. Head(msgs) = msgs[1] /\ 1 \in 1..Len(msgs)
    BY DEF IInv
  <1> QED
    BY <1>1 DEF Calls, Queue

(* A handle that nobody holds is told so. *)
LEMMA TellSettles ==
    ASSUME IInv, Calls, NEW h \in Handles, NEW status \in {"refused", "closed"},
           kind[h] # "none",
           kind[h] = "atl" => Unlisted(h) /\ (status # "closed" => Hears(h)),
           Tell({h}, status), msgs' = Rest, Rest \in Seq(Expected(restarts)),
           UNCHANGED kind, UNCHANGED <<smVars, callVars, asked>>
    PROVE  Settles(Rest, {h})
  <1>1. UNCHANGED <<mStatePtr, sub, asked>> /\ HandlerTypes
        /\ \A g \in Handles : kind[g] \in {"none", "atl", "es"}
    BY ListsFacts DEF smVars, IInv, Calls
  <1>2. Tells({h}, status)
    BY DEF Tell, Tells, IInv, HandlerTypes
  <1>3. MayTell({h}, status)
    BY DEF MayTell
  <1>4. ListsMove({h})
    BY <1>1 DEF ListsMove, Lists, Calls, Unlisted
  <1>5. Lists' /\ \A g \in Handles :
           kind[g] = "atl" /\ answers'[g] # answers[g] => told[g] = "waiting"
    BY <1>1, <1>2, <1>3, <1>4, TellsKeepsLists DEF Calls
  <1>6. Adds(Rest)
    BY AddsNothing
  <1>7. \A g \in Handles \ {h} : UNCHANGED told[g]
    BY <1>2 DEF Tells
  <1> QED
    BY <1>1, <1>5, <1>6, <1>7 DEF Settles, Unlisted

(* Every message keeps the requests where they may be. *)
LEMMA MsgTaskSettles ==
    ASSUME IInv, Calls, MsgTaskStep
    PROVE  Calls' /\ Fit
  <1>0. /\ HandlerTypes /\ OtherTypes /\ msgs \in Seq(Expected(restarts))
        /\ nifs \subseteq AllNifs /\ "ds" \in AllNifs /\ "agnss" \in AllNifs
        /\ Lists
    BY AgpsAssumption DEF IInv, OtherTypes, AllNifs, Calls
  <1>1. CASE RequestATLProc
    <2> DEFINE h == Head(msgs).handle
    <2>1. /\ msgs # <<>> /\ Head(msgs).type = "requestATL"
          /\ restarts' = restarts /\ UNCHANGED kind
      BY <1>1 DEF RequestATLProc, Arrives, modemVars
    <2>2. /\ h \in Handles /\ Head(msgs).nif \in AllNifs \ {"ds"}
          /\ Rest \in Seq(Expected(restarts))
      BY <2>1, Arrival DEF Message, NifInit, EngineUp
    <2>3. About(Head(msgs), h)
      BY <2>1 DEF About
    <2>4. kind[h] # "none" /\ (kind[h] = "atl" => Hears(h) /\ Unlisted(h))
      BY <2>1, <2>2, <2>3, HeadAbout
    <2>5. \/ Subscribe(Head(msgs).nif, h, Rest)
          \/ Refuse(h)
      BY <1>1 DEF RequestATLProc
    <2> HIDE DEF h
    <2>6. ASSUME Subscribe(Head(msgs).nif, h, Rest) PROVE Settles(Rest, {h})
      BY <1>0, <2>1, <2>2, <2>4, <2>6, SubscribeSettles
    <2>7. ASSUME Refuse(h) PROVE Settles(Rest, {h})
      BY <2>1, <2>2, <2>4, <2>7, TellSettles DEF Refuse
    <2> QED
      BY <2>1, <2>3, <2>5, <2>6, <2>7, SettlesKeepsCalls
  <1>2. CASE RequestSuplEsProc
    <2> DEFINE h == Head(msgs).handle
    <2>1. /\ msgs # <<>> /\ Head(msgs).type = "requestSuplES"
          /\ restarts' = restarts /\ UNCHANGED kind
      BY <1>2 DEF RequestSuplEsProc, Arrives, modemVars
    <2>2. h \in Handles /\ Rest \in Seq(Expected(restarts))
      BY <2>1, Arrival, MessageFields
    <2>3. About(Head(msgs), h)
      BY <2>1 DEF About
    <2>4. kind[h] = "es"
      BY <2>1, <2>2, <2>3, HeadAbout
    <2>5. \/ \E m \in AllNifs : Subscribe(m, h, Rest)
          \/ Refuse(h)
      BY <1>0, <1>2 DEF RequestSuplEsProc
    <2> HIDE DEF h
    <2>6. ASSUME NEW m \in AllNifs, Subscribe(m, h, Rest) PROVE Settles(Rest, {h})
      BY <1>0, <2>1, <2>2, <2>4, <2>6, SubscribeSettles
    <2>7. ASSUME Refuse(h) PROVE Settles(Rest, {h})
      BY <2>1, <2>2, <2>4, <2>7, TellSettles DEF Refuse
    <2> QED
      BY <2>1, <2>3, <2>5, <2>6, <2>7, SettlesKeepsCalls
  <1>3. CASE ReleaseATLProc
    <2> DEFINE h == Head(msgs).handle
    <2>1. /\ msgs # <<>> /\ Head(msgs).type = "releaseATL"
          /\ restarts' = restarts /\ UNCHANGED kind
      BY <1>3 DEF ReleaseATLProc, Arrives, modemVars
    <2>2. h \in Handles /\ Rest \in Seq(Expected(restarts))
      BY <2>1, Arrival, MessageFields
    <2>3. About(Head(msgs), h)
      BY <2>1 DEF About
    <2>4. kind[h] # "none"
      BY <2>1, <2>2, <2>3, HeadAbout
    <2>5. \/ \E m \in AllNifs : Unsubscribe(m, h, Rest)
          \/ NoneFound(h)
      BY <1>3 DEF ReleaseATLProc, Holder, AllNifs
    <2> HIDE DEF h
    <2>6. ASSUME NEW m \in AllNifs, Unsubscribe(m, h, Rest) PROVE Settles(Rest, {h})
      BY <1>0, <2>1, <2>2, <2>6, UnsubscribeSettles
    <2>7. ASSUME NoneFound(h) PROVE Settles(Rest, {h})
      BY <2>1, <2>2, <2>4, <2>7, TellSettles DEF NoneFound, Unlisted
    <2> QED
      BY <2>1, <2>3, <2>5, <2>6, <2>7, SettlesKeepsCalls
  <1>4. CASE ReportProc
    <2>1. PICK event \in {"GRANTED", "DENIED", "RELEASED"} :
              Arrives(event) /\ OnRsrcEvent(Head(msgs).nif, event, Rest)
      BY <1>4 DEF ReportProc
    <2>2. /\ restarts' = restarts /\ UNCHANGED kind
          /\ msgs # <<>> /\ Head(msgs).type = event
      BY <1>4, <2>1 DEF ReportProc, Arrives, modemVars
    <2>3. /\ Head(msgs).nif \in AllNifs
          /\ Rest \in Seq(Expected(restarts))
      BY <2>2, Arrival, MessageFields
    <2> DEFINE m == Head(msgs).nif
    <2>4. /\ Settles(Rest, {})
          /\ m # "ds" /\ mStatePtr[m] = "pending" /\ event # "RELEASED" =>
                mStatePtr'[m] # "pending"
      BY <1>0, <2>1, <2>2, <2>3, EventSettles
    <2>5. \A k \in AllNifs \ {"ds"} : \A e \in {"GRANTED", "DENIED"} :
              mStatePtr[k] = "pending" /\ Head(msgs) = Report(k, e) =>
                 mStatePtr'[k] # "pending"
      BY <2>2, <2>4 DEF Report
    <2>6. Queue'
      BY <2>2, <2>4, SettlesKeepsQueue DEF Calls
    <2>7. Awaited'
      BY <2>2, <2>4, <2>5, SettlesKeepsAwaited DEF Calls
    <2> QED
      BY <2>4, <2>6, <2>7 DEF Calls, Settles, Fit
  <1>5. CASE NifInitProc
    <2>1. /\ msgs # <<>> /\ Head(msgs).type = "nifInit" /\ msgs' = Rest
          /\ UNCHANGED <<mStatePtr, sub, asked, told, answers, kind, restarts>>
      BY <1>5 DEF NifInitProc, Arrives, smVars, modemVars
    <2>2. Rest \in Seq(Expected(restarts))
      BY <2>1, Arrival
    <2>3. Lists'
      BY <1>0, <2>1 DEF Lists, Unlisted, Hears
    <2>4. Settles(Rest, {})
      BY <2>1, <2>2, <2>3, AddsNothing DEF Settles, Unlisted
    <2> QED
      BY <2>1, <2>4, SettlesKeepsCalls
  <1>6. CASE EngineUpProc
    <2>1. /\ msgs # <<>> /\ Head(msgs).type = "engineUp" /\ msgs' = Rest
          /\ UNCHANGED <<mStatePtr, asked, told, answers, kind, restarts>>
      BY <1>6 DEF EngineUpProc, Arrives, modemVars
    <2>2. Rest \in Seq(Expected(restarts))
      BY <2>1, Arrival
    <2>3. \A m \in AllNifs : sub'[m] = sub[m] \/ \A h \in Handles : sub'[m][h] = "none"
      BY <1>6 DEF EngineUpProc, NoSubscribers
    <2>4. \A h \in Handles : \A m \in AllNifs : sub'[m][h] # "none" => sub[m][h] # "none"
      BY <2>3
    <2>5. Lists'
      BY <1>0, <2>1, <2>4 DEF Lists, Unlisted, Hears
    <2>6. Settles(Rest, {})
      BY <2>1, <2>2, <2>4, <2>5, AddsNothing DEF Settles, Unlisted
    <2> QED
      BY <2>1, <2>6, SettlesKeepsCalls
  <1> QED
    BY <1>1, <1>2, <1>3, <1>4, <1>5, <1>6 DEF MsgTaskStep

(* A message added to the queue that is not an ordinary request keeps what *)
(* is known of those that are.                                             *)
LEMMA AppendKeepsQueue ==
    ASSUME IInv, Queue, UNCHANGED <<kind, sub>>,
           \A h \in Handles : Hears(h) => Hears(h)',
           NEW x \in Expected(restarts), msgs' = Append(msgs, x),
           \A h \in Handles : About(x, h) =>
              /\ kind[h] # "none"
              /\ x.type = "requestSuplES" => kind[h] = "es"
              /\ x.type # "requestATL"
    PROVE  Queue'
  <1>1. /\ msgs \in Seq(Expected(restarts)) /\ Len(msgs) \in Nat
        /\ Len(msgs') = Len(msgs) + 1 /\ msgs'[Len(msgs) + 1] = x
        /\ \A i \in 1..Len(msgs) : msgs'[i] = msgs[i]
    BY DEF IInv
  <1>2. ASSUME NEW i \in 1..Len(msgs'), NEW h \in Handles, About(msgs'[i], h)
        PROVE  /\ kind[h] # "none"
               /\ msgs'[i].type = "requestSuplES" => kind[h] = "es"
               /\ msgs'[i].type = "requestATL" /\ kind[h] = "atl" =>
                     Hears(h) /\ Unlisted(h) /\ \A j \in 1..(i - 1) : ~About(msgs'[j], h)
    <2>1. CASE i \in 1..Len(msgs)
      <3>1. msgs'[i] = msgs[i] /\ \A j \in 1..(i - 1) : msgs'[j] = msgs[j]
        BY <1>1, <2>1
      <3> QED
        BY <1>2, <2>1, <3>1 DEF Queue
    <2>2. CASE i = Len(msgs) + 1
      BY <1>1, <1>2, <2>2
    <2> QED
      BY <1>1, <2>1, <2>2
  <1> QED
    BY <1>2 DEF Queue, Hears, Unlisted

LEMMA AppendKeepsAwaited ==
    ASSUME IInv, Awaited, UNCHANGED <<mStatePtr, asked>>,
           NEW x \in Expected(restarts'), restarts' \in {restarts, restarts + 1},
           msgs' = Append(msgs, x)
    PROVE  Awaited'
  <1>1. msgs \in Seq(Expected(restarts'))
    <2>1. Expected(restarts) \subseteq Expected(restarts')
      BY AgpsAssumption DEF IInv, OtherTypes, Expected
    <2> QED
      BY <2>1 DEF IInv
  <1>2. \A y : Has(msgs', y) <=> Has(msgs, y) \/ y = x
    BY <1>1, HasAppend
  <1> QED
    BY <1>2 DEF Awaited, Report

(* What runs beside the message task adds at most one message, and a       *)
(* request of the framework that it takes becomes its answer.              *)
LEMMA OthersSettle ==
    ASSUME IInv, Calls,
           \/ RetryCallback
           \/ \E m \in AllNifs : Answer(m) \/ LoseConnection(m)
           \/ AgpsInit
           \/ \E h \in Handles : ModemRequests(h) \/ ModemReleases(h)
           \/ ModemRestarts
    PROVE  Calls' /\ Fit
  <1>0. /\ HandlerTypes /\ OtherTypes /\ msgs \in Seq(Expected(restarts)) /\ restarts \in Nat
        /\ Lists /\ Queue /\ Awaited
        /\ EsOnly(Active(sub, "ds")) /\ \A h \in Handles : kind[h] \in {"none", "atl", "es"}
    BY ListsFacts DEF IInv, Calls
  \* a message about nobody's call
  <1>1. ASSUME NEW x \in Expected(restarts), msgs' = Append(msgs, x),
               UNCHANGED <<mStatePtr, sub, told, answers, kind>>,
               \A h \in Handles : About(x, h) =>
                  /\ kind[h] # "none"
                  /\ x.type = "requestSuplES" => kind[h] = "es"
                  /\ x.type # "requestATL"
        PROVE  Lists' /\ Queue' /\ Fit
    <2>1. \A h \in Handles : Hears(h) => Hears(h)'
      BY <1>1 DEF Hears
    <2>2. Queue'
      BY <1>0, <1>1, <2>1, AppendKeepsQueue
    <2> QED
      BY <1>0, <1>1, <2>2 DEF Lists, Unlisted, Hears, Fit
  <1>2. ASSUME UNCHANGED <<msgs, mStatePtr, sub, told, answers, kind>>
        PROVE  Lists' /\ Queue' /\ Fit
    BY <1>0, <1>2 DEF Lists, Queue, Unlisted, Hears, Fit
  <1>3. CASE RetryCallback
    <2>1. UNCHANGED <<mStatePtr, sub, told, answers, kind, asked, restarts>>
      BY <1>3 DEF RetryCallback, smVars, modemVars
    <2>2. CASE UNCHANGED msgs
      BY <1>0, <1>2, <2>1, <2>2 DEF Calls, Awaited
    <2>3. ASSUME NEW h \in Active(sub, "ds"), msgs' = Append(msgs, EsRequest(h))
          PROVE  Calls' /\ Fit
      <3>1. /\ h \in Handles /\ kind[h] = "es" /\ EsRequest(h) \in Expected(restarts)
            /\ EsRequest(h).type = "requestSuplES" /\ EsRequest(h).handle = h
        BY <1>0, <2>3, SentIsExpected DEF Active, EsOnly, EsRequest
      <3>2. Lists' /\ Queue' /\ Fit
        BY <1>1, <2>1, <2>3, <3>1 DEF About
      <3>3. Awaited'
        BY <1>0, <2>1, <2>3, <3>1, AppendKeepsAwaited
      <3> QED
        BY <3>2, <3>3 DEF Calls
    <2> QED
      BY <1>3, <2>2, <2>3 DEF RetryCallback
  \* the framework reports something and may take what it was asked
  <1>4. ASSUME NEW m \in AllNifs, NEW event \in {"GRANTED", "DENIED", "RELEASED"},
               Report(m, event) \in Expected(restarts),
               msgs' = Append(msgs, Report(m, event)),
               UNCHANGED <<mStatePtr, sub, told, answers, kind>>,
               \A k \in AllNifs : Has(asked[k], "REQUEST") =>
                  Has(asked'[k], "REQUEST") \/ (k = m /\ (m # "ds" => event # "RELEASED"))
        PROVE  Calls' /\ Fit
    <2>1. \A h \in Handles : ~About(Report(m, event), h)
      BY <1>4 DEF About, Report
    <2>2. Lists' /\ Queue' /\ Fit
      BY <1>1, <1>4, <2>1
    <2>3. \A y : Has(msgs', y) <=> Has(msgs, y) \/ y = Report(m, event)
      BY <1>0, <1>4, HasAppend
    <2>4. Awaited'
      <3> SUFFICES ASSUME NEW k \in AllNifs \ {"ds"}, mStatePtr'[k] = "pending"
                   PROVE  \/ Has(asked'[k], "REQUEST")
                          \/ Has(msgs', Report(k, "GRANTED"))
                          \/ Has(msgs', Report(k, "DENIED"))
        BY DEF Awaited, Report
      <3>1. \/ Has(asked[k], "REQUEST")
            \/ Has(msgs, Report(k, "GRANTED"))
            \/ Has(msgs, Report(k, "DENIED"))
        BY <1>0, <1>4 DEF Awaited
      <3>2. ASSUME k = m, m # "ds" => event # "RELEASED"
            PROVE  Report(m, event) \in {Report(k, "GRANTED"), Report(k, "DENIED")}
        BY <1>4, <3>2
      <3> QED
        BY <1>4, <2>3, <3>1, <3>2
    <2> QED
      BY <2>2, <2>4 DEF Calls
  <1>5. ASSUME NEW m \in AllNifs, AnswerRequest(m)
        PROVE  Calls' /\ Fit
    <2>1. UNCHANGED <<mStatePtr, sub, told, answers, kind>>
      BY <1>5 DEF AnswerRequest, smVars, modemVars
    <2>2. \A k \in AllNifs \ {m} : asked'[k] = asked[k]
      BY <1>0, <1>5 DEF AnswerRequest, HandlerTypes
    <2>3. \E event \in {"GRANTED", "DENIED", "RELEASED"} :
             /\ Report(m, event) \in Expected(restarts)
             /\ msgs' = Append(msgs, Report(m, event))
             /\ m # "ds" => event # "RELEASED"
      BY <1>0, <1>5, SentIsExpected DEF AnswerRequest, Reports
    <2> QED
      BY <1>4, <2>1, <2>2, <2>3
  <1>6. ASSUME NEW m \in AllNifs, AnswerRelease(m)
        PROVE  Calls' /\ Fit
    <2>1. UNCHANGED <<mStatePtr, sub, told, answers, kind>>
      BY <1>6 DEF AnswerRelease, smVars, modemVars
    <2>2. \A k \in AllNifs : Has(asked[k], "REQUEST") => Has(asked'[k], "REQUEST")
      <3>1. asked[m] \in Seq({"REQUEST", "RELEASE"}) /\ asked[m] # <<>>
            /\ Head(asked[m]) = "RELEASE"
        BY <1>0, <1>6 DEF AnswerRelease, HandlerTypes
      <3>2. Has(asked[m], "REQUEST") => Has(Tail(asked[m]), "REQUEST")
        BY <3>1, HasTail
      <3>3. asked' = [asked EXCEPT ![m] = Tail(@)] /\ asked \in [AllNifs -> Seq({"REQUEST", "RELEASE"})]
        BY <1>0, <1>6 DEF AnswerRelease, HandlerTypes
      <3> QED
        BY <3>2, <3>3
    <2>3. CASE UNCHANGED msgs
      BY <1>0, <1>2, <2>1, <2>2, <2>3 DEF Calls, Awaited
    <2>4. CASE msgs' = Append(msgs, Report(m, "RELEASED"))
      <3>1. Report(m, "RELEASED") \in Expected(restarts)
        BY <1>0, SentIsExpected
      <3> QED
        BY <1>4, <2>1, <2>2, <2>4, <3>1
    <2> QED
      BY <1>6, <2>3, <2>4 DEF AnswerRelease, Reports
  <1>7. ASSUME NEW m \in AllNifs, LoseConnection(m)
        PROVE  Calls' /\ Fit
    <2>1. /\ UNCHANGED <<mStatePtr, sub, told, answers, kind, asked>>
          /\ msgs' = Append(msgs, Report(m, "RELEASED"))
      BY <1>7 DEF LoseConnection, Reports, smVars, modemVars
    <2>2. Report(m, "RELEASED") \in Expected(restarts)
      BY <1>0, SentIsExpected
    <2> QED
      BY <1>4, <2>1, <2>2
  <1>8. CASE AgpsInit
    <2>1. /\ UNCHANGED <<mStatePtr, sub, told, answers, kind, asked, restarts>>
          /\ msgs' = Append(msgs, NifInit) /\ NifInit \in Expected(restarts)
      BY <1>0, <1>8, SentIsExpected DEF AgpsInit, smVars, modemVars
    <2>2. \A h \in Handles : ~About(NifInit, h)
      BY DEF About, NifInit
    <2> QED
      BY <1>0, <1>1, <2>1, <2>2, AppendKeepsAwaited DEF Calls
  <1>9. ASSUME NEW h \in Handles, ModemReleases(h)
        PROVE  Calls' /\ Fit
    <2>1. /\ UNCHANGED <<mStatePtr, sub, told, answers, kind, asked, restarts>>
          /\ msgs' = Append(msgs, Release(h)) /\ Release(h) \in Expected(restarts)
          /\ told[h] # "unused"
      BY <1>0, <1>9, SentIsExpected DEF ModemReleases, smVars
    <2>2. /\ kind[h] # "none" /\ Release(h).type = "releaseATL" /\ Release(h).handle = h
      BY <1>0, <2>1 DEF Lists, Release
    <2>3. Lists' /\ Queue' /\ Fit
      BY <1>1, <2>1, <2>2 DEF About
    <2> QED
      BY <1>0, <2>1, <2>3, AppendKeepsAwaited DEF Calls
  <1>10. ASSUME NEW h \in Handles, ModemRequests(h)
         PROVE  Calls' /\ Fit
    <2>1. /\ UNCHANGED <<mStatePtr, sub, answers, asked, restarts>>
          /\ told[h] = "unused" /\ told' = [told EXCEPT ![h] = "waiting"]
      BY <1>10 DEF ModemRequests, smVars
    <2>2. PICK x \in {EsRequest(h)} \cup {AtlRequest(h, m) : m \in AllNifs \ {"ds"}} :
             /\ msgs' = Append(msgs, x) /\ x \in Expected(restarts)
             /\ kind' = [kind EXCEPT ![h] = IF x.type = "requestATL" THEN "atl" ELSE "es"]
      <3>1. AtlNifs \subseteq AllNifs \ {"ds"}
        BY AgpsAssumption DEF AllNifs
      <3>2. /\ EsRequest(h).type # "requestATL"
            /\ \A m \in AllNifs \ {"ds"} : AtlRequest(h, m).type = "requestATL"
        BY DEF EsRequest, AtlRequest
      <3> QED
        BY <1>0, <1>10, <3>1, <3>2, SentIsExpected DEF ModemRequests
    <2>3. /\ x.type \in {"requestATL", "requestSuplES"}
          /\ \A g \in Handles : About(x, g) <=> g = h
      BY <2>2 DEF About, EsRequest, AtlRequest
    <2>4. /\ kind[h] = "none" /\ Unlisted(h)
          /\ \A i \in 1..Len(msgs) : ~About(msgs[i], h)
      BY <1>0, <2>1 DEF Lists, Queue
    <2>5. /\ \A g \in Handles \ {h} : kind'[g] = kind[g] /\ told'[g] = told[g]
          /\ kind'[h] = (IF x.type = "requestATL" THEN "atl" ELSE "es") /\ told'[h] = "waiting"
      BY <1>0, <2>1, <2>2 DEF HandlerTypes, OtherTypes
    <2>6. Lists'
      BY <1>0, <2>1, <2>4, <2>5 DEF Lists, Unlisted, Hears
    <2>7. /\ Len(msgs) \in Nat
          /\ Len(msgs') = Len(msgs) + 1 /\ msgs'[Len(msgs) + 1] = x
          /\ \A i \in 1..Len(msgs) : msgs'[i] = msgs[i]
      BY <1>0, <2>2
    <2>8. ASSUME NEW i \in 1..Len(msgs'), NEW g \in Handles, About(msgs'[i], g)
          PROVE  /\ kind'[g] # "none"
                 /\ msgs'[i].type = "requestSuplES" => kind'[g] = "es"
                 /\ msgs'[i].type = "requestATL" /\ kind'[g] = "atl" =>
                       /\ Hears(g)' /\ Unlisted(g)'
                       /\ \A j \in 1..(i - 1) : ~About(msgs'[j], g)
      <3>1. CASE i \in 1..Len(msgs)
        <4>1. msgs'[i] = msgs[i] /\ \A j \in 1..(i - 1) : msgs'[j] = msgs[j]
          BY <2>7, <3>1
        <4>2. g # h
          BY <2>4, <2>8, <3>1, <4>1
        <4>3. kind'[g] = kind[g] /\ (Hears(g) => Hears(g)') /\ (Unlisted(g) => Unlisted(g)')
          BY <2>1, <2>5, <4>2 DEF Hears, Unlisted
        <4> QED
          BY <1>0, <2>8, <3>1, <4>1, <4>3 DEF Queue
      <3>2. CASE i = Len(msgs) + 1
        <4>1. msgs'[i] = x /\ g = h /\ \A j \in 1..(i - 1) : j \in 1..Len(msgs) /\ msgs'[j] = msgs[j]
          BY <2>3, <2>7, <2>8, <3>2
        <4>2. Hears(h)' /\ Unlisted(h)'
          BY <2>1, <2>4, <2>5 DEF Hears, Unlisted
        <4> QED
          BY <2>3, <2>4, <2>5, <4>1, <4>2
      <3> QED
        BY <2>7, <3>1, <3>2
    <2>9. Queue'
      BY <2>8 DEF Queue
    <2>10. Awaited'
      BY <1>0, <2>1, <2>2, AppendKeepsAwaited
    <2> QED
      BY <2>1, <2>6, <2>9, <2>10 DEF Calls, Fit
  <1>11. CASE ModemRestarts
    <2>1. /\ UNCHANGED <<mStatePtr, sub, answers, asked, kind>> /\ restarts' = restarts + 1
          /\ msgs' = Append(msgs, EngineUp)
          /\ \A h \in Handles :
                told'[h] = IF told[h] = "unused" THEN "unused" ELSE "forgotten"
      BY <1>11 DEF ModemRestarts, smVars
    <2>2. EngineUp \in Expected(restarts') /\ \A h \in Handles : ~About(EngineUp, h)
      BY <1>0, <2>1, SentIsExpected DEF About, EngineUp
    <2>3. \A h \in Handles : Hears(h) => Hears(h)'
      BY <2>1 DEF Hears
    <2>4. Lists'
      BY <1>0, <2>1, <2>3 DEF Lists, Unlisted
    <2>5. Queue'
      <3>1. msgs \in Seq(Message) /\ EngineUp \in Message
        <4>1. Expected(restarts) \subseteq Message
          BY DEF Expected
        <4> QED
          BY <1>0, <4>1 DEF Message
      <3>2. /\ Len(msgs) \in Nat
            /\ Len(msgs') = Len(msgs) + 1 /\ msgs'[Len(msgs) + 1] = EngineUp
            /\ \A i \in 1..Len(msgs) : msgs'[i] = msgs[i]
        BY <2>1, <3>1
      <3>3. \A i \in 1..Len(msgs') : \A h \in Handles :
               About(msgs'[i], h) => i \in 1..Len(msgs)
        BY <2>2, <3>2
      <3>4. \A i \in 1..Len(msgs) : \A j \in 1..(i - 1) : msgs'[j] = msgs[j]
        BY <3>2
      <3>5. \A h \in Handles : Unlisted(h) => Unlisted(h)'
        BY <2>1 DEF Unlisted
      <3> QED
        BY <1>0, <2>1, <2>3, <3>2, <3>3, <3>4, <3>5 DEF Queue
    <2>6. Awaited'
      BY <1>0, <2>1, <2>2, AppendKeepsAwaited
    <2> QED
      BY <2>1, <2>4, <2>5, <2>6 DEF Calls, Fit
  <1> QED
    BY <1>3, <1>5, <1>6, <1>7, <1>8, <1>9, <1>10, <1>11 DEF Answer

LEMMA CallsBegin ==
    ASSUME Init
    PROVE  Calls
  BY AgpsAssumption DEF Init, Calls, Lists, Queue, Awaited, Unlisted, NoSubscribers, Has

LEMMA CallsKept ==
    ASSUME IInv, Calls, [Next]_vars
    PROVE  Calls' /\ Fit
  <1>1. CASE Next
    BY <1>1, MsgTaskSettles, OthersSettle DEF Next
  <1>2. CASE UNCHANGED vars
    BY <1>2 DEF vars, smVars, modemVars, Calls, Lists, Queue, Awaited, Unlisted, Hears, Fit
  <1> QED
    BY <1>1, <1>2

(* A machine of the framework that waits for its connection has a request  *)
(* with the framework or the framework's answer in the queue, for any      *)
(* number of handles and restarts and a queue of any length.               *)
THEOREM PendingAwaitsAnAnswer == Spec => []PendingIsRequested
  <1>1. Init => IInv /\ Calls
    BY AgpsAssumption, InitFits, CallsBegin
  <1>2. IInv /\ Calls /\ [Next]_vars => (IInv /\ Calls)'
    BY AgpsAssumption, NextKeeps, CallsKept
  <1>3. Calls => PendingIsRequested
    BY DEF Calls, Awaited, PendingIsRequested, Has
  <1> QED
    BY <1>1, <1>2, <1>3, PTL DEF Spec

(* The modem hears "opened" or "refused" of an ordinary request only while *)
(* it waits for an answer: once, and never after "closed", in whatever     *)
(* order requests, releases, reports and restarts are handled.             *)
THEOREM OrdinaryRequestsAnsweredOnce == Spec => AnswersFit
  <1>1. Init => IInv /\ Calls
    BY AgpsAssumption, InitFits, CallsBegin
  <1>2. IInv /\ Calls /\ [Next]_vars => (IInv /\ Calls)' /\ Fit
    BY AgpsAssumption, NextKeeps, CallsKept
  <1> QED
    BY <1>1, <1>2, PTL DEF Spec, AnswersFit, Fit
=============================================================================
