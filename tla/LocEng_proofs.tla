---------------------------- MODULE LocEng_proofs -----------------------------
(***************************************************************************)
(* Proofs about the sessions of the location engine: for any modes and     *)
(* kinds of positions, any number of calls, reports and restarts, the      *)
(* modem comes to have the session the framework wants, with its criteria  *)
(***************************************************************************)
EXTENDS LocEng, TLAPS

-----------------------------------------------------------------------------
(* What is on its way in a queue                                           *)

(* None of q is of one of those types                                      *)
Without(q, types) == \A i \in 1 .. Len(q) : q[i].type \notin types

Holds(q, type) == ~Without(q, {type})

(* The last message of q that is of one of those types is one of these     *)
LastIs(q, types, last) ==
    \E i \in 1 .. Len(q) :
        q[i] \in last /\ \A j \in i + 1 .. Len(q) : q[j].type \notin types

Before(q, first, second) ==
    \E i, j \in 1 .. Len(q) : i < j /\ q[i].type = first /\ q[j].type = second

(* An adapter that is navigating or not is in no session when it takes the *)
(* message i of q, or in one that a start before that message has begun    *)
(* and not one that was left on                                            *)
IsStopped(q, navigating, i) ==
    \/ \E j \in 1 .. i - 1 : /\ q[j].type = "stop"
                             /\ \A k \in j + 1 .. i - 1 : q[k].type # "start"
    \/ ~navigating /\ \A k \in 1 .. i - 1 : q[k].type # "start"

(* What follows i in q sets that recurrence and then starts a session      *)
IsReplaced(q, recurrence, i) ==
    \E k, l \in i + 1 .. Len(q) :
        /\ k < l /\ q[k].type = "mode" /\ q[k].criteria.recurrence = recurrence
        /\ q[l].type = "start"

NoStartFrom(q, i) == \A k \in i .. Len(q) : q[k].type # "start"

Session == {"start", "stop"}
Reported == {"status", "down"}

-----------------------------------------------------------------------------
(* The inductive invariant                                                 *)

(* A modem that lost its client is given one, and its session after it     *)
WillReopen ==
    /\ modem.open => modem.up
    /\ modem.fixing => modem.open
    /\ modem.up /\ ~modem.open => Before(msgs, "ssr", "up")
    /\ restarts = 0 => modem.up /\ ~Holds(msgs, "up")

(* What is said of the engine last is so, and an engine that is off has    *)
(* ended the mute, was shown, and is not taken for one that is on          *)
OffShown ==
    mute_session_state # "in" /\ shown.engine # "on" /\ engine_status # "on"
EngineNews == IF modem.engine THEN {Status("on")} ELSE {Status("off"), Msg("down")}

EngineTold ==
    \/ LastIs(msgs, Reported, EngineNews)
    \/ Without(msgs, Reported) /\ (~modem.engine => OffShown)

(* The last start or stop is the framework's wish, or the adapter is in    *)
(* the session that is wanted                                              *)
Wish == Msg(IF wanted THEN "start" ELSE "stop")
AsWanted ==
    /\ wanted => mNavigating \/ refused \/ started # "periodic"
    /\ ~wanted => ~mNavigating

SessionTold ==
    \/ LastIs(msgs, Session, {Wish})
    \/ Without(msgs, Session) /\ AsWanted

(* A start finds the session before it stopped                             *)
StartsApart ==
    \A i \in 1 .. Len(msgs) :
        msgs[i].type = "start" => IsStopped(msgs, mNavigating, i)

(* A stop that comes after the criteria of the next session ends nothing   *)
StopsFit ==
    asked # Unset =>
        \A i \in 1 .. Len(msgs) :
            msgs[i].type = "stop" =>
                \/ IsStopped(msgs, mNavigating, i)
                \/ \E k \in i + 1 .. Len(msgs) : msgs[k].type = "mode"

(* A session has the recurrence it was started with: that of the adapter,  *)
(* and any that is on its way, is this one, or is replaced before the next *)
(* start, or there is no session left to have it                           *)
Over(i) == ~wanted /\ IsStopped(msgs, mNavigating, i) /\ NoStartFrom(msgs, i)

RecurrenceFits ==
    /\ \/ mFixCriteria.recurrence = started
       \/ IsReplaced(msgs, started, 0)
       \/ ~wanted /\ ~mNavigating /\ ~Holds(msgs, "start")
    /\ \A i \in 1 .. Len(msgs) :
          msgs[i].type = "mode" =>
              \/ msgs[i].criteria.recurrence = started
              \/ IsReplaced(msgs, started, i)
              \/ Over(i)

(* A restart loses the mode, and nothing else of the criteria              *)
Kept(mode) == mode = asked.mode \/ (mode = "INVALID" /\ restarts # 0)

(* The adapter comes to have the criteria that were asked for last         *)
HasAsked ==
    /\ mFixCriteria.recurrence = asked.recurrence
    /\ Kept(mFixCriteria.mode) \/ asked.recurrence # "periodic"

CriteriaFit ==
    /\ asked # Unset =>
          \/ LastIs(msgs, {"mode"}, {Mode(asked)})
          \/ Without(msgs, {"mode"}) /\ HasAsked
    /\ wanted => asked # Unset /\ asked.recurrence = started

(* The modem is in the session the adapter is in, with its criteria, or is *)
(* given it when it comes up, unless it was there and did not take it      *)
InForce ==
    /\ modem.fixing /\ modem.criteria.recurrence = "periodic"
    /\ Holds(msgs, "mode") \/ Kept(modem.criteria.mode)

FixingFits ==
    started = "periodic" /\ ~Holds(msgs, "start") =>
        /\ wanted /\ mNavigating /\ ~refused => ~modem.up \/ Holds(msgs, "up") \/ InForce
        /\ ~mNavigating /\ ~refused => ~modem.fixing

SessionInv ==
    /\ TypeOK /\ WillReopen /\ EngineTold /\ SessionTold /\ StartsApart
    /\ StopsFit /\ RecurrenceFits /\ CriteriaFit /\ FixingFits

-----------------------------------------------------------------------------
(* The queue                                                               *)

(* What is said of two queues, one sent after the other                    *)
LEMMA AfterQueue ==
    ASSUME NEW S, NEW q \in Seq(S), NEW t \in Seq(S)
    PROVE  /\ q \o t \in Seq(S) /\ Len(q) \in Nat /\ Len(t) \in Nat
           /\ Len(q \o t) = Len(q) + Len(t)
           /\ \A i \in 1 .. Len(q) : (q \o t)[i] = q[i] /\ i \in 1 .. Len(q \o t)
           /\ \A i \in 1 .. Len(t) :
                 (q \o t)[Len(q) + i] = t[i] /\ Len(q) + i \in 1 .. Len(q \o t)
           /\ \A i \in 1 .. Len(q \o t) :
                 i \in 1 .. Len(q) \/ \E j \in 1 .. Len(t) : i = Len(q) + j
  <1>1. \A i \in 1 .. Len(q \o t) : i \notin 1 .. Len(q) =>
           i - Len(q) \in 1 .. Len(t) /\ i = Len(q) + (i - Len(q))
    OBVIOUS
  <1> QED
    BY <1>1

LEMMA WithoutAfter ==
    ASSUME NEW S, NEW q \in Seq(S), NEW t \in Seq(S), NEW types
    PROVE  Without(q \o t, types) <=> Without(q, types) /\ Without(t, types)
  <1>1. ASSUME Without(q \o t, types) PROVE Without(q, types) /\ Without(t, types)
    BY <1>1, AfterQueue DEF Without
  <1>2. ASSUME Without(q, types), Without(t, types), NEW i \in 1 .. Len(q \o t)
        PROVE  (q \o t)[i].type \notin types
    <2>1. CASE i \in 1 .. Len(q)
      BY <1>2, <2>1, AfterQueue DEF Without
    <2>2. CASE \E j \in 1 .. Len(t) : i = Len(q) + j
      <3>1. PICK j \in 1 .. Len(t) : i = Len(q) + j
        BY <2>2
      <3>2. (q \o t)[i] = t[j]
        BY <3>1, AfterQueue
      <3> QED
        BY <1>2, <3>2 DEF Without
    <2> QED
      BY <2>1, <2>2, AfterQueue
  <1> QED
    BY <1>1, <1>2 DEF Without

LEMMA LastAfter ==
    ASSUME NEW S, NEW q \in Seq(S), NEW t \in Seq(S), NEW types, NEW last,
           LastIs(t, types, last) \/ (LastIs(q, types, last) /\ Without(t, types))
    PROVE  LastIs(q \o t, types, last)
  <1>1. CASE LastIs(t, types, last)
    <2>1. PICK i \in 1 .. Len(t) :
               t[i] \in last /\ \A j \in i + 1 .. Len(t) : t[j].type \notin types
      BY <1>1 DEF LastIs
    <2>2. Len(q) + i \in 1 .. Len(q \o t) /\ (q \o t)[Len(q) + i] = t[i]
      BY AfterQueue
    <2>3. ASSUME NEW j \in Len(q) + i + 1 .. Len(q \o t) PROVE (q \o t)[j].type \notin types
      <3>1. j - Len(q) \in i + 1 .. Len(t) /\ Len(q) + (j - Len(q)) = j
        BY AfterQueue
      <3>2. j - Len(q) \in 1 .. Len(t)
        BY <3>1
      <3>3. (q \o t)[Len(q) + (j - Len(q))] = t[j - Len(q)]
        BY <3>2, AfterQueue
      <3> QED
        BY <2>1, <3>1, <3>3
    <2> QED
      BY <2>1, <2>2, <2>3 DEF LastIs
  <1>2. CASE LastIs(q, types, last) /\ Without(t, types)
    <2>1. PICK i \in 1 .. Len(q) :
               q[i] \in last /\ \A j \in i + 1 .. Len(q) : q[j].type \notin types
      BY <1>2 DEF LastIs
    <2>2. i \in 1 .. Len(q \o t) /\ (q \o t)[i] = q[i]
      BY AfterQueue
    <2>3. ASSUME NEW j \in i + 1 .. Len(q \o t) PROVE (q \o t)[j].type \notin types
      <3>1. CASE j \in 1 .. Len(q)
        BY <2>1, <3>1, AfterQueue
      <3>2. CASE \E k \in 1 .. Len(t) : j = Len(q) + k
        <4>1. PICK k \in 1 .. Len(t) : j = Len(q) + k
          BY <3>2
        <4>2. (q \o t)[j] = t[k]
          BY <4>1, AfterQueue
        <4> QED
          BY <1>2, <4>2 DEF Without
      <3>3. j \in 1 .. Len(q \o t)
        OBVIOUS
      <3> QED
        BY <3>1, <3>2, <3>3, AfterQueue
    <2> QED
      BY <2>1, <2>2, <2>3 DEF LastIs
  <1> QED
    BY <1>1, <1>2

LEMMA BeforeAfter ==
    ASSUME NEW S, NEW q \in Seq(S), NEW t \in Seq(S), NEW first, NEW second,
           Before(q, first, second) \/ Before(t, first, second)
    PROVE  Before(q \o t, first, second)
  <1>1. CASE Before(q, first, second)
    <2>1. PICK i \in 1 .. Len(q), j \in 1 .. Len(q) :
               i < j /\ q[i].type = first /\ q[j].type = second
      BY <1>1 DEF Before
    <2>2. /\ i \in 1 .. Len(q \o t) /\ (q \o t)[i] = q[i]
          /\ j \in 1 .. Len(q \o t) /\ (q \o t)[j] = q[j]
      BY AfterQueue
    <2> QED
      BY <2>1, <2>2 DEF Before
  <1>2. CASE Before(t, first, second)
    <2>1. PICK i \in 1 .. Len(t), j \in 1 .. Len(t) :
               i < j /\ t[i].type = first /\ t[j].type = second
      BY <1>2 DEF Before
    <2>2. /\ Len(q) + i \in 1 .. Len(q \o t) /\ (q \o t)[Len(q) + i] = t[i]
          /\ Len(q) + j \in 1 .. Len(q \o t) /\ (q \o t)[Len(q) + j] = t[j]
          /\ Len(q) + i < Len(q) + j
      BY <2>1, AfterQueue
    <2> QED
      BY <2>1, <2>2 DEF Before
  <1> QED
    BY <1>1, <1>2

(* What is sent after a message does not change what comes before it       *)
LEMMA StoppedAfter ==
    ASSUME NEW S, NEW q \in Seq(S), NEW t \in Seq(S), NEW navigating,
           NEW i \in 1 .. Len(q) + 1, IsStopped(q, navigating, i)
    PROVE  IsStopped(q \o t, navigating, i)
  <1>1. \A k \in 1 .. i - 1 : k \in 1 .. Len(q) /\ (q \o t)[k] = q[k]
    BY AfterQueue
  <1>2. CASE \E j \in 1 .. i - 1 : /\ q[j].type = "stop"
                                   /\ \A k \in j + 1 .. i - 1 : q[k].type # "start"
    <2>1. PICK j \in 1 .. i - 1 : /\ q[j].type = "stop"
                                  /\ \A k \in j + 1 .. i - 1 : q[k].type # "start"
      BY <1>2
    <2>2. \A k \in j + 1 .. i - 1 : k \in 1 .. i - 1
      OBVIOUS
    <2> QED
      BY <1>1, <2>1, <2>2 DEF IsStopped
  <1>3. CASE ~navigating /\ \A k \in 1 .. i - 1 : q[k].type # "start"
    BY <1>1, <1>3 DEF IsStopped
  <1> QED
    BY <1>2, <1>3 DEF IsStopped

LEMMA ReplacedAfter ==
    ASSUME NEW S, NEW q \in Seq(S), NEW t \in Seq(S), NEW recurrence,
           NEW i \in Nat, IsReplaced(q, recurrence, i)
    PROVE  IsReplaced(q \o t, recurrence, i)
  <1>1. \A k \in i + 1 .. Len(q) : k \in i + 1 .. Len(q \o t) /\ (q \o t)[k] = q[k]
    BY AfterQueue
  <1> QED
    BY <1>1 DEF IsReplaced

(* What is left when the first message was taken                           *)
LEMMA RestOfQueue ==
    ASSUME NEW S, NEW q \in Seq(S), q # <<>>
    PROVE  /\ Tail(q) \in Seq(S) /\ Len(q) \in Nat \ {0} /\ Len(Tail(q)) = Len(q) - 1
           /\ Head(q) = q[1] /\ Head(q) \in S
           /\ \A i \in 1 .. Len(q) - 1 : Tail(q)[i] = q[i + 1]
  OBVIOUS

(* Each message of q is the first, or one of what is left                  *)
LEMMA RestShifted ==
    ASSUME NEW S, NEW q \in Seq(S), q # <<>>
    PROVE  /\ \A i \in 1 .. Len(Tail(q)) : i + 1 \in 2 .. Len(q) /\ Tail(q)[i] = q[i + 1]
           /\ \A i \in 2 .. Len(q) : i - 1 \in 1 .. Len(Tail(q)) /\ Tail(q)[i - 1] = q[i]
  <1>1. \A i \in 2 .. Len(q) : i - 1 \in 1 .. Len(q) - 1 /\ (i - 1) + 1 = i
    BY RestOfQueue
  <1> QED
    BY <1>1, RestOfQueue

LEMMA WithoutRest ==
    ASSUME NEW S, NEW q \in Seq(S), q # <<>>, NEW types
    PROVE  Without(q, types) <=> Head(q).type \notin types /\ Without(Tail(q), types)
  <1>1. ASSUME Without(q, types) PROVE Head(q).type \notin types /\ Without(Tail(q), types)
    <2>1. 1 \in 1 .. Len(q) /\ \A i \in 2 .. Len(q) : i \in 1 .. Len(q)
      BY RestOfQueue
    <2> QED
      BY <1>1, <2>1, RestOfQueue, RestShifted DEF Without
  <1>2. ASSUME Head(q).type \notin types, Without(Tail(q), types), NEW i \in 1 .. Len(q)
        PROVE  q[i].type \notin types
    <2>1. CASE i = 1
      BY <1>2, <2>1, RestOfQueue
    <2>2. CASE i \in 2 .. Len(q)
      BY <1>2, <2>2, RestShifted DEF Without
    <2> QED
      BY <2>1, <2>2, RestOfQueue
  <1> QED
    BY <1>1, <1>2 DEF Without

LEMMA LastRest ==
    ASSUME NEW S, NEW q \in Seq(S), q # <<>>, NEW types, NEW last, LastIs(q, types, last)
    PROVE  LastIs(Tail(q), types, last) \/ (Head(q) \in last /\ Without(Tail(q), types))
  <1>1. PICK i \in 1 .. Len(q) :
             q[i] \in last /\ \A j \in i + 1 .. Len(q) : q[j].type \notin types
    BY DEF LastIs
  <1>2. CASE i = 1
    <2>1. \A j \in 1 .. Len(Tail(q)) : j + 1 \in i + 1 .. Len(q) /\ Tail(q)[j] = q[j + 1]
      BY <1>2, RestShifted
    <2> QED
      BY <1>1, <1>2, <2>1, RestOfQueue DEF Without
  <1>3. CASE i # 1
    <2>1. i - 1 \in 1 .. Len(Tail(q)) /\ Tail(q)[i - 1] = q[i]
      BY <1>3, RestOfQueue, RestShifted
    <2>2. \A j \in (i - 1) + 1 .. Len(Tail(q)) :
             j + 1 \in i + 1 .. Len(q) /\ j \in 1 .. Len(Tail(q))
      BY <2>1, RestOfQueue
    <2>3. \A j \in (i - 1) + 1 .. Len(Tail(q)) : Tail(q)[j].type \notin types
      BY <1>1, <2>2, RestShifted
    <2> QED
      BY <1>1, <2>1, <2>3 DEF LastIs
  <1> QED
    BY <1>2, <1>3

LEMMA BeforeRest ==
    ASSUME NEW S, NEW q \in Seq(S), q # <<>>, NEW first, NEW second,
           Before(q, first, second)
    PROVE  /\ ~Without(Tail(q), {second})
           /\ Head(q).type # first => Before(Tail(q), first, second)
  <1>1. PICK i \in 1 .. Len(q), j \in 1 .. Len(q) :
             i < j /\ q[i].type = first /\ q[j].type = second
    BY DEF Before
  <1>2. j - 1 \in 1 .. Len(Tail(q)) /\ Tail(q)[j - 1] = q[j]
    BY <1>1, RestOfQueue, RestShifted
  <1>3. ASSUME Head(q).type # first PROVE Before(Tail(q), first, second)
    <2>1. i # 1
      BY <1>1, <1>3, RestOfQueue
    <2>2. i - 1 \in 1 .. Len(Tail(q)) /\ Tail(q)[i - 1] = q[i] /\ i - 1 < j - 1
      BY <1>1, <2>1, RestOfQueue, RestShifted
    <2> QED
      BY <1>1, <1>2, <2>2 DEF Before
  <1> QED
    BY <1>1, <1>2, <1>3 DEF Without

(* A session that was stopped before a message still is, when the handler  *)
(* of a stop has ended it and no other handler but a start's has begun one *)
LEMMA StoppedRest ==
    ASSUME NEW S, NEW q \in Seq(S), q # <<>>, NEW before, NEW after,
           NEW i \in 1 .. Len(Tail(q)), IsStopped(q, before, i + 1),
           Head(q).type = "stop" => ~after,
           Head(q).type # "start" => (after => before)
    PROVE  IsStopped(Tail(q), after, i)
  <1>1. \A k \in 1 .. i - 1 : k + 1 \in 2 .. i /\ Tail(q)[k] = q[k + 1]
    BY RestOfQueue
  <1>2. CASE \E j \in 1 .. i : /\ q[j].type = "stop"
                               /\ \A k \in j + 1 .. i : q[k].type # "start"
    <2>1. PICK j \in 1 .. i : /\ q[j].type = "stop"
                              /\ \A k \in j + 1 .. i : q[k].type # "start"
      BY <1>2
    <2>2. CASE j = 1
      <3>1. ~after
        BY <2>1, <2>2, RestOfQueue
      <3>2. \A k \in 1 .. i - 1 : Tail(q)[k].type # "start"
        BY <1>1, <2>1, <2>2
      <3> QED
        BY <3>1, <3>2 DEF IsStopped
    <2>3. CASE j # 1
      <3>1. j - 1 \in 1 .. i - 1 /\ (j - 1) + 1 = j
        BY <2>3
      <3>2. Tail(q)[j - 1].type = "stop"
        BY <1>1, <2>1, <3>1
      <3>3. \A k \in (j - 1) + 1 .. i - 1 : k \in 1 .. i - 1 /\ k + 1 \in j + 1 .. i
        BY <3>1
      <3>4. \A k \in (j - 1) + 1 .. i - 1 : Tail(q)[k].type # "start"
        BY <1>1, <2>1, <3>3
      <3> QED
        BY <3>1, <3>2, <3>4 DEF IsStopped
    <2> QED
      BY <2>2, <2>3
  <1>3. CASE ~before /\ \A k \in 1 .. i : q[k].type # "start"
    <2>1. Head(q).type # "start"
      BY <1>3, RestOfQueue
    <2>2. ~after
      BY <1>3, <2>1
    <2>3. \A k \in 1 .. i - 1 : k + 1 \in 1 .. i
      OBVIOUS
    <2>4. \A k \in 1 .. i - 1 : Tail(q)[k].type # "start"
      BY <1>1, <1>3, <2>3
    <2> QED
      BY <2>2, <2>4 DEF IsStopped
  <1>4. (i + 1) - 1 = i
    OBVIOUS
  <1> QED
    BY <1>2, <1>3, <1>4 DEF IsStopped

LEMMA ReplacedRest ==
    ASSUME NEW S, NEW q \in Seq(S), q # <<>>, NEW recurrence,
           NEW i \in Nat, IsReplaced(q, recurrence, i + 1)
    PROVE  IsReplaced(Tail(q), recurrence, i)
  <1>1. PICK k \in i + 2 .. Len(q), l \in i + 2 .. Len(q) :
             /\ k < l /\ q[k].type = "mode" /\ q[k].criteria.recurrence = recurrence
             /\ q[l].type = "start"
    <2>1. (i + 1) + 1 = i + 2
      OBVIOUS
    <2> QED
      BY <2>1 DEF IsReplaced
  <1>2. /\ k - 1 \in i + 1 .. Len(Tail(q)) /\ Tail(q)[k - 1] = q[k]
        /\ l - 1 \in i + 1 .. Len(Tail(q)) /\ Tail(q)[l - 1] = q[l]
        /\ k - 1 < l - 1
    <2>1. k \in 2 .. Len(q) /\ l \in 2 .. Len(q)
      OBVIOUS
    <2> QED
      BY <1>1, <2>1, RestOfQueue, RestShifted
  <1> QED
    BY <1>1, <1>2 DEF IsReplaced

(* What replaces the recurrence of the adapter starts a session, and is    *)
(* also left when the first message does not set a recurrence              *)
LEMMA ReplacedHolds ==
    ASSUME NEW S, NEW q \in Seq(S), q # <<>>, NEW recurrence,
           IsReplaced(q, recurrence, 0)
    PROVE  /\ ~Without(Tail(q), {"start"})
           /\ \/ Head(q).type = "mode" /\ Head(q).criteria.recurrence = recurrence
              \/ IsReplaced(Tail(q), recurrence, 0)
  <1>1. PICK k \in 1 .. Len(q), l \in 1 .. Len(q) :
             /\ k < l /\ q[k].type = "mode" /\ q[k].criteria.recurrence = recurrence
             /\ q[l].type = "start"
    <2>1. 0 + 1 = 1
      OBVIOUS
    <2> QED
      BY <2>1 DEF IsReplaced
  <1>2. l - 1 \in 1 .. Len(Tail(q)) /\ Tail(q)[l - 1] = q[l]
    BY <1>1, RestOfQueue, RestShifted
  <1>3. CASE k = 1
    BY <1>1, <1>2, <1>3, RestOfQueue DEF Without
  <1>4. CASE k # 1
    <2>1. k \in 2 .. Len(q) /\ l \in 2 .. Len(q)
      BY <1>1, <1>4
    <2>2. IsReplaced(q, recurrence, 0 + 1)
      BY <1>1, <2>1 DEF IsReplaced
    <2> QED
      BY <1>1, <1>2, <2>2, ReplacedRest DEF Without
  <1> QED
    BY <1>3, <1>4

(* The messages that are sent, alone or two together                       *)
LEMMA OneSent ==
    ASSUME NEW m
    PROVE  /\ \A types : Without(<<m>>, types) <=> m.type \notin types
           /\ \A types, last : m \in last => LastIs(<<m>>, types, last)
           /\ m \in Messages => <<m>> \in Seq(Messages)
  <1>1. Len(<<m>>) = 1 /\ <<m>>[1] = m
    OBVIOUS
  <1>2. \A i : i \in 1 .. 1 <=> i = 1
    OBVIOUS
  <1>3. \A types : Without(<<m>>, types) <=> m.type \notin types
    BY <1>1, <1>2 DEF Without
  <1>4. \A i \in 1 + 1 .. 1 : FALSE
    OBVIOUS
  <1>5. \A types, last : m \in last => LastIs(<<m>>, types, last)
    BY <1>1, <1>2, <1>4 DEF LastIs
  <1> QED
    BY <1>3, <1>5

LEMMA TwoSent ==
    ASSUME NEW a, NEW b
    PROVE  /\ \A types : Without(<<a, b>>, types) <=> a.type \notin types /\ b.type \notin types
           /\ \A types, last : b \in last => LastIs(<<a, b>>, types, last)
           /\ Before(<<a, b>>, a.type, b.type)
           /\ a \in Messages /\ b \in Messages => <<a, b>> \in Seq(Messages)
  <1>1. Len(<<a, b>>) = 2 /\ <<a, b>>[1] = a /\ <<a, b>>[2] = b
    OBVIOUS
  <1>2. \A i : i \in 1 .. 2 <=> i = 1 \/ i = 2
    OBVIOUS
  <1>3. \A types : Without(<<a, b>>, types) <=> a.type \notin types /\ b.type \notin types
    BY <1>1, <1>2 DEF Without
  <1>4. \A i \in 2 + 1 .. 2 : FALSE
    OBVIOUS
  <1>5. \A types, last : b \in last => LastIs(<<a, b>>, types, last)
    BY <1>1, <1>2, <1>4 DEF LastIs
  <1>6. Before(<<a, b>>, a.type, b.type)
    BY <1>1, <1>2 DEF Before
  <1> QED
    BY <1>3, <1>5, <1>6

LEMMA NoneSent ==
    /\ <<>> \in Seq(Messages)
    /\ \A types : Without(<<>>, types)
  BY DEF Without

LEMMA Made ==
    /\ \A type \in {"start", "stop", "ssr", "up", "down", "mute"} :
          Msg(type) \in Messages /\ Msg(type).type = type
    /\ \A c \in Criteria :
          Mode(c) \in Messages /\ Mode(c).type = "mode" /\ Mode(c).criteria = c
    /\ \A f \in Masks : DelAidData(f) \in Messages /\ DelAidData(f).type = "aiding"
    /\ \A k \in Kinds : Position(k) \in Messages /\ Position(k).type = "position"
    /\ \A s \in {"begin", "end", "on", "off"} :
          Status(s) \in Messages /\ Status(s).type = "status" /\ Status(s).status = s
  BY DEF Messages, Msg, Mode, DelAidData, Position, Status

LEMMA MessageFields ==
    ASSUME NEW m \in Messages
    PROVE  /\ m.type \in {"start", "stop", "ssr", "up", "down", "mute", "mode", "aiding",
                          "position", "status"}
           /\ m.type = "mode" => m.criteria \in Criteria
           /\ m.type = "aiding" => m.data \in Masks
           /\ m.type = "status" => m.status \in {"begin", "end", "on", "off"}
  BY DEF Messages

LEMMA CriteriaFields ==
    /\ Unset \in Criteria
    /\ \A c \in Criteria : /\ [c EXCEPT !.mode = "INVALID"] \in Criteria
                           /\ [c EXCEPT !.mode = "INVALID"].mode = "INVALID"
                           /\ [c EXCEPT !.mode = "INVALID"].recurrence = c.recurrence
    /\ \A c \in [mode : Modes, recurrence : Recurrences] :
          c \in Criteria /\ c # Unset /\ c.recurrence \in Recurrences
    /\ \A c \in Criteria : c.recurrence \in Recurrences \cup {"none"}
  BY LocEngAssumption DEF Criteria, Unset

-----------------------------------------------------------------------------
(* The types                                                               *)

ModemType == [up : BOOLEAN, open : BOOLEAN, fixing : BOOLEAN,
              criteria : Criteria, engine : BOOLEAN]

AidingType == aiding_data_for_deletion \subseteq Aiding /\ deletion \in [Aiding -> Fates]

(* A change of the modem changes one field of it, or two                   *)
LEMMA ModemFields ==
    ASSUME modem \in ModemType
    PROVE  /\ \A b \in BOOLEAN :
                 /\ [modem EXCEPT !.fixing = b] \in ModemType
                 /\ [modem EXCEPT !.open = b] \in ModemType
                 /\ [modem EXCEPT !.engine = b] \in ModemType
                 /\ [modem EXCEPT !.up = b] \in ModemType
           /\ \A c \in Criteria :
                 /\ [modem EXCEPT !.criteria = c] \in ModemType
                 /\ [modem EXCEPT !.fixing = TRUE, !.criteria = c] \in ModemType
           /\ stopFix \in ModemType
  BY DEF ModemType, stopFix, Reachable

LEMMA FrameworkType ==
    ASSUME TypeOK, Framework PROVE TypeOK'
  <1> USE DEF Call, sessionVars, statusVars, modemVars
  <1>0. calls + 1 \in Nat
    BY DEF TypeOK
  <1>1. ASSUME NEW sent \in Seq(Messages), Call(sent)
        PROVE  msgs' \in Seq(Messages) /\ calls' \in 0 .. MaxCalls
    BY <1>0, <1>1, LocEngAssumption DEF TypeOK
  <1>2. ASSUME NEW sent \in Seq(Messages), Call(sent),
               wanted' \in BOOLEAN, asked' \in Criteria,
               started' \in Recurrences \cup {"none"}, deletion' \in [Aiding -> Fates]
        PROVE  TypeOK'
    <2>1. msgs' \in Seq(Messages) /\ calls' \in 0 .. MaxCalls
      BY <1>1, <1>2
    <2>2. UNCHANGED <<mNavigating, mFixCriteria, refused, engine_status, fix_session_status,
                      mute_session_state, shown, aiding_data_for_deletion, modem, reports,
                      restarts>>
      BY <1>2
    <2> QED
      BY <1>2, <2>1, <2>2 DEF TypeOK
  <1> HIDE DEF Call
  <1> USE OneSent, TwoSent, Made
  <1>3. CASE loc_eng_set_position_mode
    <2>1. PICK c \in [mode : Modes, recurrence : Recurrences] :
               Call(<<Mode(c)>>) /\ asked' = c /\ UNCHANGED <<wanted, started, deletion>>
      BY <1>3 DEF loc_eng_set_position_mode, CallKeepsAiding
    <2>2. c \in Criteria
      BY CriteriaFields
    <2>3. <<Mode(c)>> \in Seq(Messages)
      BY <2>2
    <2> QED
      BY <1>2, <2>1, <2>2, <2>3 DEF TypeOK
  <1>4. CASE loc_eng_start
    <2>1. asked.recurrence \in Recurrences \cup {"none"}
      BY CriteriaFields DEF TypeOK
    <2> QED
      BY <1>2, <1>4, <2>1, Made DEF loc_eng_start, TypeOK, CallKeepsAiding
  <1>5. CASE loc_eng_stop
    BY <1>2, <1>5, Made, CriteriaFields DEF loc_eng_stop, TypeOK, CallKeepsAiding
  <1>6. CASE loc_eng_delete_aiding_data
    <2>1. deletion' \in [Aiding -> Fates]
      BY <1>6 DEF loc_eng_delete_aiding_data, TypeOK, Fates
    <2> QED
      BY <1>2, <1>6, <2>1, Made DEF loc_eng_delete_aiding_data, TypeOK
  <1>7. CASE loc_eng_cleanup
    BY <1>2, <1>7, Made, NoneSent DEF loc_eng_cleanup, TypeOK, CallKeepsAiding
  <1> QED
    BY <1>3, <1>4, <1>5, <1>6, <1>7 DEF Framework

LEMMA TakeType ==
    ASSUME TypeOK, NEW type, Take(type)
    PROVE  /\ msgs \in Seq(Messages) /\ msgs # <<>> /\ msgs' = Tail(msgs)
           /\ msgs' \in Seq(Messages) /\ Head(msgs) \in Messages /\ Head(msgs).type = type
  BY RestOfQueue DEF TypeOK, Take

(* What loc_eng_start_handler() leaves: a session, but for a refusal       *)
LEMMA StartHandled ==
    ASSUME modem \in ModemType, NEW c, loc_eng_start_handler(c)
    PROVE  /\ mFixCriteria' = c /\ refused' \in BOOLEAN
           /\ mNavigating' \in BOOLEAN /\ (~refused' => mNavigating')
           /\ modem'.open = modem.open /\ modem'.up = modem.up /\ modem'.engine = modem.engine
           /\ modem'.fixing => Reachable \/ modem.fixing
           /\ Reachable /\ ~refused' => modem'.fixing /\ modem'.criteria = c
  <1>1. PICK ret \in StartAnswers :
            /\ refused' = (ret \in {"offline", "refusal"})
            /\ mNavigating' = (ret # "refusal")
            /\ mFixCriteria' = c
            /\ modem' = IF ret = "success"
                        THEN [modem EXCEPT !.fixing = TRUE, !.criteria = c] ELSE modem
    BY DEF loc_eng_start_handler
  <1>2. refused' \in BOOLEAN /\ mNavigating' \in BOOLEAN /\ (~refused' => mNavigating')
    <2>1. refused' \in BOOLEAN
      <3> DEFINE r == ret \in {"offline", "refusal"}
      <3>1. refused' = r
        BY <1>1
      <3>2. r \in BOOLEAN
        OBVIOUS
      <3> QED
        BY <3>1, <3>2, Zenon
    <2>2. mNavigating' \in BOOLEAN
      BY <1>1, Zenon
    <2>3. ~refused' => mNavigating'
      BY <1>1, Zenon
    <2> QED
      BY <2>1, <2>2, <2>3
  <1>3. Reachable /\ ~refused' => ret = "success"
    BY <1>1 DEF StartAnswers
  <1>4. ret = "success" => Reachable
    BY <1>1 DEF StartAnswers
  <1> QED
    BY <1>1, <1>2, <1>3, <1>4 DEF ModemType

(* Aiding data is deleted or goes on waiting                               *)
LEMMA UpdateType ==
    ASSUME NEW status, NEW data \in SUBSET Aiding, NEW fate \in [Aiding -> Fates],
           update_aiding_data_for_deletion(status, data, fate)
    PROVE  AidingType'
  BY DEF update_aiding_data_for_deletion, AidingType, Fates

(* What the handlers change has its type                                   *)
LEMMA MsgTaskType ==
    ASSUME TypeOK, MsgTask PROVE TypeOK'
  <1> DEFINE SessionType == mNavigating \in BOOLEAN /\ mFixCriteria \in Criteria /\ refused \in BOOLEAN
             StatusType == /\ engine_status \in {"none", "on", "off"}
                           /\ fix_session_status \in {"none", "begin", "end"}
                           /\ mute_session_state \in {"none", "wait", "in"}
                           /\ shown \in [session : {"none", "begin", "end"},
                                         engine : {"none", "on", "off"}]
  <1>1. ASSUME NEW type, Take(type), UNCHANGED <<halVars, reports, restarts>>,
               SessionType', StatusType', AidingType',
               modem' \in ModemType
        PROVE  TypeOK'
    BY <1>1, TakeType DEF TypeOK, ModemType, halVars, AidingType
  <1>2. SessionType /\ StatusType /\ AidingType /\ modem \in ModemType
    BY DEF TypeOK, ModemType, AidingType
  <1>3. \A b \in BOOLEAN, c \in Criteria : [modem EXCEPT !.fixing = b] \in ModemType
    BY <1>2, ModemFields
  <1>4. ASSUME NEW c \in Criteria, loc_eng_start_handler(c)
        PROVE  SessionType' /\ modem' \in ModemType
    BY <1>2, <1>4, ModemFields, StartHandled DEF loc_eng_start_handler
  <1>5. EndSession => mNavigating' = FALSE /\ mFixCriteria' \in Criteria
    BY <1>2, CriteriaFields DEF EndSession
  <1>6. ASSUME NEW status \in {"begin", "end", "on", "off"}, loc_eng_report_status(status)
        PROVE  StatusType'
    <2>1. Muting(status) \in {"none", "wait", "in"}
      BY <1>2 DEF Muting
    <2>2. Inform(status, Muting(status)) \in [session : {"none", "begin", "end"},
                                              engine : {"none", "on", "off"}]
      BY <1>2 DEF Inform
    <2> QED
      BY <1>2, <1>6, <2>1, <2>2 DEF loc_eng_report_status
  <1> USE DEF sessionVars, statusVars, modemVars, aidingVars
  <1> HIDE DEF SessionType, StatusType
  <1>7. CASE LocEngStartFix
    <2>1. SessionType' /\ modem' \in ModemType
      BY <1>2, <1>4, <1>7 DEF LocEngStartFix, SessionType
    <2>2. StatusType' /\ AidingType'
      BY <1>2, <1>7 DEF LocEngStartFix, StatusType, AidingType
    <2> QED
      BY <1>1, <1>7, <2>1, <2>2 DEF LocEngStartFix
  <1>8. CASE LocEngStopFix
    <2>1. SessionType' /\ modem' \in ModemType
      BY <1>2, <1>5, <1>8, ModemFields DEF LocEngStopFix, SessionType
    <2>2. StatusType' /\ AidingType'
      BY <1>2, <1>8 DEF LocEngStopFix, StatusType, AidingType
    <2> QED
      BY <1>1, <1>8, <2>1, <2>2 DEF LocEngStopFix
  <1>9. CASE LocEngPositionMode
    <2>1. Head(msgs).criteria \in Criteria
      BY <1>9, TakeType, MessageFields DEF LocEngPositionMode
    <2>2. SessionType' /\ modem' \in ModemType
      BY <1>2, <1>9, <2>1, ModemFields DEF LocEngPositionMode, SessionType
    <2>3. StatusType' /\ AidingType'
      BY <1>2, <1>9 DEF LocEngPositionMode, StatusType, AidingType
    <2> QED
      BY <1>1, <1>9, <2>2, <2>3 DEF LocEngPositionMode
  <1>10. CASE LocEngDelAidData
    <2>1. Head(msgs).data \subseteq Aiding
      BY <1>10, TakeType, MessageFields, LocEngAssumption DEF LocEngDelAidData
    <2>2. AidingType'
      BY <1>2, <1>10, <2>1, UpdateType DEF LocEngDelAidData, AidingType, Fates
    <2>3. SessionType' /\ StatusType' /\ modem' \in ModemType
      BY <1>2, <1>10 DEF LocEngDelAidData, SessionType, StatusType
    <2> QED
      BY <1>1, <1>10, <2>2, <2>3 DEF LocEngDelAidData
  <1>11. CASE LocEngReportPosition
    <2>1. SessionType' /\ modem' \in ModemType
      BY <1>2, <1>5, <1>11, ModemFields DEF LocEngReportPosition, SessionType
    <2>2. StatusType' /\ AidingType'
      BY <1>2, <1>11 DEF LocEngReportPosition, StatusType, AidingType
    <2> QED
      BY <1>1, <1>11, <2>1, <2>2 DEF LocEngReportPosition
  <1>12. CASE LocEngReportStatus
    <2>1. Head(msgs).status \in {"begin", "end", "on", "off"}
      BY <1>12, TakeType, MessageFields DEF LocEngReportStatus
    <2>2. StatusType'
      BY <1>6, <1>12, <2>1 DEF LocEngReportStatus
    <2>3. SessionType' /\ AidingType' /\ modem' \in ModemType
      BY <1>2, <1>12, UpdateType DEF LocEngReportStatus, SessionType, AidingType
    <2> QED
      BY <1>1, <1>12, <2>2, <2>3 DEF LocEngReportStatus
  <1>13. CASE MuteOneSession
    <2>1. SessionType' /\ AidingType' /\ modem' \in ModemType
      BY <1>2, <1>13 DEF MuteOneSession, SessionType, AidingType
    <2>2. StatusType'
      BY <1>2, <1>13 DEF MuteOneSession, StatusType
    <2> QED
      BY <1>1, <1>13, <2>1, <2>2 DEF MuteOneSession
  <1>14. CASE LocSsrMsg
    <2>1. modem' \in ModemType
      BY <1>2, <1>14, ModemFields DEF LocSsrMsg, ModemType
    <2>2. SessionType' /\ StatusType' /\ AidingType'
      BY <1>2, <1>14 DEF LocSsrMsg, SessionType, StatusType, AidingType
    <2> QED
      BY <1>1, <1>14, <2>1, <2>2 DEF LocSsrMsg
  <1>15. CASE loc_eng_handle_engine_down
    <2>1. StatusType'
      BY <1>6, <1>15 DEF loc_eng_handle_engine_down
    <2>2. SessionType' /\ AidingType' /\ modem' \in ModemType
      BY <1>2, <1>15 DEF loc_eng_handle_engine_down, SessionType, AidingType, Fates
    <2> QED
      BY <1>1, <1>15, <2>1, <2>2 DEF loc_eng_handle_engine_down
  <1>16. CASE loc_eng_handle_engine_up
    <2>1. [mFixCriteria EXCEPT !.mode = "INVALID"] \in Criteria
      BY <1>2, CriteriaFields DEF SessionType
    <2>2. SessionType' /\ modem' \in ModemType
      BY <1>2, <1>4, <1>16, <2>1 DEF loc_eng_handle_engine_up, SessionType
    <2>3. StatusType' /\ AidingType'
      BY <1>2, <1>16 DEF loc_eng_handle_engine_up, StatusType, AidingType
    <2> QED
      BY <1>1, <1>16, <2>2, <2>3 DEF loc_eng_handle_engine_up
  <1> QED
    BY <1>7, <1>8, <1>9, <1>10, <1>11, <1>12, <1>13, <1>14, <1>15, <1>16 DEF MsgTask

LEMMA ModemTypes ==
    ASSUME TypeOK, Modem PROVE TypeOK'
  <1> USE OneSent, TwoSent, Made
  <1>1. ASSUME NEW sent \in Seq(Messages), Send(sent), modem' \in ModemType,
               reports' \in 0 .. MaxReports, restarts' \in 0 .. MaxRestarts
        PROVE  TypeOK'
    BY <1>1, AfterQueue
       DEF TypeOK, Send, ModemType, halVars, sessionVars, statusVars, aidingVars
  <1>2. modem \in ModemType /\ modem.criteria \in Criteria /\ reports \in 0 .. MaxReports /\ restarts \in 0 .. MaxRestarts
    BY DEF TypeOK, ModemType
  <1>3. /\ reports < MaxReports => reports + 1 \in 0 .. MaxReports
        /\ restarts < MaxRestarts => restarts + 1 \in 0 .. MaxRestarts
    BY <1>2, LocEngAssumption
  <1>4. CASE ModemOn
    BY <1>1, <1>2, <1>4, Made, ModemFields DEF ModemOn
  <1>5. CASE ModemOff
    BY <1>1, <1>2, <1>5, Made, ModemFields DEF ModemOff
  <1>6. CASE ModemReport
    <2>1. PICK k \in Kinds :
            /\ reports < MaxReports /\ reports' = reports + 1
            /\ modem' = [modem EXCEPT !.fixing =
                            \/ modem.criteria.recurrence # "single"
                            \/ k \in {"intermediate", "coarse"}]
            /\ Send(<<Position(k)>>) /\ UNCHANGED restarts
      BY <1>6 DEF ModemReport
    <2>2. modem' \in ModemType
      BY <1>2, <2>1, ModemFields
    <2> QED
      BY <1>1, <1>2, <1>3, <2>1, <2>2, Made
  <1>7. CASE ModemMute
    BY <1>1, <1>2, <1>3, <1>7, Made DEF ModemMute
  <1>8. CASE handleEngineDownEvent
    <2>1. modem' \in ModemType
      BY <1>8, CriteriaFields DEF handleEngineDownEvent, ModemType
    <2> QED
      BY <1>1, <1>2, <1>3, <1>8, <2>1, Made DEF handleEngineDownEvent
  <1>9. CASE handleEngineUpEvent
    BY <1>1, <1>2, <1>9, Made, ModemFields DEF handleEngineUpEvent
  <1> QED
    BY <1>4, <1>5, <1>6, <1>7, <1>8, <1>9 DEF Modem
-----------------------------------------------------------------------------
(* What a message that is sent leaves as it was                            *)

(* The session that was stopped last is still stopped for what comes next  *)
LEMMA StoppedAtEnd ==
    ASSUME msgs \in Seq(Messages), SessionTold, ~wanted
    PROVE  IsStopped(msgs, mNavigating, Len(msgs) + 1)
  <1>1. (Len(msgs) + 1) - 1 = Len(msgs)
    OBVIOUS
  <1>2. CASE LastIs(msgs, Session, {Wish})
    <2>1. PICK i \in 1 .. Len(msgs) :
               /\ msgs[i] \in {Wish}
               /\ \A j \in i + 1 .. Len(msgs) : msgs[j].type \notin Session
      BY <1>2 DEF LastIs
    <2>2. msgs[i].type = "stop"
      BY <2>1 DEF Wish, Msg
    <2> QED
      BY <1>1, <2>1, <2>2 DEF IsStopped, Session
  <1>3. CASE Without(msgs, Session) /\ AsWanted
    BY <1>1, <1>3 DEF Without, AsWanted, IsStopped, Session
  <1> QED
    BY <1>2, <1>3 DEF SessionTold

LEMMA SessionToldSent ==
    ASSUME msgs \in Seq(Messages), SessionTold,
           NEW t \in Seq(Messages), msgs' = msgs \o t, Without(t, Session),
           UNCHANGED <<wanted, started, mNavigating, refused>>
    PROVE  SessionTold'
  <1>1. CASE LastIs(msgs, Session, {Wish})
    <2>1. LastIs(msgs', Session, {Wish})
      BY <1>1, LastAfter
    <2> QED
      BY <2>1 DEF SessionTold, Wish
  <1>2. CASE Without(msgs, Session) /\ AsWanted
    <2>1. Without(msgs', Session)
      BY <1>2, WithoutAfter
    <2> QED
      BY <1>2, <2>1 DEF SessionTold, AsWanted
  <1> QED
    BY <1>1, <1>2 DEF SessionTold

LEMMA StartsSent ==
    ASSUME msgs \in Seq(Messages), StartsApart,
           NEW t \in Seq(Messages), msgs' = msgs \o t, UNCHANGED mNavigating,
           \A j \in 1 .. Len(t) : t[j].type = "start" =>
               j = 1 /\ IsStopped(msgs, mNavigating, Len(msgs) + 1)
    PROVE  StartsApart'
  <1> SUFFICES ASSUME NEW i \in 1 .. Len(msgs'), msgs'[i].type = "start"
               PROVE  IsStopped(msgs', mNavigating, i)
    BY DEF StartsApart
  <1>1. i \in 1 .. Len(msgs) + 1 /\ IsStopped(msgs, mNavigating, i)
    <2>1. CASE i \in 1 .. Len(msgs)
      BY <2>1, AfterQueue DEF StartsApart
    <2>2. CASE \E j \in 1 .. Len(t) : i = Len(msgs) + j
      <3>1. PICK j \in 1 .. Len(t) : i = Len(msgs) + j
        BY <2>2
      <3>2. t[j].type = "start"
        BY <3>1, AfterQueue
      <3>3. j = 1 /\ IsStopped(msgs, mNavigating, Len(msgs) + 1)
        BY <3>2
      <3>4. Len(msgs) \in Nat
        OBVIOUS
      <3> QED
        BY <3>1, <3>3, <3>4
    <2> QED
      BY <2>1, <2>2, AfterQueue
  <1> QED
    BY <1>1, StoppedAfter

LEMMA StopsSent ==
    ASSUME msgs \in Seq(Messages), StopsFit,
           NEW t \in Seq(Messages), msgs' = msgs \o t, UNCHANGED <<asked, mNavigating>>,
           \A j \in 1 .. Len(t) : t[j].type = "stop" =>
               j = 1 /\ IsStopped(msgs, mNavigating, Len(msgs) + 1)
    PROVE  StopsFit'
  <1> SUFFICES ASSUME asked # Unset, NEW i \in 1 .. Len(msgs'), msgs'[i].type = "stop"
               PROVE  \/ IsStopped(msgs', mNavigating, i)
                      \/ \E k \in i + 1 .. Len(msgs') : msgs'[k].type = "mode"
    BY DEF StopsFit
  <1>1. CASE i \in 1 .. Len(msgs)
    <2>1. msgs[i].type = "stop"
      BY <1>1, AfterQueue
    <2>2. CASE IsStopped(msgs, mNavigating, i)
      BY <1>1, <2>2, StoppedAfter
    <2>3. CASE \E k \in i + 1 .. Len(msgs) : msgs[k].type = "mode"
      <3>1. \A k \in i + 1 .. Len(msgs) : k \in i + 1 .. Len(msgs') /\ msgs'[k] = msgs[k]
        BY <1>1, AfterQueue
      <3> QED
        BY <2>3, <3>1
    <2> QED
      BY <1>1, <2>1, <2>2, <2>3 DEF StopsFit
  <1>2. CASE \E j \in 1 .. Len(t) : i = Len(msgs) + j
    <2>1. PICK j \in 1 .. Len(t) : i = Len(msgs) + j
      BY <1>2
    <2>2. t[j].type = "stop"
      BY <2>1, AfterQueue
    <2>3. i = Len(msgs) + 1 /\ IsStopped(msgs, mNavigating, i)
      BY <2>1, <2>2
    <2>4. i \in 1 .. Len(msgs) + 1
      BY <2>3
    <2> QED
      BY <2>3, <2>4, StoppedAfter
  <1>3. i \in 1 .. Len(msgs) \/ \E j \in 1 .. Len(t) : i = Len(msgs) + j
    BY AfterQueue
  <1> QED
    BY <1>1, <1>2, <1>3

LEMMA OverSent ==
    ASSUME msgs \in Seq(Messages), NEW t \in Seq(Messages), msgs' = msgs \o t,
           Without(t, {"start"}), UNCHANGED mNavigating, ~wanted => ~wanted',
           NEW i \in 1 .. Len(msgs), Over(i)
    PROVE  Over(i)'
  <1>1. IsStopped(msgs', mNavigating, i)
    BY StoppedAfter DEF Over
  <1>2. ASSUME NEW k \in i .. Len(msgs') PROVE msgs'[k].type # "start"
    <2>1. CASE k \in 1 .. Len(msgs)
      BY <1>2, <2>1, AfterQueue DEF Over, NoStartFrom
    <2>2. CASE \E j \in 1 .. Len(t) : k = Len(msgs) + j
      <3>1. PICK j \in 1 .. Len(t) : k = Len(msgs) + j
        BY <2>2
      <3>2. msgs'[k] = t[j]
        BY <3>1, AfterQueue
      <3> QED
        BY <3>2 DEF Without
    <2>3. k \in 1 .. Len(msgs')
      OBVIOUS
    <2> QED
      BY <2>1, <2>2, <2>3, AfterQueue
  <1> QED
    BY <1>1, <1>2 DEF Over, NoStartFrom

(* A mode that is sent to a session that is over does not matter           *)
LEMMA RecurrenceSent ==
    ASSUME msgs \in Seq(Messages), RecurrenceFits,
           NEW t \in Seq(Messages), msgs' = msgs \o t, Without(t, {"start"}),
           UNCHANGED <<started, mNavigating, mFixCriteria>>, ~wanted => ~wanted',
           \A j \in 1 .. Len(t) : t[j].type = "mode" =>
               /\ j = 1
               /\ \/ t[j].criteria.recurrence = started
                  \/ ~wanted /\ IsStopped(msgs, mNavigating, Len(msgs) + 1)
    PROVE  RecurrenceFits'
  <1>1. \/ mFixCriteria'.recurrence = started'
        \/ IsReplaced(msgs', started', 0)
        \/ ~wanted' /\ ~mNavigating' /\ ~Holds(msgs', "start")
    <2>1. IsReplaced(msgs, started, 0) => IsReplaced(msgs', started, 0)
      BY ReplacedAfter
    <2>2. ~Holds(msgs, "start") => ~Holds(msgs', "start")
      BY WithoutAfter DEF Holds
    <2> QED
      BY <2>1, <2>2 DEF RecurrenceFits
  <1>2. ASSUME NEW i \in 1 .. Len(msgs'), msgs'[i].type = "mode"
        PROVE  \/ msgs'[i].criteria.recurrence = started
               \/ IsReplaced(msgs', started, i)
               \/ Over(i)'
    <2>1. CASE i \in 1 .. Len(msgs)
      <3>1. msgs'[i] = msgs[i]
        BY <2>1, AfterQueue
      <3>2. IsReplaced(msgs, started, i) => IsReplaced(msgs', started, i)
        BY <2>1, ReplacedAfter
      <3>3. Over(i) => Over(i)'
        BY <2>1, OverSent
      <3> QED
        BY <1>2, <2>1, <3>1, <3>2, <3>3 DEF RecurrenceFits
    <2>2. CASE \E j \in 1 .. Len(t) : i = Len(msgs) + j
      <3>1. PICK j \in 1 .. Len(t) : i = Len(msgs) + j
        BY <2>2
      <3>2. msgs'[i] = t[j]
        BY <3>1, AfterQueue
      <3>3. j = 1
        BY <1>2, <3>2
      <3>4. i = Len(msgs) + 1 /\ i \in 1 .. Len(msgs) + 1 /\ Len(msgs') = Len(msgs) + Len(t)
        BY <3>1, <3>3, AfterQueue
      <3>5. CASE t[j].criteria.recurrence = started
        BY <3>2, <3>5
      <3>6. CASE ~wanted /\ IsStopped(msgs, mNavigating, Len(msgs) + 1)
        <4>1. IsStopped(msgs', mNavigating, i)
          BY <3>4, <3>6, StoppedAfter
        <4>2. \A k \in i .. Len(msgs') : k - Len(msgs) \in 1 .. Len(t) /\ k = Len(msgs) + (k - Len(msgs))
          BY <3>4
        <4>3. \A k \in i .. Len(msgs') : msgs'[k] = t[k - Len(msgs)]
          BY <4>2, AfterQueue
        <4>4. \A k \in i .. Len(msgs') : msgs'[k].type # "start"
          BY <4>2, <4>3 DEF Without
        <4> QED
          BY <3>6, <4>1, <4>4 DEF Over, NoStartFrom
      <3> QED
        BY <1>2, <3>2, <3>5, <3>6
    <2> QED
      BY <2>1, <2>2, AfterQueue
  <1> QED
    BY <1>1, <1>2 DEF RecurrenceFits

LEMMA CriteriaSent ==
    ASSUME msgs \in Seq(Messages), CriteriaFit,
           NEW t \in Seq(Messages), msgs' = msgs \o t, Without(t, {"mode"}),
           UNCHANGED <<asked, mFixCriteria>>, restarts # 0 => restarts' # 0,
           wanted' => asked # Unset /\ asked.recurrence = started'
    PROVE  CriteriaFit'
  <1> SUFFICES ASSUME asked # Unset
               PROVE  \/ LastIs(msgs', {"mode"}, {Mode(asked)})
                      \/ Without(msgs', {"mode"}) /\ HasAsked'
    BY DEF CriteriaFit
  <1>1. CASE LastIs(msgs, {"mode"}, {Mode(asked)})
    BY <1>1, LastAfter
  <1>2. CASE Without(msgs, {"mode"}) /\ HasAsked
    <2>1. Without(msgs', {"mode"})
      BY <1>2, WithoutAfter
    <2>2. HasAsked'
      BY <1>2 DEF HasAsked, Kept
    <2> QED
      BY <2>1, <2>2
  <1> QED
    BY <1>1, <1>2 DEF CriteriaFit

LEMMA FixingSent ==
    ASSUME msgs \in Seq(Messages), FixingFits,
           NEW t \in Seq(Messages), msgs' = msgs \o t, Without(t, {"start"}),
           UNCHANGED <<started, mNavigating, refused, modem, restarts>>, wanted' => wanted,
           wanted' => asked' = asked \/ Holds(t, "mode")
    PROVE  FixingFits'
  <1>1. /\ Holds(msgs, "start") => Holds(msgs', "start")
        /\ Holds(msgs, "up") => Holds(msgs', "up")
        /\ Holds(msgs, "mode") \/ Holds(t, "mode") => Holds(msgs', "mode")
    BY WithoutAfter DEF Holds
  <1>2. InForce /\ wanted' => InForce'
    BY <1>1 DEF InForce, Kept
  <1> QED
    BY <1>1, <1>2 DEF FixingFits

LEMMA ReopenSent ==
    ASSUME msgs \in Seq(Messages), WillReopen,
           NEW t \in Seq(Messages), msgs' = msgs \o t, Without(t, {"up"}),
           modem'.open = modem.open, modem'.up = modem.up, modem'.fixing => modem.fixing,
           UNCHANGED restarts
    PROVE  WillReopen'
  <1>1. /\ Before(msgs, "ssr", "up") => Before(msgs', "ssr", "up")
        /\ Holds(msgs', "up") => Holds(msgs, "up")
    BY BeforeAfter, WithoutAfter DEF Holds
  <1> QED
    BY <1>1 DEF WillReopen

LEMMA EngineSent ==
    ASSUME msgs \in Seq(Messages), EngineTold,
           NEW t \in Seq(Messages), msgs' = msgs \o t, Without(t, Reported),
           modem'.engine = modem.engine, UNCHANGED <<engine_status, mute_session_state, shown>>
    PROVE  EngineTold'
  <1>1. EngineNews' = EngineNews /\ OffShown' = OffShown
    BY DEF EngineNews, OffShown
  <1>2. CASE LastIs(msgs, Reported, EngineNews)
    <2>1. LastIs(msgs', Reported, EngineNews)
      BY <1>2, LastAfter
    <2> QED
      BY <1>1, <2>1 DEF EngineTold
  <1>3. CASE Without(msgs, Reported) /\ (~modem.engine => OffShown)
    <2>1. Without(msgs', Reported)
      BY <1>3, WithoutAfter
    <2> QED
      BY <1>1, <1>3, <2>1 DEF EngineTold
  <1> QED
    BY <1>2, <1>3 DEF EngineTold
-----------------------------------------------------------------------------
(* The framework                                                           *)

LEMMA CallSends ==
    ASSUME NEW sent, Call(sent)
    PROVE  /\ msgs' = msgs \o sent
           /\ UNCHANGED <<mNavigating, mFixCriteria, refused, modem, restarts,
                          engine_status, mute_session_state, shown>>
  BY DEF Call, sessionVars, statusVars, modemVars

(* The modem and the statuses do not change with a call                    *)
LEMMA CallKeepsModem ==
    ASSUME SessionInv, NEW sent \in Seq(Messages), Call(sent),
           Without(sent, {"up"}), Without(sent, Reported)
    PROVE  WillReopen' /\ EngineTold'
  <1>1. msgs \in Seq(Messages) /\ WillReopen /\ EngineTold
    BY DEF SessionInv, TypeOK
  <1>2. /\ msgs' = msgs \o sent
        /\ modem' = modem /\ UNCHANGED <<restarts, engine_status, mute_session_state, shown>>
    BY CallSends
  <1>3. WillReopen'
    BY <1>1, <1>2, ReopenSent
  <1>4. EngineTold'
    BY <1>1, <1>2, EngineSent
  <1> QED
    BY <1>3, <1>4

LEMMA SetModeKeeps ==
    ASSUME SessionInv, loc_eng_set_position_mode
    PROVE  SessionInv'
  <1>1. PICK c \in [mode : Modes, recurrence : Recurrences] :
             /\ wanted => c.recurrence = asked.recurrence
             /\ Call(<<Mode(c)>>) /\ asked' = c /\ UNCHANGED <<wanted, started>>
    BY DEF loc_eng_set_position_mode, CallKeepsAiding
  <1> DEFINE sent == <<Mode(c)>>
  <1>2. c \in Criteria /\ c # Unset
    BY CriteriaFields
  <1>3. /\ Mode(c) \in Messages /\ Mode(c).type = "mode" /\ Mode(c).criteria = c
        /\ sent \in Seq(Messages)
        /\ \A types : Without(sent, types) <=> "mode" \notin types
        /\ LastIs(sent, {"mode"}, {Mode(c)})
        /\ \A j \in 1 .. Len(sent) : j = 1 /\ sent[j] = Mode(c)
    BY <1>2, Made, OneSent
  <1> HIDE DEF sent
  <1>4. Call(sent)
    BY <1>1 DEF sent
  <1>5. /\ msgs \in Seq(Messages) /\ SessionTold /\ StartsApart /\ RecurrenceFits /\ CriteriaFit
        /\ FixingFits
    BY DEF SessionInv, TypeOK
  <1>6. /\ msgs' = msgs \o sent
        /\ UNCHANGED <<wanted, started, mNavigating, mFixCriteria, refused, modem, restarts>>
    BY <1>1, <1>4, CallSends
  <1>7. TypeOK'
    BY FrameworkType DEF SessionInv, Framework
  <1>8. WillReopen' /\ EngineTold'
    BY <1>3, <1>4, CallKeepsModem DEF Reported
  <1>9. SessionTold'
    BY <1>3, <1>5, <1>6, SessionToldSent DEF Session
  <1>10. StartsApart'
    BY <1>3, <1>5, <1>6, StartsSent
  <1>11. StopsFit'
    <2> SUFFICES ASSUME NEW i \in 1 .. Len(msgs'), msgs'[i].type = "stop"
                 PROVE  \E k \in i + 1 .. Len(msgs') : msgs'[k].type = "mode"
      BY DEF StopsFit
    <2>1. /\ Len(msgs') = Len(msgs) + Len(sent) /\ Len(sent) = 1
          /\ msgs'[Len(msgs) + 1] = Mode(c)
      BY <1>3, <1>5, <1>6, AfterQueue DEF sent
    <2>2. i # Len(msgs) + 1
      BY <1>3, <2>1
    <2>3. Len(msgs) + 1 \in i + 1 .. Len(msgs')
      BY <1>5, <2>1, <2>2
    <2> QED
      BY <1>3, <2>1, <2>3
  <1>12. RecurrenceFits'
    <2>1. wanted => c.recurrence = started
      BY <1>1, <1>5 DEF CriteriaFit
    <2>2. ~wanted => IsStopped(msgs, mNavigating, Len(msgs) + 1)
      BY <1>5, StoppedAtEnd
    <2>3. \A j \in 1 .. Len(sent) :
             /\ j = 1
             /\ \/ sent[j].criteria.recurrence = started
                \/ ~wanted /\ IsStopped(msgs, mNavigating, Len(msgs) + 1)
      BY <1>3, <2>1, <2>2
    <2> QED
      BY <1>3, <1>5, <1>6, <2>3, RecurrenceSent
  <1>13. CriteriaFit'
    <2>1. LastIs(msgs', {"mode"}, {Mode(asked')})
      BY <1>1, <1>3, <1>5, <1>6, LastAfter
    <2>2. wanted' => asked' # Unset /\ asked'.recurrence = started'
      BY <1>1, <1>2, <1>5, <1>6 DEF CriteriaFit
    <2> QED
      BY <2>1, <2>2 DEF CriteriaFit
  <1>14. FixingFits'
    <2>1. Holds(sent, "mode")
      BY <1>3 DEF Holds
    <2> QED
      BY <1>3, <1>5, <1>6, <2>1, FixingSent
  <1> QED
    BY <1>7, <1>8, <1>9, <1>10, <1>11, <1>12, <1>13, <1>14 DEF SessionInv

LEMMA StartKeeps ==
    ASSUME SessionInv, loc_eng_start
    PROVE  SessionInv'
  <1>1. /\ ~wanted /\ asked # Unset /\ Call(<<Msg("start")>>)
        /\ wanted' = TRUE /\ started' = asked.recurrence /\ asked' = asked
    BY DEF loc_eng_start, CallKeepsAiding
  <1> DEFINE sent == <<Msg("start")>>
  <1>3. /\ Msg("start") \in Messages /\ Msg("start").type = "start"
        /\ sent \in Seq(Messages)
        /\ \A types : Without(sent, types) <=> "start" \notin types
        /\ LastIs(sent, Session, {Msg("start")})
        /\ Len(sent) = 1 /\ \A j \in 1 .. Len(sent) : j = 1 /\ sent[j] = Msg("start")
    BY Made, OneSent
  <1> HIDE DEF sent
  <1>4. Call(sent)
    BY <1>1 DEF sent
  <1>5. /\ msgs \in Seq(Messages) /\ SessionTold /\ StartsApart /\ StopsFit /\ CriteriaFit
    BY DEF SessionInv, TypeOK
  <1>6. /\ msgs' = msgs \o sent
        /\ UNCHANGED <<mNavigating, mFixCriteria, refused, modem, restarts>>
    BY <1>1, <1>4, CallSends
  <1>7. TypeOK'
    BY FrameworkType DEF SessionInv, Framework
  <1>8. WillReopen' /\ EngineTold'
    BY <1>3, <1>4, CallKeepsModem DEF Reported
  <1>9. SessionTold'
    <2>1. LastIs(msgs', Session, {Msg("start")})
      BY <1>3, <1>5, <1>6, LastAfter
    <2>2. Wish' = Msg("start")
      BY <1>1 DEF Wish
    <2> QED
      BY <2>1, <2>2 DEF SessionTold
  <1>10. StartsApart'
    <2>1. IsStopped(msgs, mNavigating, Len(msgs) + 1)
      BY <1>1, <1>5, StoppedAtEnd
    <2> QED
      BY <1>3, <1>5, <1>6, <2>1, StartsSent
  <1>11. StopsFit'
    BY <1>1, <1>3, <1>5, <1>6, StopsSent
  <1>12. RecurrenceFits'
    <2>1. /\ Len(msgs') = Len(msgs) + 1 /\ msgs'[Len(msgs) + 1].type = "start"
          /\ \A i \in 1 .. Len(msgs) : msgs'[i] = msgs[i]
          /\ Len(msgs) \in Nat
      <3>1. 1 \in 1 .. Len(sent) /\ sent[1].type = "start"
        BY <1>3
      <3>4. sent \in Seq(Messages) /\ msgs \in Seq(Messages)
        BY <1>3, <1>5
      <3>2. (msgs \o sent)[Len(msgs) + 1] = sent[1]
        BY <3>1, <3>4, AfterQueue
      <3>3. /\ Len(msgs \o sent) = Len(msgs) + Len(sent) /\ Len(msgs) \in Nat
            /\ \A i \in 1 .. Len(msgs) : (msgs \o sent)[i] = msgs[i]
        BY <3>4, AfterQueue
      <3> QED
        BY <1>3, <1>6, <3>1, <3>2, <3>3
    <2>2. CASE LastIs(msgs, {"mode"}, {Mode(asked)})
      <3>1. PICK p \in 1 .. Len(msgs) :
                 /\ msgs[p] \in {Mode(asked)}
                 /\ \A j \in p + 1 .. Len(msgs) : msgs[j].type \notin {"mode"}
        BY <2>2 DEF LastIs
      <3>2. msgs'[p].type = "mode" /\ msgs'[p].criteria.recurrence = started'
        BY <1>1, <2>1, <3>1 DEF Mode
      <3>3. ASSUME NEW i \in Nat, i < p PROVE IsReplaced(msgs', started', i)
        <4>1. /\ p \in i + 1 .. Len(msgs') /\ Len(msgs) + 1 \in i + 1 .. Len(msgs')
              /\ p < Len(msgs) + 1
          BY <2>1, <3>3
        <4> QED
          BY <2>1, <3>2, <4>1 DEF IsReplaced
      <3>4. ASSUME NEW i \in 1 .. Len(msgs'), msgs'[i].type = "mode"
            PROVE  msgs'[i].criteria.recurrence = started' \/ IsReplaced(msgs', started', i)
        <4>1. CASE i < p
          BY <3>3, <4>1
        <4>2. CASE i = p
          BY <3>2, <4>2
        <4>3. CASE i \in p + 1 .. Len(msgs)
          BY <2>1, <3>1, <3>4, <4>3
        <4>4. i # Len(msgs) + 1
          BY <2>1, <3>4
        <4> QED
          BY <2>1, <4>1, <4>2, <4>3, <4>4
      <3>5. IsReplaced(msgs', started', 0)
        BY <3>3
      <3> QED
        BY <3>4, <3>5 DEF RecurrenceFits
    <2>3. CASE Without(msgs, {"mode"}) /\ HasAsked
      <3>1. mFixCriteria'.recurrence = started'
        BY <1>1, <1>6, <2>3 DEF HasAsked
      <3>2. Without(msgs', {"mode"})
        BY <1>3, <1>5, <1>6, <2>3, WithoutAfter
      <3> QED
        BY <3>1, <3>2 DEF RecurrenceFits, Without
    <2> QED
      BY <1>1, <1>5, <2>2, <2>3 DEF CriteriaFit
  <1>13. CriteriaFit'
    BY <1>1, <1>3, <1>5, <1>6, CriteriaSent
  <1>14. FixingFits'
    <2>1. Holds(msgs', "start")
      BY <1>3, <1>5, <1>6, WithoutAfter DEF Holds
    <2> QED
      BY <2>1 DEF FixingFits
  <1> QED
    BY <1>7, <1>8, <1>9, <1>10, <1>11, <1>12, <1>13, <1>14 DEF SessionInv

(* A stop of the framework, and the one of loc_eng_cleanup()               *)
LEMMA SendStopKeeps ==
    ASSUME SessionInv, Call(<<Msg("stop")>>), ~wanted', UNCHANGED started, TypeOK',
           (wanted /\ asked' = Unset) \/ (~wanted /\ asked' = asked)
    PROVE  SessionInv'
  <1> DEFINE sent == <<Msg("stop")>>
  <1>3. /\ Msg("stop") \in Messages /\ Msg("stop").type = "stop"
        /\ sent \in Seq(Messages)
        /\ \A types : Without(sent, types) <=> "stop" \notin types
        /\ LastIs(sent, Session, {Msg("stop")})
        /\ Len(sent) = 1 /\ \A j \in 1 .. Len(sent) : j = 1 /\ sent[j] = Msg("stop")
    BY Made, OneSent
  <1> HIDE DEF sent
  <1>4. Call(sent)
    BY DEF sent
  <1>5. /\ msgs \in Seq(Messages) /\ SessionTold /\ StartsApart /\ StopsFit /\ CriteriaFit
        /\ RecurrenceFits /\ FixingFits
    BY DEF SessionInv, TypeOK
  <1>6. /\ msgs' = msgs \o sent
        /\ UNCHANGED <<mNavigating, mFixCriteria, refused, modem, restarts>>
    BY <1>4, CallSends
  <1>8. WillReopen' /\ EngineTold'
    BY <1>3, <1>4, CallKeepsModem DEF Reported
  <1>9. SessionTold'
    <2>1. LastIs(msgs', Session, {Msg("stop")})
      BY <1>3, <1>5, <1>6, LastAfter
    <2>2. Wish' = Msg("stop")
      BY DEF Wish
    <2> QED
      BY <2>1, <2>2 DEF SessionTold
  <1>10. StartsApart'
    BY <1>3, <1>5, <1>6, StartsSent
  <1>11. StopsFit'
    <2>1. CASE wanted /\ asked' = Unset
      BY <2>1 DEF StopsFit
    <2>2. CASE ~wanted /\ asked' = asked
      <3>1. IsStopped(msgs, mNavigating, Len(msgs) + 1)
        BY <1>5, <2>2, StoppedAtEnd
      <3> QED
        BY <1>3, <1>5, <1>6, <2>2, <3>1, StopsSent
    <2> QED
      BY <2>1, <2>2
  <1>12. RecurrenceFits'
    BY <1>3, <1>5, <1>6, RecurrenceSent
  <1>13. CriteriaFit'
    <2>1. CASE asked' = Unset
      BY <2>1 DEF CriteriaFit
    <2>2. CASE asked' = asked
      BY <1>3, <1>5, <1>6, <2>2, CriteriaSent
    <2> QED
      BY <2>1, <2>2
  <1>14. FixingFits'
    BY <1>3, <1>5, <1>6, FixingSent
  <1> QED
    BY <1>8, <1>9, <1>10, <1>11, <1>12, <1>13, <1>14 DEF SessionInv

(* What is not about the session                                           *)
LEMMA OthersKeep ==
    ASSUME SessionInv, NEW t \in Seq(Messages), msgs' = msgs \o t,
           Without(t, {"start"}), Without(t, {"stop"}), Without(t, {"mode"}),
           UNCHANGED <<wanted, asked, started, mNavigating, mFixCriteria, refused>>,
           restarts # 0 => restarts' # 0
    PROVE  SessionTold' /\ StartsApart' /\ StopsFit' /\ RecurrenceFits' /\ CriteriaFit'
  <1>1. /\ msgs \in Seq(Messages) /\ SessionTold /\ StartsApart /\ StopsFit /\ CriteriaFit
        /\ RecurrenceFits
    BY DEF SessionInv, TypeOK
  <1>2. Without(t, Session)
    BY DEF Without, Session
  <1>3. \A j \in 1 .. Len(t) : t[j].type \notin {"start", "stop", "mode"}
    BY DEF Without
  <1>4. SessionTold'
    BY <1>1, <1>2, SessionToldSent
  <1>5. StartsApart'
    BY <1>1, <1>3, StartsSent
  <1>6. StopsFit'
    BY <1>1, <1>3, StopsSent
  <1>7. RecurrenceFits'
    BY <1>1, <1>3, RecurrenceSent
  <1>8. CriteriaFit'
    <2>1. wanted' => asked # Unset /\ asked.recurrence = started'
      BY <1>1 DEF CriteriaFit
    <2> QED
      BY <1>1, <2>1, CriteriaSent
  <1> QED
    BY <1>4, <1>5, <1>6, <1>7, <1>8

LEMMA FrameworkKeeps ==
    ASSUME SessionInv, Framework
    PROVE  SessionInv'
  <1>1. TypeOK'
    BY FrameworkType DEF SessionInv
  <1>2. CASE loc_eng_stop
    BY <1>1, <1>2, SendStopKeeps DEF loc_eng_stop, CallKeepsAiding
  <1>3. ASSUME NEW sent \in Seq(Messages), Call(sent),
               Without(sent, {"start"}), Without(sent, {"stop"}), Without(sent, {"mode"}),
               Without(sent, {"up"}), Without(sent, Reported),
               UNCHANGED <<wanted, asked, started>>
        PROVE  SessionInv'
    <2>1. /\ msgs \in Seq(Messages) /\ FixingFits
          /\ msgs' = msgs \o sent
          /\ UNCHANGED <<mNavigating, mFixCriteria, refused, modem, restarts>>
      BY <1>3, CallSends DEF SessionInv, TypeOK
    <2>2. WillReopen' /\ EngineTold'
      BY <1>3, CallKeepsModem
    <2>3. SessionTold' /\ StartsApart' /\ StopsFit' /\ RecurrenceFits' /\ CriteriaFit'
      BY <1>3, <2>1, OthersKeep
    <2>4. FixingFits'
      BY <1>3, <2>1, FixingSent
    <2> QED
      BY <1>1, <2>2, <2>3, <2>4 DEF SessionInv
  <1>4. CASE loc_eng_delete_aiding_data
    <2>1. PICK f \in Masks : Call(<<DelAidData(f)>>)
      BY <1>4 DEF loc_eng_delete_aiding_data
    <2>2. <<DelAidData(f)>> \in Seq(Messages) /\ DelAidData(f).type = "aiding"
      BY Made, OneSent
    <2>3. \A types : "aiding" \notin types => Without(<<DelAidData(f)>>, types)
      BY <2>2, OneSent
    <2> QED
      BY <1>3, <1>4, <2>1, <2>2, <2>3 DEF loc_eng_delete_aiding_data, Reported
  <1>5. CASE loc_eng_cleanup
    <2>1. CASE mNavigating
      BY <1>1, <1>5, <2>1, SendStopKeeps DEF loc_eng_cleanup, CallKeepsAiding
    <2>2. CASE ~mNavigating
      BY <1>3, <1>5, <2>2, NoneSent DEF loc_eng_cleanup, CallKeepsAiding
    <2> QED
      BY <2>1, <2>2
  <1> QED
    BY <1>2, <1>4, <1>5, SetModeKeeps, StartKeeps DEF Framework
-----------------------------------------------------------------------------
(* The modem                                                               *)

LEMMA SendSends ==
    ASSUME NEW sent, Send(sent)
    PROVE  /\ msgs' = msgs \o sent
           /\ UNCHANGED <<wanted, asked, started, mNavigating, mFixCriteria, refused,
                          engine_status, mute_session_state, shown>>
  BY DEF Send, halVars, sessionVars, statusVars

(* A modem that is on or off says so                                       *)
LEMMA EngineChangeKeeps ==
    ASSUME SessionInv, TypeOK', NEW on \in BOOLEAN, modem' = [modem EXCEPT !.engine = on],
           Send(<<Status(IF on THEN "begin" ELSE "end"), Status(IF on THEN "on" ELSE "off")>>),
           UNCHANGED restarts
    PROVE  SessionInv'
  <1> DEFINE first == Status(IF on THEN "begin" ELSE "end")
             second == Status(IF on THEN "on" ELSE "off")
             sent == <<first, second>>
  <1>1. /\ first \in Messages /\ first.type = "status"
        /\ second \in Messages /\ second.type = "status"
    BY Made
  <1>2. second = IF on THEN Status("on") ELSE Status("off")
    OBVIOUS
  <1> HIDE DEF first, second
  <1>3. /\ sent \in Seq(Messages)
        /\ \A types : Without(sent, types) <=> "status" \notin types
        /\ \A last : second \in last => LastIs(sent, Reported, last)
    BY <1>1, TwoSent
  <1>4. Send(sent)
    BY DEF first, second
  <1> HIDE DEF sent
  <1>5. msgs \in Seq(Messages) /\ modem \in ModemType /\ WillReopen /\ FixingFits
    BY DEF SessionInv, TypeOK, ModemType
  <1>6. /\ msgs' = msgs \o sent
        /\ UNCHANGED <<wanted, asked, started, mNavigating, mFixCriteria, refused>>
    BY <1>4, SendSends
  <1>7. /\ modem'.up = modem.up /\ modem'.open = modem.open /\ modem'.fixing = modem.fixing
        /\ modem'.criteria = modem.criteria /\ modem'.engine = on
    BY <1>5 DEF ModemType
  <1>8. SessionTold' /\ StartsApart' /\ StopsFit' /\ RecurrenceFits' /\ CriteriaFit'
    BY <1>3, <1>6, OthersKeep
  <1>9. WillReopen'
    BY <1>3, <1>5, <1>6, <1>7, ReopenSent
  <1>10. EngineTold'
    <2>1. second \in EngineNews'
      BY <1>2, <1>7 DEF EngineNews
    <2>2. LastIs(msgs', Reported, EngineNews')
      BY <1>3, <1>5, <1>6, <2>1, LastAfter
    <2> QED
      BY <2>2 DEF EngineTold
  <1>11. FixingFits'
    <2>1. /\ Holds(msgs, "start") => Holds(msgs', "start")
          /\ Holds(msgs, "up") => Holds(msgs', "up")
          /\ Holds(msgs, "mode") => Holds(msgs', "mode")
      BY <1>3, <1>5, <1>6, WithoutAfter DEF Holds
    <2>2. InForce => InForce'
      BY <1>6, <1>7, <2>1 DEF InForce, Kept
    <2> QED
      BY <1>5, <1>6, <1>7, <2>1, <2>2 DEF FixingFits
  <1> QED
    BY <1>8, <1>9, <1>10, <1>11 DEF SessionInv

(* A report of a position, after which a periodic session goes on          *)
LEMMA ReportKeeps ==
    ASSUME SessionInv, TypeOK', ModemReport
    PROVE  SessionInv'
  <1>1. PICK k \in Kinds :
          /\ modem.fixing
          /\ modem' = [modem EXCEPT !.fixing =
                          \/ modem.criteria.recurrence # "single"
                          \/ k \in {"intermediate", "coarse"}]
          /\ Send(<<Position(k)>>) /\ UNCHANGED restarts
    BY DEF ModemReport
  <1> DEFINE sent == <<Position(k)>>
  <1>2. Position(k) \in Messages /\ Position(k).type = "position"
    BY Made
  <1>3. sent \in Seq(Messages) /\ \A types : Without(sent, types) <=> "position" \notin types
    BY <1>2, OneSent
  <1>4. Send(sent)
    BY <1>1
  <1> HIDE DEF sent
  <1>5. /\ msgs \in Seq(Messages) /\ modem \in ModemType /\ WillReopen /\ EngineTold /\ FixingFits
    BY DEF SessionInv, TypeOK, ModemType
  <1>6. /\ msgs' = msgs \o sent
        /\ UNCHANGED <<wanted, asked, started, mNavigating, mFixCriteria, refused,
                       engine_status, mute_session_state, shown, restarts>>
    BY <1>1, <1>4, SendSends
  <1>7. /\ modem'.up = modem.up /\ modem'.open = modem.open
        /\ modem'.criteria = modem.criteria /\ modem'.engine = modem.engine
    BY <1>1, <1>5 DEF ModemType
  <1>8. modem.criteria.recurrence = "periodic" => modem'.fixing
    BY <1>1, <1>5 DEF ModemType
  <1>9. SessionTold' /\ StartsApart' /\ StopsFit' /\ RecurrenceFits' /\ CriteriaFit'
    BY <1>3, <1>6, OthersKeep
  <1>10. WillReopen'
    BY <1>1, <1>3, <1>5, <1>6, <1>7, ReopenSent
  <1>11. EngineTold'
    BY <1>3, <1>5, <1>6, <1>7, EngineSent DEF Reported
  <1>12. FixingFits'
    <2>1. /\ Holds(msgs, "start") => Holds(msgs', "start")
          /\ Holds(msgs, "up") => Holds(msgs', "up")
          /\ Holds(msgs, "mode") => Holds(msgs', "mode")
      BY <1>3, <1>5, <1>6, WithoutAfter DEF Holds
    <2>2. InForce => InForce'
      BY <1>6, <1>7, <1>8, <2>1 DEF InForce, Kept
    <2> QED
      BY <1>1, <1>5, <1>6, <1>7, <2>1, <2>2 DEF FixingFits
  <1> QED
    BY <1>9, <1>10, <1>11, <1>12 DEF SessionInv

LEMMA MuteKeeps ==
    ASSUME SessionInv, TypeOK', ModemMute
    PROVE  SessionInv'
  <1> DEFINE sent == <<Msg("mute")>>
  <1>2. Msg("mute") \in Messages /\ Msg("mute").type = "mute"
    BY Made
  <1>3. sent \in Seq(Messages) /\ \A types : Without(sent, types) <=> "mute" \notin types
    BY <1>2, OneSent
  <1>4. Send(sent) /\ UNCHANGED <<modem, restarts>>
    BY DEF ModemMute
  <1> HIDE DEF sent
  <1>5. msgs \in Seq(Messages) /\ WillReopen /\ EngineTold /\ FixingFits
    BY DEF SessionInv, TypeOK
  <1>6. /\ msgs' = msgs \o sent
        /\ UNCHANGED <<wanted, asked, started, mNavigating, mFixCriteria, refused,
                       engine_status, mute_session_state, shown>>
    BY <1>4, SendSends
  <1>7. SessionTold' /\ StartsApart' /\ StopsFit' /\ RecurrenceFits' /\ CriteriaFit'
    BY <1>3, <1>4, <1>6, OthersKeep
  <1>8. WillReopen'
    BY <1>3, <1>4, <1>5, <1>6, ReopenSent
  <1>9. EngineTold'
    BY <1>3, <1>4, <1>5, <1>6, EngineSent DEF Reported
  <1>10. FixingFits'
    BY <1>3, <1>4, <1>5, <1>6, FixingSent
  <1> QED
    BY <1>7, <1>8, <1>9, <1>10 DEF SessionInv

(* A restart forgets the session and the mode, and says that it is down    *)
LEMMA DownKeeps ==
    ASSUME SessionInv, TypeOK', handleEngineDownEvent
    PROVE  SessionInv'
  <1> DEFINE sent == <<Msg("down")>>
  <1>1. /\ ~modem'.up /\ ~modem'.open /\ ~modem'.fixing /\ ~modem'.engine
        /\ restarts' = restarts + 1 /\ Send(sent)
    BY DEF handleEngineDownEvent
  <1>2. Msg("down") \in Messages /\ Msg("down").type = "down"
    BY Made
  <1>3. /\ sent \in Seq(Messages) /\ \A types : Without(sent, types) <=> "down" \notin types
        /\ \A last : Msg("down") \in last => LastIs(sent, Reported, last)
    BY <1>2, OneSent
  <1> HIDE DEF sent
  <1>4. msgs \in Seq(Messages) /\ restarts' # 0
    BY <1>1 DEF SessionInv, TypeOK
  <1>5. /\ msgs' = msgs \o sent
        /\ UNCHANGED <<wanted, asked, started, mNavigating, mFixCriteria, refused>>
    BY <1>1, SendSends
  <1>6. SessionTold' /\ StartsApart' /\ StopsFit' /\ RecurrenceFits' /\ CriteriaFit'
    BY <1>3, <1>4, <1>5, OthersKeep
  <1>7. WillReopen'
    BY <1>1, <1>4 DEF WillReopen
  <1>8. EngineTold'
    <2>1. Msg("down") \in EngineNews'
      BY <1>1 DEF EngineNews
    <2>2. LastIs(msgs', Reported, EngineNews')
      BY <1>3, <1>4, <1>5, <2>1, LastAfter
    <2> QED
      BY <2>2 DEF EngineTold
  <1>9. FixingFits'
    BY <1>1 DEF FixingFits
  <1> QED
    BY <1>6, <1>7, <1>8, <1>9 DEF SessionInv

(* A modem that comes back has its client and its session coming           *)
LEMMA UpKeeps ==
    ASSUME SessionInv, TypeOK', handleEngineUpEvent
    PROVE  SessionInv'
  <1> DEFINE sent == <<Msg("ssr"), Msg("up")>>
  <1>1. ~modem.up /\ modem' = [modem EXCEPT !.up = TRUE] /\ Send(sent) /\ UNCHANGED restarts
    BY DEF handleEngineUpEvent
  <1>2. /\ Msg("ssr") \in Messages /\ Msg("ssr").type = "ssr"
        /\ Msg("up") \in Messages /\ Msg("up").type = "up"
    BY Made
  <1>3. /\ sent \in Seq(Messages) /\ Before(sent, "ssr", "up")
        /\ \A types : Without(sent, types) <=> "ssr" \notin types /\ "up" \notin types
    BY <1>2, TwoSent
  <1> HIDE DEF sent
  <1>4. msgs \in Seq(Messages) /\ modem \in ModemType /\ WillReopen /\ EngineTold /\ FixingFits
    BY DEF SessionInv, TypeOK, ModemType
  <1>5. /\ msgs' = msgs \o sent
        /\ UNCHANGED <<wanted, asked, started, mNavigating, mFixCriteria, refused,
                       engine_status, mute_session_state, shown>>
    BY <1>1, SendSends
  <1>6. /\ modem'.up /\ modem'.open = modem.open /\ modem'.fixing = modem.fixing
        /\ modem'.engine = modem.engine
    BY <1>1, <1>4 DEF ModemType
  <1>7. SessionTold' /\ StartsApart' /\ StopsFit' /\ RecurrenceFits' /\ CriteriaFit'
    BY <1>1, <1>3, <1>5, OthersKeep
  <1>8. WillReopen'
    <2>1. Before(msgs', "ssr", "up")
      BY <1>3, <1>4, <1>5, BeforeAfter
    <2>2. restarts # 0
      BY <1>1, <1>4 DEF WillReopen
    <2> QED
      BY <1>1, <1>4, <1>6, <2>1, <2>2 DEF WillReopen
  <1>9. EngineTold'
    BY <1>3, <1>4, <1>5, <1>6, EngineSent DEF Reported
  <1>10. FixingFits'
    <2>1. Holds(msgs', "up") /\ (Holds(msgs, "start") => Holds(msgs', "start"))
      BY <1>3, <1>4, <1>5, WithoutAfter DEF Holds
    <2> QED
      BY <1>4, <1>5, <1>6, <2>1 DEF FixingFits
  <1> QED
    BY <1>7, <1>8, <1>9, <1>10 DEF SessionInv

LEMMA ModemKeeps ==
    ASSUME SessionInv, Modem
    PROVE  SessionInv'
  <1>1. TypeOK'
    BY ModemTypes DEF SessionInv
  <1>2. CASE ModemOn
    <2>1. /\ modem' = [modem EXCEPT !.engine = TRUE] /\ UNCHANGED restarts
          /\ Send(<<Status(IF TRUE THEN "begin" ELSE "end"), Status(IF TRUE THEN "on" ELSE "off")>>)
      BY <1>2 DEF ModemOn
    <2> QED
      BY <1>1, <2>1, EngineChangeKeeps
  <1>3. CASE ModemOff
    <2>1. /\ modem' = [modem EXCEPT !.engine = FALSE] /\ UNCHANGED restarts
          /\ Send(<<Status(IF FALSE THEN "begin" ELSE "end"), Status(IF FALSE THEN "on" ELSE "off")>>)
      BY <1>3 DEF ModemOff
    <2> QED
      BY <1>1, <2>1, EngineChangeKeeps
  <1> QED
    BY <1>1, <1>2, <1>3, ReportKeeps, MuteKeeps, DownKeeps, UpKeeps DEF Modem
-----------------------------------------------------------------------------
(* What a handler that takes the first message leaves as it was            *)

(* A start or stop that was the last has done what is wanted               *)
LEMMA SessionToldTaken ==
    ASSUME msgs \in Seq(Messages), msgs # <<>>, msgs' = Tail(msgs), SessionTold,
           UNCHANGED wanted,
           Head(msgs) = Wish => AsWanted',
           Head(msgs).type \notin Session /\ AsWanted /\ Without(msgs', Session) => AsWanted'
    PROVE  SessionTold'
  <1>1. CASE LastIs(msgs, Session, {Wish})
    <2>1. Wish' = Wish
      BY DEF Wish
    <2>2. LastIs(msgs', Session, {Wish}) \/ (Head(msgs) \in {Wish} /\ Without(msgs', Session))
      BY <1>1, LastRest
    <2> QED
      BY <2>1, <2>2 DEF SessionTold
  <1>2. CASE Without(msgs, Session) /\ AsWanted
    <2>1. Head(msgs).type \notin Session /\ Without(msgs', Session)
      BY <1>2, WithoutRest
    <2> QED
      BY <1>2, <2>1 DEF SessionTold
  <1> QED
    BY <1>1, <1>2 DEF SessionTold

(* The handler of a stop ends the session and only that of a start begins  *)
(* one                                                                     *)
OnlyStartBegins ==
    /\ Head(msgs).type = "stop" => ~mNavigating'
    /\ Head(msgs).type # "start" => (mNavigating' => mNavigating)

LEMMA StoppedTaken ==
    ASSUME msgs \in Seq(Messages), msgs # <<>>, msgs' = Tail(msgs), OnlyStartBegins,
           NEW i \in 1 .. Len(msgs'), IsStopped(msgs, mNavigating, i + 1)
    PROVE  IsStopped(msgs', mNavigating', i)
  BY StoppedRest DEF OnlyStartBegins

LEMMA StartsTaken ==
    ASSUME msgs \in Seq(Messages), msgs # <<>>, msgs' = Tail(msgs), OnlyStartBegins,
           StartsApart
    PROVE  StartsApart'
  <1> SUFFICES ASSUME NEW i \in 1 .. Len(msgs'), msgs'[i].type = "start"
               PROVE  IsStopped(msgs', mNavigating', i)
    BY DEF StartsApart
  <1>1. i + 1 \in 1 .. Len(msgs) /\ msgs[i + 1].type = "start"
    BY RestShifted, RestOfQueue
  <1>2. IsStopped(msgs, mNavigating, i + 1)
    BY <1>1 DEF StartsApart
  <1> QED
    BY <1>2, StoppedTaken

LEMMA StopsTaken ==
    ASSUME msgs \in Seq(Messages), msgs # <<>>, msgs' = Tail(msgs), OnlyStartBegins,
           UNCHANGED asked, StopsFit
    PROVE  StopsFit'
  <1> SUFFICES ASSUME asked # Unset, NEW i \in 1 .. Len(msgs'), msgs'[i].type = "stop"
               PROVE  \/ IsStopped(msgs', mNavigating', i)
                      \/ \E k \in i + 1 .. Len(msgs') : msgs'[k].type = "mode"
    BY DEF StopsFit
  <1>1. i + 1 \in 1 .. Len(msgs) /\ msgs[i + 1].type = "stop"
    BY RestShifted, RestOfQueue
  <1>2. CASE IsStopped(msgs, mNavigating, i + 1)
    BY <1>2, StoppedTaken
  <1>3. CASE \E k \in (i + 1) + 1 .. Len(msgs) : msgs[k].type = "mode"
    <2>1. PICK k \in (i + 1) + 1 .. Len(msgs) : msgs[k].type = "mode"
      BY <1>3
    <2>2. k \in 2 .. Len(msgs)
      OBVIOUS
    <2>3. k - 1 \in i + 1 .. Len(msgs') /\ msgs'[k - 1] = msgs[k]
      BY <2>2, RestShifted, RestOfQueue
    <2> QED
      BY <2>1, <2>3
  <1> QED
    BY <1>1, <1>2, <1>3 DEF StopsFit

LEMMA OverTaken ==
    ASSUME msgs \in Seq(Messages), msgs # <<>>, msgs' = Tail(msgs), OnlyStartBegins,
           UNCHANGED wanted, NEW i \in 1 .. Len(msgs'), Over(i + 1)
    PROVE  Over(i)'
  <1>1. IsStopped(msgs', mNavigating', i)
    BY StoppedTaken DEF Over
  <1>2. \A k \in i .. Len(msgs') : k \in 1 .. Len(msgs') /\ k + 1 \in i + 1 .. Len(msgs)
    BY RestOfQueue
  <1>3. \A k \in i .. Len(msgs') : msgs'[k].type # "start"
    BY <1>2, RestShifted DEF Over, NoStartFrom
  <1> QED
    BY <1>1, <1>3 DEF Over, NoStartFrom

(* The recurrence of a mode becomes the adapter's                          *)
LEMMA RecurrenceTaken ==
    ASSUME msgs \in Seq(Messages), msgs # <<>>, msgs' = Tail(msgs), OnlyStartBegins,
           UNCHANGED <<wanted, started>>, RecurrenceFits,
           Head(msgs).type # "mode" => mFixCriteria'.recurrence = mFixCriteria.recurrence,
           Head(msgs).type = "mode" => mFixCriteria' = Head(msgs).criteria
    PROVE  RecurrenceFits'
  <1>1. ASSUME NEW i \in 1 .. Len(msgs'), msgs'[i].type = "mode"
        PROVE  \/ msgs'[i].criteria.recurrence = started
               \/ IsReplaced(msgs', started, i)
               \/ Over(i)'
    <2>1. i \in Nat /\ i + 1 \in 1 .. Len(msgs) /\ msgs'[i] = msgs[i + 1]
      BY RestShifted, RestOfQueue
    <2>2. IsReplaced(msgs, started, i + 1) => IsReplaced(msgs', started, i)
      BY <2>1, ReplacedRest
    <2>3. Over(i + 1) => Over(i)'
      BY OverTaken
    <2> QED
      BY <1>1, <2>1, <2>2, <2>3 DEF RecurrenceFits
  <1>2. \/ mFixCriteria'.recurrence = started
        \/ IsReplaced(msgs', started, 0)
        \/ ~wanted /\ ~mNavigating' /\ ~Holds(msgs', "start")
    <2>1. CASE Head(msgs).type = "mode"
      <3>1. 1 \in 1 .. Len(msgs) /\ msgs[1] = Head(msgs) /\ 0 + 1 = 1 /\ 0 \in Nat
        BY RestOfQueue
      <3>2. CASE msgs[1].criteria.recurrence = started
        BY <2>1, <3>1, <3>2
      <3>3. CASE IsReplaced(msgs, started, 1)
        BY <3>1, <3>3, ReplacedRest
      <3>4. CASE Over(1)
        <4>1. \A k \in 1 .. 1 - 1 : FALSE
          OBVIOUS
        <4>2. ~wanted /\ ~mNavigating
          BY <3>4, <4>1 DEF Over, IsStopped
        <4>3. Without(msgs, {"start"})
          BY <3>4 DEF Over, NoStartFrom, Without
        <4>4. ~Holds(msgs', "start")
          BY <4>3, WithoutRest DEF Holds
        <4> QED
          BY <2>1, <4>2, <4>4 DEF OnlyStartBegins
      <3> QED
        BY <2>1, <3>1, <3>2, <3>3, <3>4 DEF RecurrenceFits
    <2>2. CASE Head(msgs).type # "mode"
      <3>1. IsReplaced(msgs, started, 0) => IsReplaced(msgs', started, 0)
        BY <2>2, ReplacedHolds
      <3>2. ~Holds(msgs, "start") => Head(msgs).type # "start" /\ ~Holds(msgs', "start")
        BY WithoutRest DEF Holds
      <3> QED
        BY <2>2, <3>1, <3>2 DEF RecurrenceFits, OnlyStartBegins
    <2> QED
      BY <2>1, <2>2
  <1> QED
    BY <1>1, <1>2 DEF RecurrenceFits

LEMMA CriteriaTaken ==
    ASSUME msgs \in Seq(Messages), msgs # <<>>, msgs' = Tail(msgs), CriteriaFit,
           UNCHANGED <<wanted, asked, started>>,
           asked # Unset /\ HasAsked /\ Without(msgs, {"mode"}) => HasAsked',
           Head(msgs) = Mode(asked) => HasAsked'
    PROVE  CriteriaFit'
  <1> SUFFICES ASSUME asked # Unset
               PROVE  \/ LastIs(msgs', {"mode"}, {Mode(asked)})
                      \/ Without(msgs', {"mode"}) /\ HasAsked'
    BY DEF CriteriaFit
  <1>1. CASE LastIs(msgs, {"mode"}, {Mode(asked)})
    BY <1>1, LastRest
  <1>2. CASE Without(msgs, {"mode"}) /\ HasAsked
    BY <1>2, WithoutRest
  <1> QED
    BY <1>1, <1>2 DEF CriteriaFit

LEMMA ReopenTaken ==
    ASSUME msgs \in Seq(Messages), msgs # <<>>, msgs' = Tail(msgs), WillReopen,
           Head(msgs).type # "ssr", UNCHANGED restarts,
           modem'.open = modem.open, modem'.up = modem.up, modem'.fixing => modem.open
    PROVE  WillReopen'
  <1>1. /\ Before(msgs, "ssr", "up") => Before(msgs', "ssr", "up")
        /\ Holds(msgs', "up") => Holds(msgs, "up")
    BY BeforeRest, WithoutRest DEF Holds
  <1> QED
    BY <1>1 DEF WillReopen

LEMMA EngineTaken ==
    ASSUME msgs \in Seq(Messages), msgs # <<>>, msgs' = Tail(msgs), EngineTold,
           modem'.engine = modem.engine,
           Head(msgs).type \notin Reported /\ OffShown => OffShown',
           Head(msgs) \in {Status("off"), Msg("down")} => OffShown'
    PROVE  EngineTold'
  <1>1. EngineNews' = EngineNews
    BY DEF EngineNews
  <1>2. CASE LastIs(msgs, Reported, EngineNews)
    <2>1. \/ LastIs(msgs', Reported, EngineNews)
          \/ Head(msgs) \in EngineNews /\ Without(msgs', Reported)
      BY <1>2, LastRest
    <2>2. Head(msgs) \in EngineNews => modem.engine \/ OffShown'
      BY DEF EngineNews
    <2> QED
      BY <1>1, <2>1, <2>2 DEF EngineTold
  <1>3. CASE Without(msgs, Reported) /\ (~modem.engine => OffShown)
    <2>1. Head(msgs).type \notin Reported /\ Without(msgs', Reported)
      BY <1>3, WithoutRest
    <2> QED
      BY <1>3, <2>1 DEF EngineTold
  <1> QED
    BY <1>2, <1>3 DEF EngineTold

(* What is left of a queue that holds a type, when the first is of another *)
LEMMA HoldsTaken ==
    ASSUME msgs \in Seq(Messages), msgs # <<>>, msgs' = Tail(msgs), NEW type
    PROVE  Holds(msgs, type) <=> Head(msgs).type = type \/ Holds(msgs', type)
  BY WithoutRest DEF Holds

LEMMA FixingTaken ==
    ASSUME msgs \in Seq(Messages), msgs # <<>>, msgs' = Tail(msgs), FixingFits,
           Head(msgs).type \notin {"start", "up", "mode"},
           UNCHANGED <<wanted, asked, started, mNavigating, refused, restarts>>,
           modem'.up = modem.up, modem'.fixing = modem.fixing,
           modem'.criteria = modem.criteria
    PROVE  FixingFits'
  <1>1. /\ Holds(msgs, "start") <=> Holds(msgs', "start")
        /\ Holds(msgs, "up") <=> Holds(msgs', "up")
        /\ Holds(msgs, "mode") <=> Holds(msgs', "mode")
    BY HoldsTaken
  <1>2. InForce => InForce'
    BY <1>1 DEF InForce, Kept
  <1> QED
    BY <1>1, <1>2 DEF FixingFits
-----------------------------------------------------------------------------
(* The handlers of the MsgTask                                             *)

LEMMA Taken ==
    ASSUME SessionInv, NEW type, Take(type)
    PROVE  /\ msgs \in Seq(Messages) /\ msgs # <<>> /\ msgs' = Tail(msgs)
           /\ Head(msgs) \in Messages /\ Head(msgs).type = type
           /\ modem \in ModemType /\ mFixCriteria \in Criteria
           /\ mNavigating \in BOOLEAN /\ wanted \in BOOLEAN
           /\ WillReopen /\ EngineTold /\ SessionTold /\ StartsApart
           /\ StopsFit /\ RecurrenceFits /\ CriteriaFit /\ FixingFits
  BY TakeType DEF SessionInv, TypeOK, ModemType

(* A handler that has to do with neither the session nor its criteria      *)
LEMMA QuietKeeps ==
    ASSUME SessionInv, NEW type \in {"aiding", "status", "mute", "ssr", "down"}, Take(type),
           UNCHANGED <<wanted, asked, started, mNavigating, mFixCriteria, refused, restarts>>,
           modem'.up = modem.up, modem'.fixing = modem.fixing,
           modem'.criteria = modem.criteria
    PROVE  SessionTold' /\ StartsApart' /\ StopsFit' /\ RecurrenceFits' /\ CriteriaFit' /\ FixingFits'
  <1>1. /\ msgs \in Seq(Messages) /\ msgs # <<>> /\ msgs' = Tail(msgs)
        /\ Head(msgs).type \in {"aiding", "status", "mute", "ssr", "down"}
        /\ SessionTold /\ StartsApart /\ StopsFit /\ RecurrenceFits /\ CriteriaFit /\ FixingFits
    BY Taken
  <1>2. OnlyStartBegins
    BY <1>1 DEF OnlyStartBegins
  <1>3. SessionTold'
    <2>1. AsWanted' = AsWanted
      BY DEF AsWanted
    <2>2. Head(msgs) # Wish
      BY <1>1 DEF Wish, Msg
    <2> QED
      BY <1>1, <2>1, <2>2, SessionToldTaken
  <1>4. StartsApart'
    BY <1>1, <1>2, StartsTaken
  <1>5. StopsFit'
    BY <1>1, <1>2, StopsTaken
  <1>6. RecurrenceFits'
    BY <1>1, <1>2, RecurrenceTaken
  <1>7. CriteriaFit'
    <2>1. HasAsked' = HasAsked
      BY DEF HasAsked, Kept
    <2>2. Head(msgs) # Mode(asked)
      BY <1>1 DEF Mode
    <2> QED
      BY <1>1, <2>1, <2>2, CriteriaTaken
  <1>8. FixingFits'
    BY <1>1, FixingTaken
  <1> QED
    BY <1>3, <1>4, <1>5, <1>6, <1>7, <1>8

LEMMA AidingKeeps ==
    ASSUME SessionInv, TypeOK', LocEngDelAidData
    PROVE  SessionInv'
  <1>1. /\ Take("aiding")
        /\ UNCHANGED <<wanted, asked, started, mNavigating, mFixCriteria, refused, restarts,
                       modem, engine_status, mute_session_state, shown>>
    BY DEF LocEngDelAidData, halVars, sessionVars, statusVars, modemVars
  <1>2. /\ msgs \in Seq(Messages) /\ msgs # <<>> /\ msgs' = Tail(msgs)
        /\ Head(msgs).type = "aiding" /\ modem \in ModemType /\ WillReopen /\ EngineTold
    BY <1>1, Taken
  <1>3. SessionTold' /\ StartsApart' /\ StopsFit' /\ RecurrenceFits' /\ CriteriaFit' /\ FixingFits'
    BY <1>1, QuietKeeps
  <1>4. WillReopen'
    BY <1>1, <1>2, ReopenTaken DEF WillReopen
  <1>5. EngineTold'
    <2>1. Head(msgs) \notin {Status("off"), Msg("down")}
      BY <1>2 DEF Status, Msg
    <2>2. OffShown' = OffShown
      BY <1>1 DEF OffShown
    <2> QED
      BY <1>1, <1>2, <2>1, <2>2, EngineTaken
  <1> QED
    BY <1>3, <1>4, <1>5 DEF SessionInv

LEMMA MuteOneKeeps ==
    ASSUME SessionInv, TypeOK', MuteOneSession
    PROVE  SessionInv'
  <1>1. /\ Take("mute") /\ mute_session_state' = "wait"
        /\ UNCHANGED <<wanted, asked, started, mNavigating, mFixCriteria, refused, restarts,
                       modem, engine_status, shown>>
    BY DEF MuteOneSession, halVars, sessionVars, modemVars
  <1>2. /\ msgs \in Seq(Messages) /\ msgs # <<>> /\ msgs' = Tail(msgs)
        /\ Head(msgs).type = "mute" /\ modem \in ModemType /\ WillReopen /\ EngineTold
    BY <1>1, Taken
  <1>3. SessionTold' /\ StartsApart' /\ StopsFit' /\ RecurrenceFits' /\ CriteriaFit' /\ FixingFits'
    BY <1>1, QuietKeeps
  <1>4. WillReopen'
    BY <1>1, <1>2, ReopenTaken DEF WillReopen
  <1>5. EngineTold'
    <2>1. Head(msgs) \notin {Status("off"), Msg("down")}
      BY <1>2 DEF Status, Msg
    <2>2. OffShown => OffShown'
      BY <1>1 DEF OffShown
    <2> QED
      BY <1>1, <1>2, <2>1, <2>2, EngineTaken
  <1> QED
    BY <1>3, <1>4, <1>5 DEF SessionInv

(* What says that the engine is off ends the mute, and only then shows it  *)
LEMMA OffIsShown ==
    ASSUME TypeOK, loc_eng_report_status("off")
    PROVE  OffShown'
  <1>1. Muting("off") # "in"
    BY DEF Muting
  <1>2. Inform("off", Muting("off")) = [shown EXCEPT !.engine = "off"]
    BY <1>1 DEF Inform
  <1>3. /\ mute_session_state' # "in" /\ shown' = [shown EXCEPT !.engine = "off"]
        /\ engine_status' = "off"
    BY <1>1, <1>2 DEF loc_eng_report_status
  <1>4. shown \in [session : {"none", "begin", "end"}, engine : {"none", "on", "off"}]
    BY DEF TypeOK
  <1> QED
    BY <1>3, <1>4 DEF OffShown
LEMMA StatusKeeps ==
    ASSUME SessionInv, TypeOK', LocEngReportStatus \/ loc_eng_handle_engine_down
    PROVE  SessionInv'
  <1>1. PICK type \in {"status", "down"} :
             /\ Take(type)
             /\ loc_eng_report_status(IF type = "status" THEN Head(msgs).status ELSE "off")
             /\ UNCHANGED <<wanted, asked, started, mNavigating, mFixCriteria, refused, restarts,
                            modem>>
    <2>1. ASSUME LocEngReportStatus
          PROVE  /\ Take("status") /\ loc_eng_report_status(Head(msgs).status)
                 /\ UNCHANGED <<wanted, asked, started, mNavigating, mFixCriteria, refused,
                                restarts, modem>>
      BY <2>1 DEF LocEngReportStatus, halVars, sessionVars, modemVars
    <2>2. ASSUME loc_eng_handle_engine_down
          PROVE  /\ Take("down") /\ loc_eng_report_status("off")
                 /\ UNCHANGED <<wanted, asked, started, mNavigating, mFixCriteria, refused,
                                restarts, modem>>
      BY <2>2 DEF loc_eng_handle_engine_down, halVars, sessionVars, modemVars
    <2> QED
      BY <2>1, <2>2
  <1>2. /\ msgs \in Seq(Messages) /\ msgs # <<>> /\ msgs' = Tail(msgs)
        /\ Head(msgs).type = type /\ modem \in ModemType /\ WillReopen /\ EngineTold
    BY <1>1, Taken
  <1>3. SessionTold' /\ StartsApart' /\ StopsFit' /\ RecurrenceFits' /\ CriteriaFit' /\ FixingFits'
    BY <1>1, QuietKeeps
  <1>4. WillReopen'
    BY <1>1, <1>2, ReopenTaken DEF WillReopen
  <1>5. EngineTold'
    <2>1. ASSUME Head(msgs) \in {Status("off"), Msg("down")} PROVE OffShown'
      <3>1. loc_eng_report_status("off")
        BY <1>1, <1>2, <2>1 DEF Status, Msg
      <3> QED
        BY <3>1, OffIsShown DEF SessionInv
    <2>2. Head(msgs).type \in Reported
      BY <1>1, <1>2 DEF Reported
    <2> QED
      BY <1>1, <1>2, <2>1, <2>2, EngineTaken
  <1> QED
    BY <1>3, <1>4, <1>5 DEF SessionInv

(* A new client is opened for a modem that is up, and no other             *)
LEMMA SsrKeeps ==
    ASSUME SessionInv, TypeOK', LocSsrMsg
    PROVE  SessionInv'
  <1>1. /\ Take("ssr") /\ modem' = [modem EXCEPT !.open = modem.up]
        /\ UNCHANGED <<wanted, asked, started, mNavigating, mFixCriteria, refused, restarts,
                       engine_status, mute_session_state, shown>>
    BY DEF LocSsrMsg, halVars, sessionVars, statusVars
  <1>2. /\ msgs \in Seq(Messages) /\ msgs # <<>> /\ msgs' = Tail(msgs)
        /\ Head(msgs).type = "ssr" /\ modem \in ModemType /\ WillReopen /\ EngineTold
    BY <1>1, Taken
  <1>3. /\ modem'.open = modem.up /\ modem'.up = modem.up /\ modem'.fixing = modem.fixing
        /\ modem'.criteria = modem.criteria /\ modem'.engine = modem.engine
    BY <1>1, <1>2 DEF ModemType
  <1>4. SessionTold' /\ StartsApart' /\ StopsFit' /\ RecurrenceFits' /\ CriteriaFit' /\ FixingFits'
    BY <1>1, <1>3, QuietKeeps
  <1>5. WillReopen'
    <2>1. Holds(msgs', "up") => Holds(msgs, "up")
      BY <1>2, HoldsTaken
    <2> QED
      BY <1>1, <1>2, <1>3, <2>1 DEF WillReopen
  <1>6. EngineTold'
    <2>1. Head(msgs) \notin {Status("off"), Msg("down")}
      BY <1>2 DEF Status, Msg
    <2>2. OffShown' = OffShown
      BY <1>1 DEF OffShown
    <2> QED
      BY <1>2, <1>3, <2>1, <2>2, EngineTaken
  <1> QED
    BY <1>4, <1>5, <1>6 DEF SessionInv

(* Handlers that change no status                                          *)
LEMMA SessionHandlerKeepsEngine ==
    ASSUME SessionInv, NEW type \in {"start", "stop", "mode", "position", "up"}, Take(type),
           modem'.engine = modem.engine, UNCHANGED <<engine_status, mute_session_state, shown>>
    PROVE  EngineTold'
  <1>1. /\ msgs \in Seq(Messages) /\ msgs # <<>> /\ msgs' = Tail(msgs)
        /\ Head(msgs).type = type /\ EngineTold
    BY Taken
  <1>2. Head(msgs) \notin {Status("off"), Msg("down")}
    BY <1>1 DEF Status, Msg
  <1>3. OffShown' = OffShown
    BY DEF OffShown
  <1> QED
    BY <1>1, <1>2, <1>3, EngineTaken

(* The criteria a mode brings are those of the session, in the modem too   *)
LEMMA ModeKeeps ==
    ASSUME SessionInv, TypeOK', LocEngPositionMode
    PROVE  SessionInv'
  <1>1. /\ Take("mode") /\ mFixCriteria' = Head(msgs).criteria
        /\ modem' = IF Reachable THEN [modem EXCEPT !.criteria = mFixCriteria'] ELSE modem
        /\ UNCHANGED <<wanted, asked, started, mNavigating, refused, restarts,
                       engine_status, mute_session_state, shown>>
    BY DEF LocEngPositionMode, halVars, statusVars
  <1>2. /\ msgs \in Seq(Messages) /\ msgs # <<>> /\ msgs' = Tail(msgs)
        /\ Head(msgs) \in Messages /\ Head(msgs).type = "mode" /\ modem \in ModemType
    BY <1>1, Taken
  <1>3. /\ WillReopen /\ SessionTold /\ StartsApart /\ StopsFit /\ RecurrenceFits
        /\ CriteriaFit /\ FixingFits
    BY <1>1, Taken
  <1>4. /\ modem'.open = modem.open /\ modem'.up = modem.up /\ modem'.fixing = modem.fixing
        /\ modem'.engine = modem.engine
        /\ Reachable => modem'.criteria = mFixCriteria'
    BY <1>1, <1>2 DEF ModemType
  <1>5. OnlyStartBegins
    BY <1>1, <1>2 DEF OnlyStartBegins
  <1>6. WillReopen'
    BY <1>1, <1>2, <1>3, <1>4, ReopenTaken DEF WillReopen
  <1>7. EngineTold'
    BY <1>1, <1>4, SessionHandlerKeepsEngine
  <1>8. SessionTold'
    <2>1. AsWanted' = AsWanted
      BY <1>1 DEF AsWanted
    <2>2. Head(msgs) # Wish
      BY <1>2 DEF Wish, Msg
    <2> QED
      BY <1>1, <1>2, <1>3, <2>1, <2>2, SessionToldTaken
  <1>9. StartsApart'
    BY <1>2, <1>3, <1>5, StartsTaken
  <1>10. StopsFit'
    BY <1>1, <1>2, <1>3, <1>5, StopsTaken
  <1>11. RecurrenceFits'
    BY <1>1, <1>2, <1>3, <1>5, RecurrenceTaken
  <1>12. ~Without(msgs, {"mode"})
    BY <1>2, WithoutRest
  <1>13. CriteriaFit'
    <2>1. Head(msgs) = Mode(asked) => HasAsked'
      BY <1>1 DEF HasAsked, Kept, Mode
    <2> QED
      BY <1>1, <1>2, <1>3, <1>12, <2>1, CriteriaTaken
  <1>14. FixingFits'
    <2>1. /\ Holds(msgs, "start") <=> Holds(msgs', "start")
          /\ Holds(msgs, "up") <=> Holds(msgs', "up")
      BY <1>2, HoldsTaken
    <2>2. ASSUME started = "periodic", ~Holds(msgs, "start"), wanted, modem.fixing
          PROVE  InForce'
      <3>1. Reachable /\ modem'.criteria = Head(msgs).criteria
        BY <1>1, <1>3, <1>4, <2>2 DEF WillReopen, Reachable
      <3>2. Head(msgs).criteria.recurrence = "periodic"
        <4>1. 1 \in 1 .. Len(msgs) /\ msgs[1] = Head(msgs) /\ 0 + 1 = 1 /\ 0 \in Nat
          BY <1>2, RestOfQueue
        <4>2. ~IsReplaced(msgs, started, 1)
          BY <2>2 DEF IsReplaced, Holds, Without
        <4>3. ~Over(1)
          BY <2>2 DEF Over
        <4> QED
          BY <1>2, <1>3, <2>2, <4>1, <4>2, <4>3 DEF RecurrenceFits
      <3>3. Holds(msgs', "mode") \/ Kept(Head(msgs).criteria.mode)
        <4>1. LastIs(msgs, {"mode"}, {Mode(asked)})
          BY <1>3, <1>12, <2>2 DEF CriteriaFit
        <4>2. CASE LastIs(msgs', {"mode"}, {Mode(asked)})
          BY <4>2 DEF LastIs, Holds, Without, Mode
        <4>3. CASE Head(msgs) = Mode(asked)
          BY <4>3 DEF Kept, Mode
        <4> QED
          BY <1>2, <4>1, <4>2, <4>3, LastRest
      <3>4. Kept(Head(msgs).criteria.mode) => Kept(modem.criteria.mode)'
        BY <1>1, <3>1 DEF Kept
      <3> QED
        BY <1>4, <2>2, <3>1, <3>2, <3>3, <3>4 DEF InForce
    <2>3. InForce => modem.fixing
      BY DEF InForce
    <2> QED
      BY <1>1, <1>3, <1>4, <2>1, <2>2, <2>3 DEF FixingFits
  <1> QED
    BY <1>6, <1>7, <1>8, <1>9, <1>10, <1>11, <1>13, <1>14 DEF SessionInv
LEMMA StopFixFields ==
    ASSUME modem \in ModemType
    PROVE  /\ stopFix.up = modem.up /\ stopFix.open = modem.open
           /\ stopFix.criteria = modem.criteria /\ stopFix.engine = modem.engine
           /\ stopFix.fixing = (modem.fixing /\ ~Reachable)
  BY DEF stopFix, ModemType

LEMMA EndedSession ==
    ASSUME mFixCriteria \in Criteria, EndSession
    PROVE  /\ mNavigating' = FALSE /\ mFixCriteria'.mode = "INVALID"
           /\ mFixCriteria'.recurrence = mFixCriteria.recurrence
  BY CriteriaFields DEF EndSession

(* While no start is on its way, a session that is on has the recurrence   *)
(* it was started with                                                     *)
LEMMA RecurrenceInForce ==
    ASSUME msgs \in Seq(Messages), msgs # <<>>, RecurrenceFits,
           Without(Tail(msgs), {"start"}),
           wanted \/ (mNavigating /\ Head(msgs).type # "start")
              \/ Head(msgs).type = "start"
    PROVE  mFixCriteria.recurrence = started
  <1>1. ~IsReplaced(msgs, started, 0)
    BY ReplacedHolds
  <1>2. Head(msgs).type = "start" => Holds(msgs, "start")
    BY WithoutRest DEF Holds
  <1> QED
    BY <1>1, <1>2 DEF RecurrenceFits

(* A position ends a session, but for a periodic one                       *)
LEMMA PositionKeeps ==
    ASSUME SessionInv, TypeOK', LocEngReportPosition
    PROVE  SessionInv'
  <1>1. /\ Take("position")
        /\ UNCHANGED <<wanted, asked, started, refused, restarts, engine_status, mute_session_state, shown>>
    BY DEF LocEngReportPosition, halVars, statusVars
  <1>2. \/ mFixCriteria.recurrence = "single" /\ EndSession /\ modem' \in {stopFix, modem}
        \/ UNCHANGED <<modem, mNavigating, mFixCriteria>>
    BY DEF LocEngReportPosition
  <1>3. /\ msgs \in Seq(Messages) /\ msgs # <<>> /\ msgs' = Tail(msgs)
        /\ Head(msgs).type = "position" /\ modem \in ModemType /\ mFixCriteria \in Criteria
        /\ wanted \in BOOLEAN
    BY <1>1, Taken
  <1>4. /\ WillReopen /\ SessionTold /\ StartsApart /\ StopsFit /\ RecurrenceFits
        /\ CriteriaFit /\ FixingFits
    BY <1>1, Taken
  <1>5. /\ modem'.open = modem.open /\ modem'.up = modem.up /\ modem'.engine = modem.engine
        /\ modem'.criteria = modem.criteria /\ (modem'.fixing => modem.fixing)
    BY <1>2, <1>3, StopFixFields
  <1>6. /\ mNavigating' => mNavigating
        /\ mFixCriteria'.recurrence = mFixCriteria.recurrence
    <2>1. CASE EndSession
      BY <1>3, <2>1, EndedSession
    <2>2. CASE UNCHANGED <<modem, mNavigating, mFixCriteria>>
      BY <2>2
    <2> QED
      BY <1>2, <2>1, <2>2
  <1>7. OnlyStartBegins
    BY <1>3, <1>6 DEF OnlyStartBegins
  <1>8. mFixCriteria.recurrence # "single" => UNCHANGED <<modem, mNavigating, mFixCriteria>>
    BY <1>2
  <1>9. /\ Holds(msgs, "start") <=> Holds(msgs', "start")
        /\ Holds(msgs, "up") <=> Holds(msgs', "up")
        /\ Holds(msgs, "mode") <=> Holds(msgs', "mode")
    BY <1>3, HoldsTaken
  <1>10. ASSUME wanted, ~Holds(msgs', "start") PROVE mFixCriteria.recurrence = started
    BY <1>3, <1>4, <1>10, RecurrenceInForce DEF Holds
  <1>11. WillReopen'
    BY <1>1, <1>3, <1>4, <1>5, ReopenTaken DEF WillReopen
  <1>12. EngineTold'
    BY <1>1, <1>5, SessionHandlerKeepsEngine
  <1>13. SessionTold'
    <2>1. ASSUME AsWanted, Without(msgs', Session) PROVE AsWanted'
      <3>1. ~Holds(msgs', "start")
        BY <2>1 DEF Without, Session, Holds
      <3>2. wanted => mFixCriteria.recurrence = started
        BY <1>10, <3>1
      <3>3. wanted /\ started = "periodic" => UNCHANGED mNavigating
        BY <1>8, <3>2
      <3> QED
        BY <1>1, <1>6, <2>1, <3>3 DEF AsWanted
    <2>2. Head(msgs) # Wish
      BY <1>3 DEF Wish, Msg
    <2> QED
      BY <1>1, <1>3, <1>4, <2>1, <2>2, SessionToldTaken
  <1>14. StartsApart'
    BY <1>3, <1>4, <1>7, StartsTaken
  <1>15. StopsFit'
    BY <1>1, <1>3, <1>4, <1>7, StopsTaken
  <1>16. RecurrenceFits'
    BY <1>1, <1>3, <1>4, <1>6, <1>7, RecurrenceTaken
  <1>17. CriteriaFit'
    <2>1. ASSUME HasAsked PROVE HasAsked'
      <3>1. CASE mFixCriteria.recurrence = "single"
        BY <1>1, <1>6, <2>1, <3>1 DEF HasAsked
      <3>2. CASE mFixCriteria.recurrence # "single"
        BY <1>1, <1>8, <2>1, <3>2 DEF HasAsked, Kept
      <3> QED
        BY <3>1, <3>2
    <2>2. Head(msgs) # Mode(asked)
      BY <1>3 DEF Mode
    <2> QED
      BY <1>1, <1>3, <1>4, <2>1, <2>2, CriteriaTaken
  <1>18. FixingFits'
    <2> SUFFICES ASSUME started = "periodic", ~Holds(msgs', "start")
                 PROVE  /\ wanted' /\ mNavigating' /\ ~refused' =>
                              ~modem'.up \/ Holds(msgs', "up") \/ InForce'
                        /\ ~mNavigating' /\ ~refused' => ~modem'.fixing
      BY <1>1 DEF FixingFits
    <2>1. CASE mFixCriteria.recurrence = started
      <3>1. UNCHANGED <<modem, mNavigating, mFixCriteria>>
        BY <1>8, <2>1
      <3>2. InForce => InForce'
        BY <1>1, <1>9, <3>1 DEF InForce, Kept
      <3> QED
        BY <1>1, <1>4, <1>9, <3>1, <3>2 DEF FixingFits
    <2>2. CASE mFixCriteria.recurrence # started
      <3>1. ~wanted /\ ~mNavigating
        BY <1>3, <1>4, <2>2, RecurrenceInForce DEF Holds
      <3> QED
        BY <1>1, <1>4, <1>5, <1>6, <1>9, <3>1 DEF FixingFits
    <2> QED
      BY <2>1, <2>2
  <1> QED
    BY <1>11, <1>12, <1>13, <1>14, <1>15, <1>16, <1>17, <1>18 DEF SessionInv

(* A stop ends the session the adapter is in, and no other                 *)
LEMMA StopKeeps ==
    ASSUME SessionInv, TypeOK', LocEngStopFix
    PROVE  SessionInv'
  <1>1. /\ Take("stop")
        /\ UNCHANGED <<wanted, asked, started, refused, restarts, engine_status, mute_session_state, shown>>
    BY DEF LocEngStopFix, halVars, statusVars
  <1>2. /\ mNavigating => modem' = stopFix /\ EndSession
        /\ ~mNavigating => UNCHANGED <<modem, mNavigating, mFixCriteria>>
    BY DEF LocEngStopFix
  <1>3. /\ msgs \in Seq(Messages) /\ msgs # <<>> /\ msgs' = Tail(msgs)
        /\ Head(msgs).type = "stop" /\ modem \in ModemType /\ mFixCriteria \in Criteria
        /\ mNavigating \in BOOLEAN /\ wanted \in BOOLEAN
    BY <1>1, Taken
  <1>4. /\ WillReopen /\ SessionTold /\ StartsApart /\ StopsFit /\ RecurrenceFits
        /\ CriteriaFit /\ FixingFits
    BY <1>1, Taken
  <1>5. /\ modem'.open = modem.open /\ modem'.up = modem.up /\ modem'.engine = modem.engine
        /\ (modem'.fixing => modem.fixing)
    BY <1>2, <1>3, StopFixFields
  <1>6. ~mNavigating' /\ mFixCriteria'.recurrence = mFixCriteria.recurrence
    <2>1. CASE mNavigating
      BY <1>2, <1>3, <2>1, EndedSession
    <2>2. CASE ~mNavigating
      BY <1>2, <2>2
    <2> QED
      BY <2>1, <2>2
  <1>7. OnlyStartBegins
    BY <1>6 DEF OnlyStartBegins
  <1>11. WillReopen'
    BY <1>1, <1>3, <1>4, <1>5, ReopenTaken DEF WillReopen
  <1>12. EngineTold'
    BY <1>1, <1>5, SessionHandlerKeepsEngine
  <1>13. SessionTold'
    <2>1. ASSUME Head(msgs) = Wish PROVE AsWanted'
      <3>1. ~wanted
        BY <1>3, <2>1 DEF Wish, Msg
      <3> QED
        BY <1>1, <1>6, <3>1 DEF AsWanted
    <2>2. Head(msgs).type \in Session
      BY <1>3 DEF Session
    <2> QED
      BY <1>1, <1>3, <1>4, <2>1, <2>2, SessionToldTaken
  <1>14. StartsApart'
    BY <1>3, <1>4, <1>7, StartsTaken
  <1>15. StopsFit'
    BY <1>1, <1>3, <1>4, <1>7, StopsTaken
  <1>16. RecurrenceFits'
    BY <1>1, <1>3, <1>4, <1>6, <1>7, RecurrenceTaken
  <1>17. CriteriaFit'
    <2>1. ASSUME asked # Unset, HasAsked, Without(msgs, {"mode"}) PROVE HasAsked'
      <3>1. 1 \in 1 .. Len(msgs) /\ msgs[1].type = "stop"
        BY <1>3, RestOfQueue
      <3>2. ~\E k \in 1 + 1 .. Len(msgs) : msgs[k].type = "mode"
        BY <1>3, <2>1 DEF Without
      <3>3. IsStopped(msgs, mNavigating, 1)
        BY <1>4, <2>1, <3>1, <3>2 DEF StopsFit
      <3>4. \A k \in 1 .. 1 - 1 : FALSE
        OBVIOUS
      <3>5. ~mNavigating
        BY <3>3, <3>4 DEF IsStopped
      <3> QED
        BY <1>1, <1>2, <2>1, <3>5 DEF HasAsked, Kept
    <2>2. Head(msgs) # Mode(asked)
      BY <1>3 DEF Mode
    <2> QED
      BY <1>1, <1>3, <1>4, <2>1, <2>2, CriteriaTaken
  <1>18. FixingFits'
    <2> SUFFICES ASSUME started = "periodic", ~Holds(msgs', "start"), ~refused
                 PROVE  ~modem'.fixing
      BY <1>1, <1>6 DEF FixingFits
    <2>1. CASE mNavigating
      <3>1. modem'.fixing => modem.fixing /\ ~Reachable
        BY <1>2, <1>3, <2>1, StopFixFields
      <3> QED
        BY <1>4, <3>1 DEF WillReopen, Reachable
    <2>2. CASE ~mNavigating
      <3>1. ~Holds(msgs, "start")
        BY <1>3, HoldsTaken
      <3> QED
        BY <1>2, <1>4, <2>2, <3>1 DEF FixingFits
    <2> QED
      BY <2>1, <2>2
  <1> QED
    BY <1>11, <1>12, <1>13, <1>14, <1>15, <1>16, <1>17, <1>18 DEF SessionInv

(* A start finds no session and begins one with the criteria asked for     *)
LEMMA TakeStartKeeps ==
    ASSUME SessionInv, TypeOK', LocEngStartFix
    PROVE  SessionInv'
  <1>1. /\ Take("start")
        /\ UNCHANGED <<wanted, asked, started, restarts, engine_status, mute_session_state, shown>>
    BY DEF LocEngStartFix, halVars, statusVars
  <1>3. /\ msgs \in Seq(Messages) /\ msgs # <<>> /\ msgs' = Tail(msgs)
        /\ Head(msgs).type = "start" /\ modem \in ModemType /\ mFixCriteria \in Criteria
        /\ mNavigating \in BOOLEAN /\ wanted \in BOOLEAN
    BY <1>1, Taken
  <1>4. /\ WillReopen /\ SessionTold /\ StartsApart /\ StopsFit /\ RecurrenceFits
        /\ CriteriaFit /\ FixingFits
    BY <1>1, Taken
  <1>2. ~mNavigating
    <2>1. 1 \in 1 .. Len(msgs) /\ msgs[1].type = "start"
      BY <1>3, RestOfQueue
    <2>2. IsStopped(msgs, mNavigating, 1)
      BY <1>4, <2>1 DEF StartsApart
    <2>3. \A k \in 1 .. 1 - 1 : FALSE
      OBVIOUS
    <2> QED
      BY <2>2, <2>3 DEF IsStopped
  <1>5. loc_eng_start_handler(mFixCriteria)
    BY <1>2 DEF LocEngStartFix
  <1>6. /\ mFixCriteria' = mFixCriteria /\ refused' \in BOOLEAN
        /\ mNavigating' \in BOOLEAN /\ (~refused' => mNavigating')
        /\ modem'.open = modem.open /\ modem'.up = modem.up /\ modem'.engine = modem.engine
        /\ modem'.fixing => Reachable \/ modem.fixing
        /\ Reachable /\ ~refused' => modem'.fixing /\ modem'.criteria = mFixCriteria
    BY <1>3, <1>5, StartHandled
  <1>7. OnlyStartBegins
    BY <1>3 DEF OnlyStartBegins
  <1>11. WillReopen'
    <2>1. modem'.fixing => modem.open
      BY <1>4, <1>6 DEF WillReopen, Reachable
    <2> QED
      BY <1>1, <1>3, <1>4, <1>6, <2>1, ReopenTaken
  <1>12. EngineTold'
    BY <1>1, <1>6, SessionHandlerKeepsEngine
  <1>13. SessionTold'
    <2>1. ASSUME Head(msgs) = Wish PROVE AsWanted'
      <3>1. wanted
        BY <1>3, <2>1 DEF Wish, Msg
      <3> QED
        BY <1>1, <1>6, <3>1 DEF AsWanted
    <2>2. Head(msgs).type \in Session
      BY <1>3 DEF Session
    <2> QED
      BY <1>1, <1>3, <1>4, <2>1, <2>2, SessionToldTaken
  <1>14. StartsApart'
    BY <1>3, <1>4, <1>7, StartsTaken
  <1>15. StopsFit'
    BY <1>1, <1>3, <1>4, <1>7, StopsTaken
  <1>16. RecurrenceFits'
    BY <1>1, <1>3, <1>4, <1>6, <1>7, RecurrenceTaken
  <1>17. CriteriaFit'
    <2>1. HasAsked' = HasAsked
      BY <1>1, <1>6 DEF HasAsked, Kept
    <2>2. Head(msgs) # Mode(asked)
      BY <1>3 DEF Mode
    <2> QED
      BY <1>1, <1>3, <1>4, <2>1, <2>2, CriteriaTaken
  <1>18. FixingFits'
    <2> SUFFICES ASSUME started = "periodic", ~Holds(msgs', "start"), wanted, mNavigating',
                        ~refused', modem.up, ~Holds(msgs', "up")
                 PROVE  InForce'
      BY <1>1, <1>6 DEF FixingFits
    <2>1. Reachable
      <3>1. Before(msgs, "ssr", "up") => Holds(msgs', "up")
        BY <1>3, BeforeRest DEF Holds
      <3> QED
        BY <1>4, <3>1 DEF WillReopen, Reachable
    <2>2. modem'.fixing /\ modem'.criteria = mFixCriteria
      BY <1>6, <2>1
    <2>3. mFixCriteria.recurrence = "periodic"
      BY <1>3, <1>4, RecurrenceInForce DEF Holds
    <2>4. Holds(msgs', "mode") \/ Kept(mFixCriteria.mode)
      <3>1. asked # Unset /\ asked.recurrence = "periodic"
        BY <1>4 DEF CriteriaFit
      <3>2. CASE LastIs(msgs, {"mode"}, {Mode(asked)})
        <4>1. Holds(msgs, "mode")
          BY <3>2 DEF LastIs, Holds, Without, Mode
        <4> QED
          BY <1>3, <4>1, HoldsTaken
      <3>3. CASE HasAsked
        BY <3>1, <3>3 DEF HasAsked
      <3> QED
        BY <1>4, <3>1, <3>2, <3>3 DEF CriteriaFit
    <2>5. Kept(mFixCriteria.mode) => Kept(modem.criteria.mode)'
      BY <1>1, <2>2 DEF Kept
    <2> QED
      BY <2>2, <2>3, <2>4, <2>5 DEF InForce
  <1> QED
    BY <1>11, <1>12, <1>13, <1>14, <1>15, <1>16, <1>17, <1>18 DEF SessionInv
(* An engine that comes up is given the session the adapter is in          *)
LEMMA TakeUpKeeps ==
    ASSUME SessionInv, TypeOK', loc_eng_handle_engine_up
    PROVE  SessionInv'
  <1>1. /\ Take("up")
        /\ UNCHANGED <<wanted, asked, started, restarts, engine_status, mute_session_state, shown>>
    BY DEF loc_eng_handle_engine_up, halVars, statusVars
  <1>2. /\ mNavigating => loc_eng_start_handler([mFixCriteria EXCEPT !.mode = "INVALID"])
        /\ ~mNavigating => UNCHANGED <<mNavigating, mFixCriteria, refused, modem>>
    BY DEF loc_eng_handle_engine_up, sessionVars
  <1>3. /\ msgs \in Seq(Messages) /\ msgs # <<>> /\ msgs' = Tail(msgs)
        /\ Head(msgs).type = "up" /\ modem \in ModemType /\ mFixCriteria \in Criteria
        /\ mNavigating \in BOOLEAN /\ wanted \in BOOLEAN
    BY <1>1, Taken
  <1>4. /\ WillReopen /\ SessionTold /\ StartsApart /\ StopsFit /\ RecurrenceFits
        /\ CriteriaFit /\ FixingFits
    BY <1>1, Taken
  <1>5. restarts # 0
    BY <1>3, <1>4, HoldsTaken DEF WillReopen
  <1>6. ASSUME mNavigating
        PROVE  /\ mFixCriteria'.mode = "INVALID"
               /\ mFixCriteria'.recurrence = mFixCriteria.recurrence
               /\ refused' \in BOOLEAN
               /\ mNavigating' \in BOOLEAN /\ (~refused' => mNavigating')
               /\ modem'.open = modem.open /\ modem'.up = modem.up
               /\ modem'.engine = modem.engine
               /\ modem'.fixing => Reachable \/ modem.fixing
               /\ Reachable /\ ~refused' => modem'.fixing /\ modem'.criteria = mFixCriteria'
    <2>1. loc_eng_start_handler([mFixCriteria EXCEPT !.mode = "INVALID"])
      BY <1>2, <1>6
    <2>2. mFixCriteria' = [mFixCriteria EXCEPT !.mode = "INVALID"]
      BY <1>3, <2>1, StartHandled
    <2> QED
      BY <1>3, <2>1, <2>2, StartHandled, CriteriaFields
  <1>7. /\ modem'.open = modem.open /\ modem'.up = modem.up /\ modem'.engine = modem.engine
        /\ mFixCriteria'.recurrence = mFixCriteria.recurrence
        /\ ~mNavigating => ~mNavigating'
    <2>1. CASE mNavigating
      BY <1>6, <2>1
    <2>2. CASE ~mNavigating
      BY <1>2, <2>2
    <2> QED
      BY <2>1, <2>2
  <1>8. OnlyStartBegins
    BY <1>3, <1>7 DEF OnlyStartBegins
  <1>9. /\ Holds(msgs, "start") <=> Holds(msgs', "start")
        /\ Holds(msgs, "mode") <=> Holds(msgs', "mode")
    BY <1>3, HoldsTaken
  <1>10. modem'.up => modem.up /\ (Reachable \/ Holds(msgs', "up"))
    <2>1. Before(msgs, "ssr", "up") => Holds(msgs', "up")
      BY <1>3, BeforeRest DEF Holds
    <2> QED
      BY <1>4, <1>7, <2>1 DEF WillReopen, Reachable
  <1>11. WillReopen'
    <2>1. modem'.fixing => modem.open
      <3>1. CASE mNavigating
        BY <1>4, <1>6, <3>1 DEF WillReopen, Reachable
      <3>2. CASE ~mNavigating
        BY <1>2, <1>4, <3>2 DEF WillReopen
      <3> QED
        BY <3>1, <3>2
    <2> QED
      BY <1>1, <1>3, <1>4, <1>7, <2>1, ReopenTaken
  <1>12. EngineTold'
    BY <1>1, <1>7, SessionHandlerKeepsEngine
  <1>13. SessionTold'
    <2>1. ASSUME AsWanted PROVE AsWanted'
      <3>1. CASE mNavigating
        BY <1>1, <1>6, <2>1, <3>1 DEF AsWanted
      <3>2. CASE ~mNavigating
        BY <1>1, <1>2, <2>1, <3>2 DEF AsWanted
      <3> QED
        BY <3>1, <3>2
    <2>2. Head(msgs) # Wish
      BY <1>3 DEF Wish, Msg
    <2> QED
      BY <1>1, <1>3, <1>4, <2>1, <2>2, SessionToldTaken
  <1>14. StartsApart'
    BY <1>3, <1>4, <1>8, StartsTaken
  <1>15. StopsFit'
    BY <1>1, <1>3, <1>4, <1>8, StopsTaken
  <1>16. RecurrenceFits'
    BY <1>1, <1>3, <1>4, <1>7, <1>8, RecurrenceTaken
  <1>17. CriteriaFit'
    <2>1. ASSUME HasAsked PROVE HasAsked'
      <3>1. CASE mNavigating
        BY <1>1, <1>5, <1>6, <2>1, <3>1 DEF HasAsked, Kept
      <3>2. CASE ~mNavigating
        BY <1>1, <1>2, <2>1, <3>2 DEF HasAsked, Kept
      <3> QED
        BY <3>1, <3>2
    <2>2. Head(msgs) # Mode(asked)
      BY <1>3 DEF Mode
    <2> QED
      BY <1>1, <1>3, <1>4, <2>1, <2>2, CriteriaTaken
  <1>18. FixingFits'
    <2>1. CASE ~mNavigating
      <3>1. UNCHANGED <<mNavigating, refused, modem>>
        BY <1>2, <2>1
      <3> QED
        BY <1>1, <1>4, <1>9, <2>1, <3>1 DEF FixingFits
    <2>2. CASE mNavigating
      <3> SUFFICES ASSUME started = "periodic", ~Holds(msgs', "start"), wanted, mNavigating',
                          ~refused', modem.up, ~Holds(msgs', "up")
                   PROVE  InForce'
        BY <1>1, <1>6, <1>7, <2>2 DEF FixingFits
      <3>1. modem'.fixing /\ modem'.criteria = mFixCriteria'
        BY <1>6, <1>7, <1>10, <2>2
      <3>2. mFixCriteria.recurrence = "periodic"
        BY <1>3, <1>4, RecurrenceInForce DEF Holds
      <3>3. Kept(modem.criteria.mode)'
        BY <1>1, <1>5, <1>6, <2>2, <3>1 DEF Kept
      <3> QED
        BY <1>7, <3>1, <3>2, <3>3 DEF InForce
    <2> QED
      BY <2>1, <2>2
  <1> QED
    BY <1>11, <1>12, <1>13, <1>14, <1>15, <1>16, <1>17, <1>18 DEF SessionInv

LEMMA MsgTaskKeeps ==
    ASSUME SessionInv, MsgTask
    PROVE  SessionInv'
  <1>1. TypeOK'
    BY MsgTaskType DEF SessionInv
  <1> QED
    BY <1>1, TakeStartKeeps, StopKeeps, ModeKeeps, AidingKeeps, PositionKeeps, StatusKeeps,
       MuteOneKeeps, SsrKeeps, TakeUpKeeps DEF MsgTask

-----------------------------------------------------------------------------
(* The theorems                                                            *)

LEMMA SessionBegins == Init => SessionInv
  <1> SUFFICES ASSUME Init PROVE SessionInv
    OBVIOUS
  <1>1. \A types : Without(msgs, types)
    BY DEF Init, Without
  <1>2. \A i : i \notin 1 .. Len(msgs)
    BY DEF Init
  <1>3. TypeOK
    <2>1. msgs \in Seq(Messages)
      BY DEF Init
    <2>2. /\ asked \in Criteria /\ mFixCriteria \in Criteria
          /\ calls \in 0 .. MaxCalls /\ reports \in 0 .. MaxReports
          /\ restarts \in 0 .. MaxRestarts
      BY LocEngAssumption, CriteriaFields DEF Init
    <2>3. modem \in ModemType
      BY CriteriaFields DEF Init, ModemType
    <2> QED
      BY <2>1, <2>2, <2>3 DEF Init, TypeOK, ModemType, Fates
  <1>4. WillReopen
    BY <1>1 DEF Init, WillReopen, Holds
  <1>5. EngineTold
    BY <1>1 DEF Init, EngineTold, OffShown
  <1>6. SessionTold
    BY <1>1 DEF Init, SessionTold, AsWanted
  <1>7. StartsApart /\ StopsFit
    BY <1>2 DEF StartsApart, StopsFit
  <1>8. RecurrenceFits
    BY <1>2 DEF Init, RecurrenceFits, Unset
  <1>9. CriteriaFit
    BY DEF Init, CriteriaFit
  <1>10. FixingFits
    BY DEF Init, FixingFits
  <1> QED
    BY <1>3, <1>4, <1>5, <1>6, <1>7, <1>8, <1>9, <1>10 DEF SessionInv

LEMMA SessionKept == SessionInv /\ [Next]_vars => SessionInv'
  <1> SUFFICES ASSUME SessionInv, [Next]_vars PROVE SessionInv'
    OBVIOUS
  <1>1. CASE Next
    BY <1>1, FrameworkKeeps, MsgTaskKeeps, ModemKeeps DEF Next
  <1>2. CASE UNCHANGED vars
    <2>1. UNCHANGED <<wanted, asked, started, calls, msgs, mNavigating, mFixCriteria, refused>>
      BY <1>2 DEF vars, halVars, sessionVars
    <2>2. UNCHANGED <<engine_status, fix_session_status, mute_session_state, shown,
                      aiding_data_for_deletion, deletion, modem, reports, restarts>>
      BY <1>2 DEF vars, statusVars, aidingVars, modemVars
    <2> QED
      BY <2>1, <2>2
         DEF SessionInv, TypeOK, WillReopen, EngineTold, SessionTold, StartsApart, StopsFit,
             RecurrenceFits, CriteriaFit, FixingFits, OffShown, EngineNews, Wish, AsWanted,
             Over, Kept, HasAsked, InForce
  <1> QED
    BY <1>1, <1>2

LEMMA SessionAlways == Spec => []SessionInv
  BY SessionBegins, SessionKept, PTL DEF Spec

LEMMA SettledHolds ==
    ASSUME msgs = <<>>
    PROVE  /\ \A types : Without(msgs, types)
           /\ \A types, last : ~LastIs(msgs, types, last)
           /\ \A recurrence : ~IsReplaced(msgs, recurrence, 0)
  BY DEF Without, LastIs, IsReplaced

(* For any interleaving of calls, reports and restarts: once every message  *)
(* is handled, a periodic session is on in the modem just when the         *)
(* framework wants it, no session is muted that is over, and no session    *)
(* is left begun that the modem does not have.                             *)
THEOREM SessionsFollowWishes == Spec => []SessionFollowsWish
  <1>1. SessionInv => SessionFollowsWish
    <2> SUFFICES ASSUME SessionInv PROVE SessionFollowsWish
      OBVIOUS
    <2>1. ASSUME Settled, ~modem.engine PROVE OffShown
      BY <2>1, SettledHolds DEF Settled, SessionInv, EngineTold
    <2>2. MuteEndsWithSession /\ NotStranded
      BY <2>1 DEF MuteEndsWithSession, NotStranded, OffShown
    <2>3. ASSUME Settled, started = "periodic", ~refused PROVE modem.fixing <=> wanted
      <3>1. AsWanted /\ ~Holds(msgs, "start") /\ ~Holds(msgs, "up") /\ modem.up
        BY <2>3, SettledHolds DEF Settled, SessionInv, SessionTold, Holds, Reachable
      <3>2. FixingFits /\ wanted \in BOOLEAN /\ mNavigating \in BOOLEAN
        BY DEF SessionInv, TypeOK
      <3> QED
        BY <2>3, <3>1, <3>2 DEF AsWanted, FixingFits, InForce
    <2> QED
      BY <2>2, <2>3 DEF SessionFollowsWish, SessionInv
  <1> QED
    BY <1>1, SessionAlways, PTL

(* The session the modem is then in is the one that was asked for, but for *)
(* the mode after a restart.                                               *)
THEOREM CriteriaAreInForce == Spec => []CriteriaInForce
  <1>1. SessionInv => CriteriaInForce
    <2> SUFFICES ASSUME SessionInv, Settled, wanted, started = "periodic", ~refused
                 PROVE  /\ modem.criteria.recurrence = "periodic"
                        /\ modem.criteria.mode \in
                              {asked.mode} \cup (IF restarts = 0 THEN {} ELSE {"INVALID"})
      BY DEF CriteriaInForce
    <2>1. /\ AsWanted /\ ~Holds(msgs, "start") /\ ~Holds(msgs, "up") /\ ~Holds(msgs, "mode")
          /\ modem.up /\ FixingFits
      BY SettledHolds DEF Settled, SessionInv, SessionTold, Holds, Reachable
    <2>2. InForce
      BY <2>1 DEF AsWanted, FixingFits
    <2>3. modem.criteria.recurrence = "periodic" /\ Kept(modem.criteria.mode)
      BY <2>1, <2>2 DEF InForce
    <2> QED
      BY <2>3 DEF Kept
  <1> QED
    BY <1>1, SessionAlways, PTL

-----------------------------------------------------------------------------
(* The aiding data: what the framework asked for is in a message, or waits  *)
(* in the field while the engine is on                                     *)

IsAsked(q, d) == \E i \in 1 .. Len(q) : q[i].type = "aiding" /\ d \in q[i].data

AidingFits ==
    \A d \in Aiding :
        /\ deletion[d] = "asked" => IsAsked(msgs, d)
        /\ deletion[d] = "waiting" => engine_status = "on"
        /\ d \in Due => d \in aiding_data_for_deletion

(* A message that is sent leaves those before it, and one that is taken    *)
(* those behind it                                                         *)
LEMMA AskedSent ==
    ASSUME NEW q \in Seq(Messages), NEW t \in Seq(Messages), NEW d,
           IsAsked(q, d) \/ IsAsked(t, d)
    PROVE  IsAsked(q \o t, d)
  <1>1. CASE IsAsked(q, d)
    BY <1>1, AfterQueue DEF IsAsked
  <1>2. CASE IsAsked(t, d)
    <2>1. PICK j \in 1 .. Len(t) : t[j].type = "aiding" /\ d \in t[j].data
      BY <1>2 DEF IsAsked
    <2>2. (q \o t)[Len(q) + j] = t[j] /\ Len(q) + j \in 1 .. Len(q \o t)
      BY AfterQueue
    <2> QED
      BY <2>1, <2>2 DEF IsAsked
  <1> QED
    BY <1>1, <1>2

LEMMA AskedRest ==
    ASSUME NEW q \in Seq(Messages), q # <<>>, NEW d, IsAsked(q, d)
    PROVE  \/ IsAsked(Tail(q), d)
           \/ Head(q).type = "aiding" /\ d \in Head(q).data
  <1>1. PICK i \in 1 .. Len(q) : q[i].type = "aiding" /\ d \in q[i].data
    BY DEF IsAsked
  <1>2. CASE i = 1
    BY <1>1, <1>2, RestOfQueue
  <1>3. CASE i \in 2 .. Len(q)
    <2>1. i - 1 \in 1 .. Len(Tail(q)) /\ Tail(q)[i - 1] = q[i]
      BY <1>3, RestShifted
    <2> QED
      BY <1>1, <2>1 DEF IsAsked
  <1> QED
    BY <1>2, <1>3

(* Who only sends, and asks for nothing                                    *)
LEMMA SendingFits ==
    ASSUME TypeOK, AidingFits, NEW t \in Seq(Messages), msgs' = msgs \o t,
           UNCHANGED <<deletion, aiding_data_for_deletion, engine_status>>
    PROVE  AidingFits'
  <1>1. \A d \in Aiding : IsAsked(msgs, d) => IsAsked(msgs', d)
    BY AskedSent DEF TypeOK
  <1> QED
    BY <1>1 DEF AidingFits, Due

LEMMA AskingFits ==
    ASSUME TypeOK, AidingFits, loc_eng_delete_aiding_data
    PROVE  AidingFits'
  <1>1. PICK f \in Masks :
            /\ msgs' = msgs \o <<DelAidData(f)>>
            /\ deletion' = [d \in Aiding |-> IF d \in f THEN "asked" ELSE deletion[d]]
    BY DEF loc_eng_delete_aiding_data, Call
  <1>2. UNCHANGED <<aiding_data_for_deletion, engine_status>>
    BY DEF loc_eng_delete_aiding_data, Call, statusVars
  <1>3. <<DelAidData(f)>> \in Seq(Messages) /\ msgs \in Seq(Messages)
    BY Made, OneSent DEF TypeOK
  <1>4. ASSUME NEW d \in f PROVE IsAsked(<<DelAidData(f)>>, d)
    <2>1. Len(<<DelAidData(f)>>) = 1 /\ <<DelAidData(f)>>[1] = DelAidData(f)
      OBVIOUS
    <2> QED
      BY <1>4, <2>1 DEF IsAsked, DelAidData
  <1>5. ASSUME NEW d \in Aiding, deletion'[d] = "asked" PROVE IsAsked(msgs', d)
    <2>1. d \in f \/ deletion[d] = "asked"
      BY <1>1, <1>5
    <2> QED
      BY <1>1, <1>3, <1>4, <2>1, AskedSent DEF AidingFits
  <1>6. \A d \in Aiding : deletion'[d] \in {"waiting", "left"} => deletion'[d] = deletion[d]
    BY <1>1
  <1> QED
    BY <1>2, <1>5, <1>6 DEF AidingFits, Due

(* Who takes a message that asks for nothing, and deletes nothing          *)
LEMMA TakingFits ==
    ASSUME TypeOK, AidingFits, NEW type, Take(type), type # "aiding",
           UNCHANGED <<aidingVars, engine_status>>
    PROVE  AidingFits'
  <1>1. /\ msgs \in Seq(Messages) /\ msgs # <<>> /\ msgs' = Tail(msgs)
        /\ Head(msgs).type # "aiding"
    BY TakeType
  <1>2. \A d \in Aiding : IsAsked(msgs, d) => IsAsked(msgs', d)
    BY <1>1, AskedRest
  <1> QED
    BY <1>2 DEF AidingFits, Due, aidingVars

(* Whoever updates the field leaves in it what waits                       *)
LEMMA UpdateFits ==
    ASSUME NEW status, NEW data, NEW fate \in [Aiding -> Fates],
           update_aiding_data_for_deletion(status, data, fate),
           \A d \in Aiding : fate[d] \in {"waiting", "left"} => d \in data
    PROVE  /\ \A d \in Aiding : deletion'[d] \in {"waiting", "left"} =>
                 status = "on" /\ d \in aiding_data_for_deletion'
           /\ \A d \in Aiding : deletion'[d] = "asked" => fate[d] = "asked"
  BY DEF update_aiding_data_for_deletion, Fates

LEMMA DelAidDataFits ==
    ASSUME TypeOK, AidingFits, LocEngDelAidData
    PROVE  AidingFits'
  <1> DEFINE data == Head(msgs).data
             fate == [d \in Aiding |-> IF d \in data THEN "waiting"
                                      ELSE IF d \in Due THEN "replaced" ELSE deletion[d]]
  <1>1. /\ Take("aiding") /\ UNCHANGED engine_status
        /\ update_aiding_data_for_deletion(engine_status, data, fate)
    BY DEF LocEngDelAidData, statusVars
  <1>2. fate \in [Aiding -> Fates]
    BY DEF TypeOK, Fates
  <1>3. \A d \in Aiding : fate[d] \in {"waiting", "left"} => d \in data
    BY DEF Due
  <1>4. \A d \in Aiding : fate[d] = "asked" => deletion[d] = "asked" /\ d \notin data
    OBVIOUS
  <1> HIDE DEF fate, data
  <1>5. /\ \A d \in Aiding : deletion'[d] \in {"waiting", "left"} =>
              engine_status = "on" /\ d \in aiding_data_for_deletion'
        /\ \A d \in Aiding : deletion'[d] = "asked" => deletion[d] = "asked" /\ d \notin data
    BY <1>1, <1>2, <1>3, <1>4, UpdateFits
  <1>6. \A d \in Aiding : IsAsked(msgs, d) /\ d \notin data => IsAsked(msgs', d)
    BY <1>1, AskedRest, TakeType DEF data
  <1> QED
    BY <1>1, <1>5, <1>6 DEF AidingFits, Due

LEMMA StatusFits ==
    ASSUME TypeOK, AidingFits, LocEngReportStatus
    PROVE  AidingFits'
  <1>1. /\ Take("status")
        /\ update_aiding_data_for_deletion(engine_status', aiding_data_for_deletion, deletion)
    BY DEF LocEngReportStatus
  <1>2. deletion \in [Aiding -> Fates]
    BY DEF TypeOK
  <1>3. /\ \A d \in Aiding : deletion'[d] \in {"waiting", "left"} =>
              engine_status' = "on" /\ d \in aiding_data_for_deletion'
        /\ \A d \in Aiding : deletion'[d] = "asked" => deletion[d] = "asked"
    <2>1. \A d \in Aiding : deletion[d] \in {"waiting", "left"} => d \in aiding_data_for_deletion
      BY DEF AidingFits, Due
    <2> QED
      BY <1>1, <1>2, <2>1, UpdateFits
  <1>4. \A d \in Aiding : IsAsked(msgs, d) => IsAsked(msgs', d)
    <2>1. /\ msgs \in Seq(Messages) /\ msgs # <<>> /\ msgs' = Tail(msgs)
          /\ Head(msgs).type = "status"
      BY <1>1, TakeType
    <2> QED
      BY <2>1, AskedRest
  <1> QED
    BY <1>3, <1>4 DEF AidingFits, Due

LEMMA DownFits ==
    ASSUME TypeOK, AidingFits, loc_eng_handle_engine_down
    PROVE  AidingFits'
  <1>1. /\ Take("down") /\ UNCHANGED aiding_data_for_deletion
        /\ deletion' = [d \in Aiding |->
                           IF deletion[d] = "waiting" THEN "left" ELSE deletion[d]]
    BY DEF loc_eng_handle_engine_down
  <1>2. \A d \in Aiding : IsAsked(msgs, d) => IsAsked(msgs', d)
    <2>1. /\ msgs \in Seq(Messages) /\ msgs # <<>> /\ msgs' = Tail(msgs)
          /\ Head(msgs).type = "down"
      BY <1>1, TakeType
    <2> QED
      BY <2>1, AskedRest
  <1>3. \A d \in Aiding : /\ deletion'[d] # "waiting"
                          /\ deletion'[d] = "asked" => deletion[d] = "asked"
                          /\ deletion'[d] = "left" => deletion[d] \in {"waiting", "left"}
    BY <1>1
  <1> QED
    BY <1>1, <1>2, <1>3 DEF AidingFits, Due

LEMMA AidingKept == SessionInv /\ AidingFits /\ [Next]_vars => AidingFits'
  <1> SUFFICES ASSUME SessionInv, AidingFits, [Next]_vars PROVE AidingFits'
    OBVIOUS
  <1>1. TypeOK
    BY DEF SessionInv
  <1>2. CASE Framework
    <2>1. ASSUME NEW sent \in Seq(Messages), CallKeepsAiding(sent) PROVE AidingFits'
      BY <1>1, <2>1, SendingFits DEF CallKeepsAiding, Call, statusVars
    <2>2. /\ <<Msg("start")>> \in Seq(Messages) /\ <<Msg("stop")>> \in Seq(Messages)
          /\ \A c \in Criteria : <<Mode(c)>> \in Seq(Messages)
      BY Made, OneSent
    <2>3. CASE loc_eng_set_position_mode
      <3>1. PICK c \in [mode : Modes, recurrence : Recurrences] : CallKeepsAiding(<<Mode(c)>>)
        BY <2>3 DEF loc_eng_set_position_mode
      <3> QED
        BY <2>1, <2>2, <3>1, CriteriaFields
    <2>4. CASE loc_eng_start \/ loc_eng_stop
      BY <2>1, <2>2, <2>4 DEF loc_eng_start, loc_eng_stop
    <2>5. CASE loc_eng_cleanup
      BY <2>1, <2>2, <2>5, NoneSent DEF loc_eng_cleanup
    <2> QED
      BY <1>1, <1>2, <2>3, <2>4, <2>5, AskingFits DEF Framework
  <1>3. CASE MsgTask
    <2> USE DEF statusVars
    <2>1. CASE LocEngStartFix \/ LocEngStopFix \/ LocEngPositionMode
      BY <1>1, <2>1, TakingFits DEF LocEngStartFix, LocEngStopFix, LocEngPositionMode
    <2>2. CASE LocEngReportPosition \/ MuteOneSession \/ LocSsrMsg
      BY <1>1, <2>2, TakingFits DEF LocEngReportPosition, MuteOneSession, LocSsrMsg
    <2>3. CASE loc_eng_handle_engine_up
      BY <1>1, <2>3, TakingFits DEF loc_eng_handle_engine_up
    <2> QED
      BY <1>1, <1>3, <2>1, <2>2, <2>3, DelAidDataFits, StatusFits, DownFits DEF MsgTask
  <1>4. CASE Modem
    <2>1. ASSUME NEW sent \in Seq(Messages), Send(sent) PROVE AidingFits'
      BY <1>1, <2>1, SendingFits DEF Send, statusVars, aidingVars
    <2>2. /\ \A type \in {"mute", "down"} : <<Msg(type)>> \in Seq(Messages)
          /\ \A k \in Kinds : <<Position(k)>> \in Seq(Messages)
          /\ <<Msg("ssr"), Msg("up")>> \in Seq(Messages)
          /\ <<Status("begin"), Status("on")>> \in Seq(Messages)
          /\ <<Status("end"), Status("off")>> \in Seq(Messages)
      BY Made, OneSent, TwoSent
    <2> QED
      BY <1>4, <2>1, <2>2 DEF Modem, ModemOn, ModemOff, ModemReport, ModemMute,
         handleEngineDownEvent, handleEngineUpEvent
  <1>5. CASE UNCHANGED vars
    BY <1>5 DEF vars, statusVars, aidingVars, AidingFits, Due
  <1> QED
    BY <1>2, <1>3, <1>4, <1>5 DEF Next

(* For any calls, statuses and restarts: when every message is handled and *)
(* the engine is off, no aiding data the framework asked for waits any     *)
(* more, and what a restart left is still there for the next status        *)
(* (update_aiding_data_for_deletion(), loc_eng_handle_engine_down())        *)
THEOREM AidingDataDeleted == Spec => []AidingDeleted
  <1>1. Init => AidingFits
    BY DEF Init, AidingFits, Due
  <1>2. SessionInv /\ AidingFits => AidingDeleted
    <2> SUFFICES ASSUME SessionInv, AidingFits, Settled, ~modem.engine, NEW d \in Aiding
                 PROVE  /\ deletion[d] \notin {"asked", "waiting"}
                        /\ deletion[d] = "left" => d \in aiding_data_for_deletion
      BY DEF AidingDeleted
    <2>1. OffShown
      BY SettledHolds DEF Settled, SessionInv, EngineTold
    <2>2. ~IsAsked(msgs, d)
      BY DEF Settled, IsAsked
    <2> QED
      BY <2>1, <2>2 DEF OffShown, AidingFits, Due
  <1> QED
    BY <1>1, <1>2, AidingKept, SessionAlways, PTL DEF Spec
=============================================================================
