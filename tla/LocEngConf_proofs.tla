-------------------------- MODULE LocEngConf_proofs ---------------------------
(***************************************************************************)
(* Proofs about what the location engine has the modem remember: for any    *)
(* settings, servers and values, any number of calls and restarts, the      *)
(* modem ends with the settings of the framework, its lock and its reports  *)
(***************************************************************************)
EXTENDS LocEngConf, FiniteSetTheorems, TLAPS

-----------------------------------------------------------------------------
(* What a queue of messages leaves behind                                  *)

(* m is a message of the kind of k, and for a setting of the same setting   *)
About(m, k) == m.type = k.type /\ (k.type = "set" => m.setting = k.setting)

(* No message of q is about that, or the last one that is, is k            *)
Silent(q, k) == \A i \in 1 .. Len(q) : ~About(q[i], k)
Ends(q, k) == \E i \in 1 .. Len(q) : q[i] = k /\ \A j \in i + 1 .. Len(q) : ~About(q[j], k)

Holds(q, type) == \E i \in 1 .. Len(q) : q[i].type = type
Before(q, first, second) ==
    \E i, j \in 1 .. Len(q) : i < j /\ q[i].type = first /\ q[j].type = second

-----------------------------------------------------------------------------
(* The inductive invariant                                                 *)

WantedLock == IF mPowerVote THEN 0 ELSE GPS_LOCK

(* The MsgTask and the modem are at rest until loc_init()                  *)
BeforeInit ==
    ~adapter =>
        /\ msgs = <<>> /\ outgoing = <<>> /\ holding = <<>>
        /\ behind = Settings \cup {"LOCK"}
        /\ modem.up /\ modem.settings = [s \in Settings |-> 0]
        /\ ~agps_status_cb /\ ~gnss_measurement_cb

(* A client the modem has lost is on its way, with the settings after it   *)
WillReopen ==
    /\ modem.open => modem.up
    /\ adapter /\ modem.up /\ ~modem.open =>
          \/ Before(msgs, "ssr", "up")
          \/ msgs # <<>> /\ Head(msgs).type = "open"

(* What is held was read from a copy that did not change since             *)
HoldingFresh ==
    \A s \in Settings, v \in AllValues :
        holding = <<Set(s, v)>> /\ s \notin behind => v = copy[s]

(* A copy of a server has lost what was given only at the first loc_init(), *)
(* and until it is set again                                               *)
GivenFits ==
    \A s \in Servers : copy[s] = given[s] \/ (adapter /\ copy[s] = 0 /\ s \in behind)

(* Nobody sends a server that was not set                                  *)
ServersUnset ==
    \A s \in Servers :
        copy[s] = 0 => /\ modem.settings[s] = 0
                       /\ Silent(msgs, Set(s, 0))
                       /\ \A v \in AllValues : holding # <<Set(s, v)>>

(* The copy of s will be read and sent, or was read, and is sent after      *)
(* everything in msgs                                                      *)
Coming(s) ==
    \/ ~modem.up \/ Holds(msgs, "up")
    \/ Holds(msgs, "init") /\ s \notin Servers
    \/ \E i \in 1 .. Len(outgoing) : outgoing[i] = s
    \/ holding = <<Set(s, copy[s])>>

Fits(s) ==
    \/ Coming(s)
    \/ Ends(msgs, Set(s, copy[s]))
    \/ Silent(msgs, Set(s, copy[s])) /\ modem.settings[s] = copy[s]

SettingsFit ==
    \A s \in Settings : Promised(s) /\ (s \in Servers => copy[s] # 0) => Fits(s)

(* The lock that comes with the engine is followed by the framework's      *)
LockAfterInit(q) ==
    \A i \in 1 .. Len(q) : q[i].type = "init" =>
        \E j \in i + 1 .. Len(q) : q[j].type = "lock"

InitLocked ==
    /\ LockAfterInit(msgs)
    /\ (\E i \in 1 .. Len(outgoing) : outgoing[i] = "LOCK") => Holds(msgs, "lock")

LockFits ==
    "LOCK" \notin behind =>
        \/ Ends(msgs, Lock(WantedLock))
        \/ Silent(msgs, Lock(WantedLock)) /\ modem.lock = WantedLock

MeasuresFit ==
    gnss_measurement_cb =>
        \/ Ends(msgs, Registration(TRUE))
        \/ Silent(msgs, Registration(TRUE)) /\ (Reachable => modem.measures)

ConfInv ==
    /\ TypeOK /\ BeforeInit /\ WillReopen /\ HoldingFresh /\ ServersUnset
    /\ SettingsFit /\ InitLocked /\ LockFits /\ MeasuresFit

-----------------------------------------------------------------------------
(* The queue                                                               *)

(* What is said of two queues, one sent after the other                    *)
LEMMA AfterQueue ==
    ASSUME NEW S, NEW q \in Seq(S), NEW t \in Seq(S)
    PROVE  /\ q \o t \in Seq(S) /\ Len(q \o t) = Len(q) + Len(t)
           /\ \A i \in 1 .. Len(q) : (q \o t)[i] = q[i]
           /\ \A i \in 1 .. Len(t) : (q \o t)[Len(q) + i] = t[i]
           /\ \A i \in 1 .. Len(q \o t) :
                 i \in 1 .. Len(q) \/ i - Len(q) \in 1 .. Len(t)
  OBVIOUS

LEMMA SilentAfter ==
    ASSUME NEW S, NEW q \in Seq(S), NEW t \in Seq(S), NEW k, Silent(q, k), Silent(t, k)
    PROVE  Silent(q \o t, k)
  <1> SUFFICES ASSUME NEW i \in 1 .. Len(q \o t) PROVE ~About((q \o t)[i], k)
    BY DEF Silent
  <1>1. CASE i \in 1 .. Len(q)
    BY <1>1, AfterQueue DEF Silent
  <1>2. CASE i - Len(q) \in 1 .. Len(t)
    <2>1. (q \o t)[Len(q) + (i - Len(q))] = t[i - Len(q)]
      BY <1>2, AfterQueue
    <2>2. Len(q) + (i - Len(q)) = i
      OBVIOUS
    <2> QED
      BY <1>2, <2>1, <2>2 DEF Silent
  <1> QED
    BY <1>1, <1>2, AfterQueue

LEMMA EndsAfter ==
    ASSUME NEW S, NEW q \in Seq(S), NEW t \in Seq(S), NEW k,
           Ends(t, k) \/ (Ends(q, k) /\ Silent(t, k))
    PROVE  Ends(q \o t, k)
  <1>1. CASE Ends(t, k)
    <2>1. PICK i \in 1 .. Len(t) : t[i] = k /\ \A j \in i + 1 .. Len(t) : ~About(t[j], k)
      BY <1>1 DEF Ends
    <2>2. Len(q) + i \in 1 .. Len(q \o t) /\ (q \o t)[Len(q) + i] = k
      BY <2>1, AfterQueue
    <2>3. ASSUME NEW j \in Len(q) + i + 1 .. Len(q \o t) PROVE ~About((q \o t)[j], k)
      <3>1. j - Len(q) \in i + 1 .. Len(t) /\ Len(q) + (j - Len(q)) = j
        BY AfterQueue
      <3>2. j - Len(q) \in 1 .. Len(t)
        BY <3>1
      <3>3. (q \o t)[Len(q) + (j - Len(q))] = t[j - Len(q)]
        BY <3>2, AfterQueue
      <3> QED
        BY <2>1, <3>1, <3>3
    <2> QED
      BY <2>2, <2>3 DEF Ends
  <1>2. CASE Ends(q, k) /\ Silent(t, k)
    <2>1. PICK i \in 1 .. Len(q) : q[i] = k /\ \A j \in i + 1 .. Len(q) : ~About(q[j], k)
      BY <1>2 DEF Ends
    <2>2. i \in 1 .. Len(q \o t) /\ (q \o t)[i] = k
      BY <2>1, AfterQueue
    <2>3. ASSUME NEW j \in i + 1 .. Len(q \o t) PROVE ~About((q \o t)[j], k)
      <3>1. CASE j \in 1 .. Len(q)
        BY <2>1, <3>1, AfterQueue
      <3>2. CASE j - Len(q) \in 1 .. Len(t)
        <4>1. (q \o t)[Len(q) + (j - Len(q))] = t[j - Len(q)] /\ Len(q) + (j - Len(q)) = j
          BY <3>2, AfterQueue
        <4> QED
          BY <1>2, <3>2, <4>1 DEF Silent
      <3>3. j \in 1 .. Len(q \o t)
        OBVIOUS
      <3> QED
        BY <3>1, <3>2, <3>3, AfterQueue
    <2> QED
      BY <2>2, <2>3 DEF Ends
  <1> QED
    BY <1>1, <1>2

LEMMA HoldsAfter ==
    ASSUME NEW S, NEW q \in Seq(S), NEW t \in Seq(S), NEW type
    PROVE  Holds(q \o t, type) <=> Holds(q, type) \/ Holds(t, type)
  <1>1. ASSUME Holds(q, type) PROVE Holds(q \o t, type)
    <2>1. PICK i \in 1 .. Len(q) : q[i].type = type
      BY <1>1 DEF Holds
    <2>2. i \in 1 .. Len(q \o t) /\ (q \o t)[i] = q[i]
      BY AfterQueue
    <2> QED
      BY <2>1, <2>2 DEF Holds
  <1>2. ASSUME Holds(t, type) PROVE Holds(q \o t, type)
    <2>1. PICK i \in 1 .. Len(t) : t[i].type = type
      BY <1>2 DEF Holds
    <2>2. Len(q) + i \in 1 .. Len(q \o t) /\ (q \o t)[Len(q) + i] = t[i]
      BY AfterQueue
    <2> QED
      BY <2>1, <2>2 DEF Holds
  <1>3. ASSUME Holds(q \o t, type) PROVE Holds(q, type) \/ Holds(t, type)
    <2>1. PICK i \in 1 .. Len(q \o t) : (q \o t)[i].type = type
      BY <1>3 DEF Holds
    <2>2. CASE i \in 1 .. Len(q)
      BY <2>1, <2>2, AfterQueue DEF Holds
    <2>3. CASE i - Len(q) \in 1 .. Len(t)
      <3>1. (q \o t)[Len(q) + (i - Len(q))] = t[i - Len(q)] /\ Len(q) + (i - Len(q)) = i
        BY <2>3, AfterQueue
      <3> QED
        BY <2>1, <2>3, <3>1 DEF Holds
    <2> QED
      BY <2>2, <2>3, AfterQueue
  <1> QED
    BY <1>1, <1>2, <1>3

LEMMA BeforeAfter ==
    ASSUME NEW S, NEW q \in Seq(S), NEW t \in Seq(S), NEW first, NEW second,
           Before(q, first, second) \/ Before(t, first, second)
    PROVE  Before(q \o t, first, second)
  <1>1. CASE Before(q, first, second)
    <2>1. PICK i \in 1 .. Len(q), j \in 1 .. Len(q) :
               i < j /\ q[i].type = first /\ q[j].type = second
      BY <1>1 DEF Before
    <2>2. /\ i \in 1 .. Len(q \o t) /\ (q \o t)[i] = q[i]
          /\ j \in 1 .. Len(q \o t) /\ (q \o t)[j] = q[j]
      BY AfterQueue
    <2> QED
      BY <2>1, <2>2 DEF Before
  <1>2. CASE Before(t, first, second)
    <2>1. PICK i \in 1 .. Len(t), j \in 1 .. Len(t) :
               i < j /\ t[i].type = first /\ t[j].type = second
      BY <1>2 DEF Before
    <2>2. /\ Len(q) + i \in 1 .. Len(q \o t) /\ (q \o t)[Len(q) + i] = t[i]
          /\ Len(q) + j \in 1 .. Len(q \o t) /\ (q \o t)[Len(q) + j] = t[j]
      BY AfterQueue
    <2>3. Len(q) + i < Len(q) + j
      BY <2>1
    <2> QED
      BY <2>1, <2>2, <2>3 DEF Before
  <1> QED
    BY <1>1, <1>2

LEMMA LocksAfter ==
    ASSUME NEW S, NEW q \in Seq(S), NEW t \in Seq(S), LockAfterInit(q), ~Holds(t, "init")
    PROVE  LockAfterInit(q \o t)
  <1> SUFFICES ASSUME NEW i \in 1 .. Len(q \o t), (q \o t)[i].type = "init"
               PROVE  \E j \in i + 1 .. Len(q \o t) : (q \o t)[j].type = "lock"
    BY DEF LockAfterInit
  <1>1. CASE i \in 1 .. Len(q)
    <2>1. PICK j \in i + 1 .. Len(q) : q[j].type = "lock"
      BY <1>1, AfterQueue DEF LockAfterInit
    <2>2. j \in 1 .. Len(q) /\ j \in i + 1 .. Len(q \o t)
      BY <2>1, AfterQueue
    <2> QED
      BY <2>1, <2>2, AfterQueue
  <1>2. CASE i - Len(q) \in 1 .. Len(t)
    <2>1. (q \o t)[Len(q) + (i - Len(q))] = t[i - Len(q)]
      BY <1>2, AfterQueue
    <2>2. Len(q) + (i - Len(q)) = i
      OBVIOUS
    <2> QED
      BY <1>2, <2>1, <2>2 DEF Holds
  <1> QED
    BY <1>1, <1>2, AfterQueue

(* What is left when the first message was taken                           *)
LEMMA RestOfQueue ==
    ASSUME NEW S, NEW q \in Seq(S), q # <<>>
    PROVE  /\ Tail(q) \in Seq(S) /\ Len(q) \in Nat \ {0} /\ Len(Tail(q)) = Len(q) - 1
           /\ Head(q) = q[1] /\ Head(q) \in S
           /\ \A i \in 1 .. Len(q) - 1 : Tail(q)[i] = q[i + 1]
  OBVIOUS

LEMMA SilentRest ==
    ASSUME NEW S, NEW q \in Seq(S), q # <<>>, NEW k, Silent(q, k)
    PROVE  Silent(Tail(q), k) /\ ~About(Head(q), k)
  <1>1. \A i \in 1 .. Len(Tail(q)) : i + 1 \in 1 .. Len(q) /\ Tail(q)[i] = q[i + 1]
    BY RestOfQueue
  <1>2. 1 \in 1 .. Len(q)
    BY RestOfQueue
  <1> QED
    BY <1>1, <1>2, RestOfQueue DEF Silent

LEMMA EndsRest ==
    ASSUME NEW S, NEW q \in Seq(S), q # <<>>, NEW k, Ends(q, k)
    PROVE  Ends(Tail(q), k) \/ (Head(q) = k /\ Silent(Tail(q), k))
  <1>1. PICK i \in 1 .. Len(q) : q[i] = k /\ \A j \in i + 1 .. Len(q) : ~About(q[j], k)
    BY DEF Ends
  <1>2. CASE i = 1
    <2>1. \A j \in 1 .. Len(Tail(q)) : j + 1 \in i + 1 .. Len(q) /\ Tail(q)[j] = q[j + 1]
      BY <1>2, RestOfQueue
    <2> QED
      BY <1>1, <1>2, <2>1, RestOfQueue DEF Silent
  <1>3. CASE i # 1
    <2>1. /\ i - 1 \in 1 .. Len(Tail(q)) /\ (i - 1) + 1 = i
          /\ i - 1 \in 1 .. Len(q) - 1
      BY <1>3, RestOfQueue
    <2>2. Tail(q)[i - 1] = k
      BY <1>1, <2>1, RestOfQueue
    <2>3. \A j \in (i - 1) + 1 .. Len(Tail(q)) :
             j + 1 \in i + 1 .. Len(q) /\ j \in 1 .. Len(q) - 1
      BY <2>1, RestOfQueue
    <2>4. \A j \in (i - 1) + 1 .. Len(Tail(q)) : ~About(Tail(q)[j], k)
      BY <1>1, <2>3, RestOfQueue
    <2> QED
      BY <2>1, <2>2, <2>4 DEF Ends
  <1> QED
    BY <1>2, <1>3

LEMMA HoldsRest ==
    ASSUME NEW S, NEW q \in Seq(S), q # <<>>, NEW type, Holds(q, type), Head(q).type # type
    PROVE  Holds(Tail(q), type)
  <1>1. PICK i \in 1 .. Len(q) : q[i].type = type
    BY DEF Holds
  <1>2. i # 1
    BY <1>1, RestOfQueue
  <1>3. /\ i - 1 \in 1 .. Len(Tail(q)) /\ (i - 1) + 1 = i
        /\ i - 1 \in 1 .. Len(q) - 1
    BY <1>2, RestOfQueue
  <1>4. Tail(q)[i - 1] = q[i]
    BY <1>3, RestOfQueue
  <1> QED
    BY <1>1, <1>3, <1>4 DEF Holds

LEMMA BeforeRest ==
    ASSUME NEW S, NEW q \in Seq(S), q # <<>>, NEW first, NEW second,
           Before(q, first, second)
    PROVE  /\ Holds(Tail(q), second)
           /\ Head(q).type # first => Before(Tail(q), first, second)
  <1>1. PICK i \in 1 .. Len(q), j \in 1 .. Len(q) :
             i < j /\ q[i].type = first /\ q[j].type = second
    BY DEF Before
  <1>2. /\ j - 1 \in 1 .. Len(Tail(q)) /\ (j - 1) + 1 = j
        /\ j - 1 \in 1 .. Len(q) - 1
    BY <1>1, RestOfQueue
  <1>3. Tail(q)[j - 1] = q[j]
    BY <1>2, RestOfQueue
  <1>4. ASSUME Head(q).type # first PROVE Before(Tail(q), first, second)
    <2>1. i # 1
      BY <1>1, <1>4, RestOfQueue
    <2>2. /\ i - 1 \in 1 .. Len(Tail(q)) /\ (i - 1) + 1 = i
          /\ i - 1 \in 1 .. Len(q) - 1 /\ i - 1 < j - 1
      BY <1>1, <2>1, RestOfQueue
    <2>3. Tail(q)[i - 1] = q[i]
      BY <2>2, RestOfQueue
    <2> QED
      BY <1>1, <1>2, <1>3, <2>2, <2>3 DEF Before
  <1> QED
    BY <1>1, <1>2, <1>3, <1>4 DEF Holds

-----------------------------------------------------------------------------
(* Settings as sequences, and messages                                     *)

LEMMA SetToSeqCovers ==
    ASSUME NEW S, IsFiniteSet(S)
    PROVE  /\ SetToSeq(S) \in Seq(S)
           /\ \A s \in S : \E i \in 1 .. Len(SetToSeq(S)) : SetToSeq(S)[i] = s
           /\ \A i, j \in 1 .. Len(SetToSeq(S)) : SetToSeq(S)[i] = SetToSeq(S)[j] => i = j
  <1> DEFINE n == Cardinality(S)
             f == SetToSeq(S)
  <1>1. n \in Nat /\ ExistsBijection(1 .. n, S)
    BY FS_CardinalityType
  <1>2. \E g \in [1 .. n -> S] : IsInjective(g)
    BY <1>1 DEF ExistsBijection, Bijection, Injection, Surjection, IsInjective
  <1>3. f \in [1 .. n -> S] /\ IsInjective(f)
    BY <1>2 DEF SetToSeq
  <1>4. f \in Injection(1 .. n, S)
    BY <1>3 DEF Injection, IsInjective
  <1>5. Cardinality(1 .. n) = n
    BY <1>1, FS_Interval
  <1>6. f \in Surjection(1 .. n, S)
    BY <1>4, <1>5, FS_Injection
  <1>7. f \in Seq(S) /\ Len(f) = n
    BY <1>1, <1>3
  <1> QED
    BY <1>3, <1>6, <1>7 DEF Surjection, IsInjective

LEMMA SetToSeqSet ==
    ASSUME NEW S, IsFiniteSet(S)
    PROVE  ToSet(SetToSeq(S)) = S
  <1> DEFINE q == SetToSeq(S)
  <1>1. q \in Seq(S) /\ \A s \in S : \E i \in 1 .. Len(q) : q[i] = s
    BY SetToSeqCovers
  <1> HIDE DEF q
  <1>2. DOMAIN q = 1 .. Len(q) /\ \A i \in 1 .. Len(q) : q[i] \in S
    BY <1>1
  <1>3. ToSet(q) = {q[i] : i \in 1 .. Len(q)}
    BY <1>2 DEF ToSet
  <1>4. {q[i] : i \in 1 .. Len(q)} = S
    BY <1>1, <1>2
  <1> QED
    BY <1>3, <1>4 DEF q

LEMMA SettingsFinite ==
    /\ IsFiniteSet(Updated \cup Fixed) /\ IsFiniteSet(Servers)
    /\ \A S \in SUBSET Updated : IsFiniteSet(S)
    /\ \A S \in SUBSET Servers : IsFiniteSet(S)
  BY LocEngConfAssumption, FS_Union, FS_Subset

(* What the handlers send again is all of what they are for                *)
LEMMA ReinitCovers ==
    /\ Reinit \in Seq(Settings) /\ AgpsReinit \in Seq(Settings)
    /\ \A s \in Settings \ Servers : \E i \in 1 .. Len(Reinit) : Reinit[i] = s
    /\ \A s \in Servers : \E i \in 1 .. Len(AgpsReinit) : AgpsReinit[i] = s
  <1> DEFINE files == SetToSeq(Updated \cup Fixed)
             servers == SetToSeq(Servers)
  <1>1. /\ files \in Seq(Updated \cup Fixed)
        /\ \A s \in Updated \cup Fixed : \E i \in 1 .. Len(files) : files[i] = s
    BY SettingsFinite, SetToSeqCovers
  <1>2. /\ servers \in Seq(Servers)
        /\ \A s \in Servers : \E i \in 1 .. Len(servers) : servers[i] = s
    BY SettingsFinite, SetToSeqCovers
  <1>3. files \in Seq(Settings) /\ servers \in Seq(Settings)
    BY <1>1, <1>2 DEF Settings
  <1> HIDE DEF files, servers
  <1>4. /\ files \o <<"DATA">> \in Seq(Settings)
        /\ Len(files \o <<"DATA">>) = Len(files) + 1
        /\ (files \o <<"DATA">>)[Len(files) + 1] = "DATA"
        /\ \A i \in 1 .. Len(files) : (files \o <<"DATA">>)[i] = files[i]
    BY <1>3 DEF Settings
  <1>5. \A s \in Updated \cup Fixed :
           \E i \in 1 .. Len(files \o <<"DATA">>) : (files \o <<"DATA">>)[i] = s
    BY <1>1, <1>3, <1>4
  <1>6. \E i \in 1 .. Len(files \o <<"DATA">>) : (files \o <<"DATA">>)[i] = "DATA"
    BY <1>3, <1>4
  <1>7. Reinit = files \o <<"DATA">> /\ AgpsReinit = servers
    BY DEF Reinit, AgpsReinit, files, servers
  <1> QED
    BY <1>2, <1>3, <1>4, <1>5, <1>6, <1>7 DEF Settings

LEMMA MessageTypes ==
    /\ \A s \in Settings, v \in AllValues : Set(s, v) \in Messages
    /\ \A v \in Locks \cup {0, 1} : Lock(v) \in Messages
    /\ \A on \in BOOLEAN : Registration(on) \in Messages
    /\ \A type \in {"open", "init", "ssr", "up"} : Msg(type) \in Messages
  BY DEF Messages, Set, Lock, Registration, Msg

LEMMA MessageFields ==
    ASSUME NEW m \in Messages
    PROVE  /\ m.type = "set" => m.setting \in Settings /\ m.value \in AllValues
           /\ m.type = "lock" => m.value \in Locks \cup {0, 1}
           /\ m.type = "registration" => m.on \in BOOLEAN
  BY DEF Messages

LEMMA Kinds ==
    /\ \A s, v : Set(s, v).type = "set" /\ Set(s, v).setting = s /\ Set(s, v).value = v
    /\ \A v : Lock(v).type = "lock" /\ Lock(v).value = v
    /\ \A on : Registration(on).type = "registration" /\ Registration(on).on = on
    /\ \A type : Msg(type).type = type
  BY DEF Set, Lock, Registration, Msg

LEMMA AboutKinds ==
    /\ \A m, s, v : About(m, Set(s, v)) <=> m.type = "set" /\ m.setting = s
    /\ \A m, v : About(m, Lock(v)) <=> m.type = "lock"
    /\ \A m, on : About(m, Registration(on)) <=> m.type = "registration"
  BY Kinds DEF About

(* Silence does not depend on the value                                    *)
LEMMA SilentKinds ==
    /\ \A q, s, v, w : Silent(q, Set(s, v)) => Silent(q, Set(s, w))
    /\ \A q, v, w : Silent(q, Lock(v)) => Silent(q, Lock(w))
  BY AboutKinds DEF Silent

(* A queue is silent of a lock if it holds none, and ends with none then    *)
LEMMA LockHeld ==
    /\ \A q, v : Holds(q, "lock") <=> ~Silent(q, Lock(v))
    /\ \A q, k : Ends(q, k) => Holds(q, k.type)
  BY AboutKinds DEF Silent, Ends, Holds

(* One message                                                             *)
LEMMA OneMessage ==
    ASSUME NEW m \in Messages
    PROVE  /\ <<m>> \in Seq(Messages)
           /\ Ends(<<m>>, m)
           /\ \A k : ~About(m, k) => Silent(<<m>>, k)
           /\ \A type : Holds(<<m>>, type) <=> m.type = type
           /\ \A q \in Seq(Messages) : Append(q, m) = q \o <<m>>
  <1>1. <<m>> \in Seq(Messages) /\ Len(<<m>>) = 1 /\ <<m>>[1] = m
    OBVIOUS
  <1>2. 1 \in 1 .. 1 /\ \A i \in 1 .. 1 : i = 1
    OBVIOUS
  <1>3. \A j \in 1 + 1 .. 1 : FALSE
    OBVIOUS
  <1> QED
    BY <1>1, <1>2, <1>3 DEF Ends, Silent, Holds

-----------------------------------------------------------------------------
(* The calls of the framework.  A call sends some messages, and what it    *)
(* sends is about what it changes                                          *)

SettingSent(s, sent) ==
    \/ /\ Silent(sent, Set(s, 0)) /\ copy'[s] = copy[s]
       /\ s \notin behind' => s \notin behind
       /\ agps_status_cb' = agps_status_cb \/ s \notin Servers \/ copy[s] = 0
    \/ /\ Ends(sent, Set(s, copy'[s]))
       /\ \A v \in AllValues : holding = <<Set(s, v)>> => s \in behind'
       /\ s \in Servers => copy'[s] # 0
    \/ Silent(sent, Set(s, 0)) /\ s \in behind' /\ s \notin Servers

LockSent(sent) ==
    \/ /\ Silent(sent, Lock(0)) /\ WantedLock' = WantedLock
       /\ "LOCK" \notin behind' => "LOCK" \notin behind
    \/ Ends(sent, Lock(WantedLock'))

MeasuresSent(sent) ==
    \/ Silent(sent, Registration(TRUE)) /\ gnss_measurement_cb' = gnss_measurement_cb
    \/ Ends(sent, Registration(TRUE))
    \/ ~gnss_measurement_cb'

Sends(sent) ==
    /\ sent \in Seq(Messages) /\ msgs' = msgs \o sent
    /\ \A s \in Settings : SettingSent(s, sent)
    /\ LockSent(sent) /\ MeasuresSent(sent)
    /\ ~Holds(sent, "init")

ComingNext(s) ==
    \/ ~modem'.up \/ Holds(msgs', "up")
    \/ Holds(msgs', "init") /\ s \notin Servers
    \/ \E i \in 1 .. Len(outgoing') : outgoing'[i] = s
    \/ holding' = <<Set(s, copy'[s])>>

LEMMA FitsNext ==
    ASSUME NEW s \in Settings,
           \/ ComingNext(s)
           \/ Ends(msgs', Set(s, copy'[s]))
           \/ Silent(msgs', Set(s, 0)) /\ modem'.settings[s] = copy'[s]
    PROVE  Fits(s)'
  <1>1. Silent(msgs', Set(s, 0)) => Silent(msgs', Set(s, copy'[s]))
    BY SilentKinds
  <1> QED
    BY <1>1 DEF Fits, Coming, ComingNext, Ends, Silent, Holds, About, Set

LEMMA SettingSentKeeps ==
    ASSUME ConfInv, UNCHANGED <<outgoing, holding, modem>>, NEW sent, Sends(sent),
           NEW s \in Settings
    PROVE  /\ Promised(s)' /\ (s \in Servers => copy'[s] # 0) => Fits(s)'
           /\ \A v \in AllValues : holding' = <<Set(s, v)>> /\ s \notin behind' => v = copy'[s]
           /\ s \in Servers /\ copy'[s] = 0 =>
                /\ modem'.settings[s] = 0 /\ Silent(msgs', Set(s, 0))
                /\ \A v \in AllValues : holding' # <<Set(s, v)>>
  <1>0. /\ msgs \in Seq(Messages) /\ sent \in Seq(Messages) /\ msgs' = msgs \o sent
        /\ SettingSent(s, sent) /\ copy[s] \in AllValues
    BY DEF ConfInv, TypeOK, Sends
  <1>1. CASE /\ Silent(sent, Set(s, 0)) /\ copy'[s] = copy[s]
             /\ s \notin behind' => s \notin behind
             /\ agps_status_cb' = agps_status_cb \/ s \notin Servers \/ copy[s] = 0
    <2>1. \A v \in AllValues : holding' = <<Set(s, v)>> /\ s \notin behind' => v = copy'[s]
      BY <1>1 DEF ConfInv, HoldingFresh
    <2>2. ASSUME s \in Servers, copy'[s] = 0
          PROVE  /\ modem'.settings[s] = 0 /\ Silent(msgs', Set(s, 0))
                 /\ \A v \in AllValues : holding' # <<Set(s, v)>>
      <3>1. /\ modem.settings[s] = 0 /\ Silent(msgs, Set(s, 0))
            /\ \A v \in AllValues : holding # <<Set(s, v)>>
        BY <1>1, <2>2 DEF ConfInv, ServersUnset
      <3> QED
        BY <1>0, <1>1, <3>1, SilentAfter
    <2>3. ASSUME Promised(s)', s \in Servers => copy'[s] # 0
          PROVE  Fits(s)'
      <3>1. Fits(s)
        BY <1>1, <2>3 DEF ConfInv, SettingsFit, Promised
      <3>2. CASE Coming(s)
        <4>1. ComingNext(s)
          BY <1>0, <1>1, <3>2, HoldsAfter DEF Coming, ComingNext
        <4> QED
          BY <4>1, FitsNext
      <3>3. CASE Ends(msgs, Set(s, copy[s]))
        <4>1. Silent(sent, Set(s, copy[s]))
          BY <1>1, SilentKinds
        <4>2. Ends(msgs', Set(s, copy'[s]))
          BY <1>0, <1>1, <3>3, <4>1, EndsAfter
        <4> QED
          BY <4>2, FitsNext
      <3>4. CASE Silent(msgs, Set(s, copy[s])) /\ modem.settings[s] = copy[s]
        <4>1. Silent(msgs, Set(s, 0))
          BY <3>4, SilentKinds
        <4>2. Silent(msgs', Set(s, 0))
          BY <1>0, <1>1, <4>1, SilentAfter
        <4> QED
          BY <1>1, <3>4, <4>2, FitsNext
      <3> QED
        BY <3>1, <3>2, <3>3, <3>4 DEF Fits
    <2> QED
      BY <2>1, <2>2, <2>3
  <1>2. CASE /\ Ends(sent, Set(s, copy'[s]))
             /\ \A v \in AllValues : holding = <<Set(s, v)>> => s \in behind'
             /\ s \in Servers => copy'[s] # 0
    <2>1. Ends(msgs', Set(s, copy'[s]))
      BY <1>0, <1>2, EndsAfter
    <2>2. Fits(s)'
      BY <2>1, FitsNext
    <2> QED
      BY <1>2, <2>2
  <1>3. CASE Silent(sent, Set(s, 0)) /\ s \in behind' /\ s \notin Servers
    BY <1>3 DEF Promised
  <1> QED
    BY <1>0, <1>1, <1>2, <1>3 DEF SettingSent

LEMMA SendingKeeps ==
    ASSUME ConfInv, TypeOK', adapter, adapter', UNCHANGED <<outgoing, holding, modem>>,
           NEW sent, Sends(sent)
    PROVE  ConfInv'
  <1>0. msgs \in Seq(Messages) /\ sent \in Seq(Messages) /\ msgs' = msgs \o sent
    BY DEF ConfInv, TypeOK, Sends
  <1>1. SettingsFit' /\ HoldingFresh' /\ ServersUnset'
    <2>1. \A s \in Settings :
             /\ Promised(s)' /\ (s \in Servers => copy'[s] # 0) => Fits(s)'
             /\ \A v \in AllValues : holding' = <<Set(s, v)>> /\ s \notin behind' => v = copy'[s]
             /\ s \in Servers /\ copy'[s] = 0 =>
                  /\ modem'.settings[s] = 0 /\ Silent(msgs', Set(s, 0))
                  /\ \A v \in AllValues : holding' # <<Set(s, v)>>
      BY SettingSentKeeps
    <2>2. Servers \subseteq Settings
      BY DEF Settings
    <2> QED
      BY <2>1, <2>2 DEF SettingsFit, HoldingFresh, ServersUnset
  <1>2. BeforeInit'
    BY DEF BeforeInit
  <1>3. WillReopen'
    <2>1. ASSUME modem.up, ~modem.open
          PROVE  Before(msgs', "ssr", "up") \/ (msgs' # <<>> /\ Head(msgs').type = "open")
      <3>1. CASE Before(msgs, "ssr", "up")
        BY <1>0, <3>1, BeforeAfter
      <3>2. CASE msgs # <<>> /\ Head(msgs).type = "open"
        BY <1>0, <3>2
      <3> QED
        BY <2>1, <3>1, <3>2 DEF ConfInv, WillReopen
    <2> QED
      BY <2>1 DEF ConfInv, WillReopen
  <1>4. InitLocked'
    <2>1. LockAfterInit(msgs')
      BY <1>0, LocksAfter DEF ConfInv, InitLocked, Sends
    <2>2. Holds(msgs, "lock") => Holds(msgs', "lock")
      BY <1>0, HoldsAfter
    <2> QED
      BY <2>1, <2>2 DEF ConfInv, InitLocked, LockAfterInit, Holds
  <1>5. LockFits'
    <2> SUFFICES ASSUME "LOCK" \notin behind'
                 PROVE  \/ Ends(msgs', Lock(WantedLock'))
                        \/ Silent(msgs', Lock(WantedLock')) /\ modem.lock = WantedLock'
      BY DEF LockFits, Ends, Silent, About, Lock
    <2>1. CASE Ends(sent, Lock(WantedLock'))
      BY <1>0, <2>1, EndsAfter
    <2>2. CASE /\ Silent(sent, Lock(0)) /\ WantedLock' = WantedLock
               /\ "LOCK" \notin behind' => "LOCK" \notin behind
      <3>1. Silent(sent, Lock(WantedLock))
        BY <2>2, SilentKinds
      <3>2. \/ Ends(msgs, Lock(WantedLock))
            \/ Silent(msgs, Lock(WantedLock)) /\ modem.lock = WantedLock
        BY <2>2 DEF ConfInv, LockFits
      <3> QED
        BY <1>0, <2>2, <3>1, <3>2, EndsAfter, SilentAfter
    <2> QED
      BY <2>1, <2>2 DEF Sends, LockSent
  <1>6. MeasuresFit'
    <2> SUFFICES ASSUME gnss_measurement_cb'
                 PROVE  \/ Ends(msgs', Registration(TRUE))
                        \/ /\ Silent(msgs', Registration(TRUE))
                           /\ Reachable => modem.measures
      BY DEF MeasuresFit, Ends, Silent, About, Registration, Reachable
    <2>1. CASE Ends(sent, Registration(TRUE))
      BY <1>0, <2>1, EndsAfter
    <2>2. CASE /\ Silent(sent, Registration(TRUE))
               /\ gnss_measurement_cb' = gnss_measurement_cb
      <3>1. \/ Ends(msgs, Registration(TRUE))
            \/ Silent(msgs, Registration(TRUE)) /\ (Reachable => modem.measures)
        BY <2>2 DEF ConfInv, MeasuresFit
      <3> QED
        BY <1>0, <2>2, <3>1, EndsAfter, SilentAfter
    <2> QED
      BY <2>1, <2>2 DEF Sends, MeasuresSent
  <1> QED
    BY <1>1, <1>2, <1>3, <1>4, <1>5, <1>6 DEF ConfInv

(* The messages of some settings, each once                                *)
SetsOf(q, value) == [i \in DOMAIN q |-> Set(q[i], value[q[i]])]

LEMMA SetsOfSettings ==
    ASSUME NEW S \in SUBSET Settings, IsFiniteSet(S), NEW value,
           \A s \in S : value[s] \in AllValues
    PROVE  LET sent == SetsOf(SetToSeq(S), value)
           IN  /\ sent \in Seq(Messages)
               /\ \A s \in S : Ends(sent, Set(s, value[s]))
               /\ \A s \in Settings \ S : Silent(sent, Set(s, 0))
               /\ Silent(sent, Lock(0)) /\ Silent(sent, Registration(TRUE))
               /\ ~Holds(sent, "init")
  <1> DEFINE q == SetToSeq(S)
             sent == SetsOf(q, value)
  <1>1. /\ q \in Seq(S)
        /\ \A s \in S : \E i \in 1 .. Len(q) : q[i] = s
        /\ \A i, j \in 1 .. Len(q) : q[i] = q[j] => i = j
    BY SetToSeqCovers
  <1> HIDE DEF q
  <1>2. DOMAIN q = 1 .. Len(q) /\ Len(q) \in Nat /\ \A i \in 1 .. Len(q) : q[i] \in S
    BY <1>1
  <1>3. \A i \in 1 .. Len(q) : Set(q[i], value[q[i]]) \in Messages
    BY <1>2, MessageTypes
  <1>4. sent = [i \in 1 .. Len(q) |-> Set(q[i], value[q[i]])]
    BY <1>2 DEF SetsOf
  <1>5. /\ sent \in Seq(Messages) /\ Len(sent) = Len(q)
        /\ \A i \in 1 .. Len(q) : sent[i] = Set(q[i], value[q[i]])
    BY <1>2, <1>3, <1>4
  <1> HIDE DEF sent
  <1>6. \A i \in 1 .. Len(q) : sent[i].type = "set" /\ sent[i].setting = q[i]
    BY <1>5, Kinds
  <1>7. ASSUME NEW s \in S PROVE Ends(sent, Set(s, value[s]))
    <2>1. PICK i \in 1 .. Len(q) : q[i] = s
      BY <1>1
    <2>2. sent[i] = Set(s, value[s])
      BY <1>5, <2>1
    <2>3. ASSUME NEW j \in i + 1 .. Len(q) PROVE ~About(sent[j], Set(s, value[s]))
      <3>1. j \in 1 .. Len(q) /\ j # i
        BY <1>2
      <3>2. q[j] # s
        BY <1>1, <2>1, <3>1
      <3> QED
        BY <1>6, <3>1, <3>2, AboutKinds
    <2> QED
      BY <1>5, <2>2, <2>3 DEF Ends
  <1>8. ASSUME NEW s \in Settings \ S PROVE Silent(sent, Set(s, 0))
    BY <1>2, <1>5, <1>6, AboutKinds DEF Silent
  <1>9. /\ Silent(sent, Lock(0)) /\ Silent(sent, Registration(TRUE))
        /\ ~Holds(sent, "init")
    BY <1>5, <1>6, AboutKinds DEF Silent, Holds
  <1> QED
    BY <1>5, <1>7, <1>8, <1>9 DEF q, sent

(* What a call leaves alone                                                *)
LEMMA CallTypes ==
    ASSUME TypeOK, Call, adapter' \in BOOLEAN, agps_status_cb' \in BOOLEAN,
           mPowerVote' \in BOOLEAN, gnss_measurement_cb' \in BOOLEAN,
           copy' \in [Settings -> AllValues], GPS_LOCK' \in Locks,
           given' = given \/ given' \in [Servers -> AllValues],
           msgs' \in Seq(Messages), behind' \subseteq Settings \cup {"LOCK"}
    PROVE  TypeOK' /\ UNCHANGED <<outgoing, holding, modem>>
  <1>1. UNCHANGED <<outgoing, holding, modem, restarts>>
    BY DEF Call, taskVars
  <1>2. calls' \in 0 .. MaxCalls
    BY LocEngConfAssumption DEF TypeOK, Call
  <1>3. given' \in [Servers -> AllValues]
    BY DEF TypeOK
  <1> QED
    BY <1>1, <1>2, <1>3 DEF TypeOK, Messages, Set

(* Before loc_init() only copies change                                    *)
LEMMA IdleKeeps ==
    ASSUME ConfInv, TypeOK', ~adapter, ~adapter', behind' = behind,
           UNCHANGED <<msgs, outgoing, holding, modem, agps_status_cb, gnss_measurement_cb>>
    PROVE  ConfInv'
  <1>1. /\ msgs = <<>> /\ outgoing = <<>> /\ holding = <<>>
        /\ behind = Settings \cup {"LOCK"}
        /\ modem.up /\ modem.settings = [s \in Settings |-> 0]
        /\ ~agps_status_cb /\ ~gnss_measurement_cb
    BY DEF ConfInv, BeforeInit
  <1>2. BeforeInit' /\ WillReopen' /\ LockFits' /\ MeasuresFit'
    BY <1>1 DEF ConfInv, BeforeInit, WillReopen, LockFits, MeasuresFit
  <1>3. HoldingFresh' /\ SettingsFit'
    BY <1>1 DEF HoldingFresh, SettingsFit, Promised
  <1>4. ServersUnset' /\ InitLocked'
    <2>1. Servers \subseteq Settings
      BY DEF Settings
    <2>2. \A i \in 1 .. Len(<<>>) : FALSE
      OBVIOUS
    <2> QED
      BY <1>1, <2>1, <2>2 DEF ServersUnset, InitLocked, LockAfterInit, Silent
  <1> QED
    BY <1>2, <1>3, <1>4 DEF ConfInv

LEMMA ThreeMessages ==
    ASSUME NEW a \in Messages, NEW b \in Messages, NEW c \in Messages,
           NEW q, q = <<>> \o <<a, b>> \o <<c>>
    PROVE  q \in Seq(Messages) /\ Len(q) = 3 /\ q[1] = a /\ q[2] = b /\ q[3] = c
  <1>1. <<a, b>> \in Seq(Messages) /\ <<c>> \in Seq(Messages)
    OBVIOUS
  <1>2. <<>> \o <<a, b>> = <<a, b>>
    BY <1>1
  <1>3. /\ Len(<<a, b>>) = 2 /\ <<a, b>>[1] = a /\ <<a, b>>[2] = b
        /\ Len(<<c>>) = 1 /\ <<c>>[1] = c
    OBVIOUS
  <1>4. q = <<a, b>> \o <<c>>
    BY <1>2
  <1>5. 1 \in 1 .. 2 /\ 2 \in 1 .. 2 /\ 1 \in 1 .. 1 /\ 2 + 1 = 3
    OBVIOUS
  <1> QED
    BY <1>1, <1>3, <1>4, <1>5, AfterQueue

(* The first loc_init() queues the making of the engine                    *)
LEMMA FirstInitKeeps ==
    ASSUME ConfInv, loc_init, ~adapter
    PROVE  ConfInv'
  <1>1. /\ msgs = <<>> /\ outgoing = <<>> /\ holding = <<>>
        /\ modem.up /\ modem.settings = [s \in Settings |-> 0]
        /\ TypeOK
    BY DEF ConfInv, BeforeInit
  <1>2. /\ adapter' /\ mPowerVote' /\ adapter' \in BOOLEAN /\ mPowerVote' \in BOOLEAN
        /\ agps_status_cb' = FALSE /\ gnss_measurement_cb' = FALSE
        /\ behind' = {s \in Servers : copy[s] # 0}
        /\ copy' = [s \in Settings |-> IF s \in Servers THEN 0 ELSE copy[s]]
        /\ msgs' = msgs \o <<Msg("open"), Msg("init")>> \o <<Lock(0)>>
        /\ Call /\ UNCHANGED <<given, GPS_LOCK>>
    BY DEF loc_init, loc_eng_init
  <1>3. /\ Msg("open") \in Messages /\ Msg("init") \in Messages /\ Lock(0) \in Messages
    BY MessageTypes
  <1>4. /\ msgs' \in Seq(Messages) /\ Len(msgs') = 3
        /\ msgs'[1] = Msg("open") /\ msgs'[2] = Msg("init") /\ msgs'[3] = Lock(0)
    BY <1>1, <1>2, <1>3, ThreeMessages
  <1>5. /\ msgs' \in Seq(Messages) /\ Len(msgs') = 3
        /\ msgs'[1] = Msg("open") /\ msgs'[2] = Msg("init") /\ msgs'[3] = Lock(0)
        /\ Head(msgs') = Msg("open") /\ msgs' # <<>>
    BY <1>4
  <1>6. copy' \in [Settings -> AllValues] /\ \A s \in Servers : copy'[s] = 0
    BY <1>1, <1>2 DEF TypeOK, AllValues, Settings
  <1>7. TypeOK' /\ UNCHANGED <<outgoing, holding, modem>>
    <2>1. GPS_LOCK' \in Locks /\ behind' \subseteq Settings \cup {"LOCK"}
      BY <1>1, <1>2 DEF TypeOK, Settings
    <2>2. agps_status_cb' \in BOOLEAN /\ gnss_measurement_cb' \in BOOLEAN
      BY <1>2
    <2> QED
      BY <1>1, <1>2, <1>5, <1>6, <2>1, <2>2, CallTypes
  <1>8. /\ 1 .. 3 = {1, 2, 3} /\ (\A i \in 3 + 1 .. 3 : FALSE) /\ 3 \in 2 + 1 .. 3
    OBVIOUS
  <1>9. /\ msgs'[1].type = "open" /\ msgs'[2].type = "init" /\ msgs'[3].type = "lock"
    BY <1>5, Kinds
  <1>10. BeforeInit' /\ WillReopen' /\ HoldingFresh' /\ MeasuresFit'
    <2>1. Head(msgs').type = "open" /\ msgs' # <<>>
      BY <1>5, Kinds
    <2>2. WillReopen'
      BY <1>7, <2>1 DEF ConfInv, WillReopen
    <2>3. BeforeInit' /\ MeasuresFit'
      BY <1>2 DEF BeforeInit, MeasuresFit
    <2>4. HoldingFresh'
      BY <1>1, <1>7 DEF HoldingFresh
    <2> QED
      BY <2>2, <2>3, <2>4
  <1>11. ServersUnset'
    <2>1. \A s \in Servers : modem.settings[s] = 0
      BY <1>1 DEF Settings
    <2>2. \A s \in Servers : Silent(msgs', Set(s, 0))
      BY <1>5, <1>8, <1>9, AboutKinds DEF Silent
    <2> QED
      BY <1>1, <1>7, <2>1, <2>2 DEF ServersUnset, Silent, About, Set
  <1>12. SettingsFit'
    <2> SUFFICES ASSUME NEW s \in Settings, s \in Servers => copy'[s] # 0
                 PROVE  Fits(s)'
      BY DEF SettingsFit
    <2>1. ComingNext(s)
      BY <1>5, <1>6, <1>8, <1>9 DEF ComingNext, Holds
    <2> QED
      BY <2>1, FitsNext
  <1>13. InitLocked'
    BY <1>1, <1>5, <1>7, <1>8, <1>9 DEF InitLocked, LockAfterInit
  <1>14. LockFits'
    <2>1. Ends(msgs', Lock(0))
      BY <1>5, <1>8 DEF Ends
    <2>2. WantedLock' = 0
      BY <1>2 DEF WantedLock
    <2> QED
      BY <2>1, <2>2 DEF LockFits, Ends, About, Lock
  <1> QED
    BY <1>7, <1>10, <1>11, <1>12, <1>13, <1>14 DEF ConfInv

LEMMA OnlyLock ==
    ASSUME NEW v \in Locks \cup {0, 1}
    PROVE  /\ <<Lock(v)>> \in Seq(Messages) /\ Ends(<<Lock(v)>>, Lock(v))
           /\ \A s : Silent(<<Lock(v)>>, Set(s, 0))
           /\ Silent(<<Lock(v)>>, Registration(TRUE))
           /\ ~Holds(<<Lock(v)>>, "init")
           /\ \A q \in Seq(Messages) : Append(q, Lock(v)) = q \o <<Lock(v)>>
  <1>1. Lock(v) \in Messages /\ Lock(v).type = "lock"
    BY MessageTypes, Kinds
  <1>2. /\ \A s : ~About(Lock(v), Set(s, 0))
        /\ ~About(Lock(v), Registration(TRUE))
    BY <1>1, AboutKinds
  <1> QED
    BY <1>1, <1>2, OneMessage

LEMMA OnlySetting ==
    ASSUME NEW s \in Settings, NEW v \in AllValues
    PROVE  /\ <<Set(s, v)>> \in Seq(Messages) /\ Ends(<<Set(s, v)>>, Set(s, v))
           /\ \A t : t # s => Silent(<<Set(s, v)>>, Set(t, 0))
           /\ Silent(<<Set(s, v)>>, Lock(0)) /\ Silent(<<Set(s, v)>>, Registration(TRUE))
           /\ ~Holds(<<Set(s, v)>>, "init")
           /\ \A q \in Seq(Messages) : Append(q, Set(s, v)) = q \o <<Set(s, v)>>
  <1>1. Set(s, v) \in Messages /\ Set(s, v).type = "set" /\ Set(s, v).setting = s
    BY MessageTypes, Kinds
  <1>2. /\ \A t : t # s => ~About(Set(s, v), Set(t, 0))
        /\ ~About(Set(s, v), Lock(0)) /\ ~About(Set(s, v), Registration(TRUE))
    BY <1>1, AboutKinds
  <1> QED
    BY <1>1, <1>2, OneMessage

LEMMA OnlyRegistration ==
    ASSUME NEW on \in BOOLEAN
    PROVE  /\ <<Registration(on)>> \in Seq(Messages)
           /\ Ends(<<Registration(on)>>, Registration(on))
           /\ \A s : Silent(<<Registration(on)>>, Set(s, 0))
           /\ Silent(<<Registration(on)>>, Lock(0))
           /\ ~Holds(<<Registration(on)>>, "init")
           /\ \A q \in Seq(Messages) :
                 Append(q, Registration(on)) = q \o <<Registration(on)>>
  <1>1. Registration(on) \in Messages /\ Registration(on).type = "registration"
    BY MessageTypes, Kinds
  <1>2. /\ \A s : ~About(Registration(on), Set(s, 0))
        /\ ~About(Registration(on), Lock(0))
    BY <1>1, AboutKinds
  <1> QED
    BY <1>1, <1>2, OneMessage

(* What is changed is not promised while an older value is held            *)
LEMMA ChangedPromises ==
    ASSUME TypeOK, NEW S \in SUBSET (Settings \cup {"LOCK"}), Changed(S)
    PROVE  /\ behind' \subseteq Settings \cup {"LOCK"}
           /\ \A s \in S, v \in AllValues : holding = <<Set(s, v)>> => s \in behind'
           /\ \A s \in (Settings \cup {"LOCK"}) \ S : s \in behind' <=> s \in behind
  <1>1. /\ behind' = (behind \ S) \cup {s \in S : holding # <<>> /\ holding[1].setting = s}
        /\ behind \subseteq Settings \cup {"LOCK"}
    BY DEF TypeOK, Changed
  <1>2. \A s, v : <<Set(s, v)>>[1].setting = s /\ <<Set(s, v)>> # <<>>
    BY Kinds
  <1> QED
    BY <1>1, <1>2

(* The lock and the settings are apart                                     *)
LEMMA SettingsApart ==
    /\ "LOCK" \notin Settings /\ Servers \subseteq Settings /\ Updated \subseteq Settings
    /\ Updated \cap Servers = {} /\ "DATA" \in Settings /\ "DATA" \notin Servers
    /\ Values \subseteq AllValues /\ 0 \in AllValues /\ 1 \in AllValues
    /\ 0 \notin Values /\ 0 \notin Values \cup {1}
  BY LocEngConfAssumption DEF Settings, AllValues

LEMMA LockCallsKeep ==
    ASSUME ConfInv, adapter, loc_init \/ loc_cleanup
    PROVE  ConfInv'
  <1>1. PICK v \in Locks \cup {0} :
           /\ msgs' = msgs \o <<Lock(v)>> /\ v = WantedLock'
           /\ adapter' /\ adapter' \in BOOLEAN /\ mPowerVote' \in BOOLEAN
           /\ behind' = behind \ {"LOCK"}
           /\ Call /\ UNCHANGED <<agps_status_cb, copy, given, GPS_LOCK, gnss_measurement_cb>>
    <2>0. msgs \in Seq(Messages) /\ GPS_LOCK \in Locks
      BY DEF ConfInv, TypeOK
    <2>1. CASE loc_init
      <3>1. msgs' = msgs \o <<Lock(0)>> /\ WantedLock' = 0
        BY <2>1 DEF loc_init, loc_eng_init, WantedLock
      <3> QED
        BY <2>1, <3>1 DEF loc_init, loc_eng_init
    <2>2. CASE loc_cleanup
      <3>1. msgs' = msgs \o <<Lock(GPS_LOCK)>>
        BY <2>0, <2>2, OnlyLock DEF loc_cleanup
      <3>2. WantedLock' = GPS_LOCK
        BY <2>2 DEF loc_cleanup, WantedLock
      <3> QED
        BY <2>0, <2>2, <3>1, <3>2 DEF loc_cleanup
    <2> QED
      BY <2>1, <2>2
  <1>2. TypeOK /\ msgs \in Seq(Messages)
    BY DEF ConfInv, TypeOK
  <1>3. /\ agps_status_cb' \in BOOLEAN /\ gnss_measurement_cb' \in BOOLEAN
        /\ copy' \in [Settings -> AllValues] /\ GPS_LOCK' \in Locks
        /\ msgs' \in Seq(Messages) /\ behind' \subseteq Settings \cup {"LOCK"}
    <2>1. <<Lock(v)>> \in Seq(Messages)
      BY OnlyLock
    <2>2. msgs' \in Seq(Messages)
      BY <1>1, <1>2, <2>1, AfterQueue
    <2> QED
      BY <1>1, <1>2, <2>2 DEF TypeOK
  <1>4. TypeOK' /\ UNCHANGED <<outgoing, holding, modem>>
    BY <1>1, <1>2, <1>3, CallTypes
  <1>5. \A s \in Settings : SettingSent(s, <<Lock(v)>>)
    BY <1>1, SettingsApart, OnlyLock DEF SettingSent
  <1>6. LockSent(<<Lock(v)>>) /\ MeasuresSent(<<Lock(v)>>)
    BY <1>1, OnlyLock DEF LockSent, MeasuresSent
  <1>7. Sends(<<Lock(v)>>)
    BY <1>1, <1>5, <1>6, OnlyLock DEF Sends
  <1> QED
    BY <1>1, <1>4, <1>7, SendingKeeps

LEMMA OneSettingKeeps ==
    ASSUME ConfInv, NEW s \in Settings, NEW v \in AllValues, s \in Servers => v # 0,
           Call, copy' = [copy EXCEPT ![s] = v], adapter,
           msgs' = Append(msgs, Set(s, v)) /\ Changed({s}),
           given' = given \/ given' \in [Servers -> AllValues],
           UNCHANGED <<adapter, agps_status_cb, GPS_LOCK, gnss_measurement_cb, mPowerVote>>
    PROVE  ConfInv'
  <1>1. TypeOK /\ msgs \in Seq(Messages)
    BY DEF ConfInv, TypeOK
  <1>2. msgs' = msgs \o <<Set(s, v)>>
    BY <1>1, OnlySetting
  <1>3. /\ copy' \in [Settings -> AllValues] /\ copy'[s] = v
        /\ \A t \in Settings \ {s} : copy'[t] = copy[t]
    BY <1>1 DEF TypeOK
  <1>4. /\ behind' \subseteq Settings \cup {"LOCK"}
        /\ \A w \in AllValues : holding = <<Set(s, w)>> => s \in behind'
        /\ \A t \in (Settings \cup {"LOCK"}) \ {s} : t \in behind' <=> t \in behind
    BY <1>1, ChangedPromises
  <1>5. TypeOK' /\ UNCHANGED <<outgoing, holding, modem>>
    <2>1. /\ agps_status_cb' \in BOOLEAN /\ gnss_measurement_cb' \in BOOLEAN
          /\ adapter' \in BOOLEAN /\ mPowerVote' \in BOOLEAN /\ GPS_LOCK' \in Locks
      BY <1>1 DEF TypeOK
    <2>2. msgs' \in Seq(Messages)
      BY <1>1, <1>2, OnlySetting, AfterQueue
    <2> QED
      BY <1>1, <1>3, <1>4, <2>1, <2>2, CallTypes
  <1>6. ASSUME NEW t \in Settings PROVE SettingSent(t, <<Set(s, v)>>)
    <2>1. CASE t = s
      BY <1>3, <1>4, <2>1, OnlySetting DEF SettingSent
    <2>2. CASE t # s
      BY <1>3, <1>4, <2>2, OnlySetting DEF SettingSent
    <2> QED
      BY <2>1, <2>2
  <1>7. LockSent(<<Set(s, v)>>) /\ MeasuresSent(<<Set(s, v)>>)
    <2>1. "LOCK" \in (Settings \cup {"LOCK"}) \ {s}
      BY SettingsApart
    <2> QED
      BY <1>4, <2>1, OnlySetting DEF LockSent, MeasuresSent, WantedLock
  <1>8. Sends(<<Set(s, v)>>)
    BY <1>2, <1>6, <1>7, OnlySetting DEF Sends
  <1> QED
    BY <1>5, <1>8, SendingKeeps

LEMMA ServerKeeps ==
    ASSUME ConfInv, loc_eng_set_server_proxy
    PROVE  ConfInv'
  <1>1. PICK s \in Servers, v \in Values :
           /\ Call /\ copy' = [copy EXCEPT ![s] = v] /\ given' = [given EXCEPT ![s] = v]
           /\ IF adapter
              THEN msgs' = Append(msgs, Set(s, v)) /\ Changed({s})
              ELSE UNCHANGED <<msgs, behind>>
           /\ UNCHANGED <<adapter, agps_status_cb, GPS_LOCK, gnss_measurement_cb, mPowerVote>>
    BY DEF loc_eng_set_server_proxy
  <1>2. s \in Settings /\ v \in AllValues /\ v # 0
    BY SettingsApart
  <1>3. given' \in [Servers -> AllValues]
    BY <1>1, <1>2 DEF ConfInv, TypeOK
  <1>4. CASE adapter
    BY <1>1, <1>2, <1>3, <1>4, OneSettingKeeps
  <1>5. CASE ~adapter
    <2>1. TypeOK /\ copy' \in [Settings -> AllValues]
      BY <1>1, <1>2 DEF ConfInv, TypeOK
    <2>2. TypeOK' /\ UNCHANGED <<outgoing, holding, modem>>
      <3>1. /\ adapter' \in BOOLEAN /\ agps_status_cb' \in BOOLEAN
            /\ gnss_measurement_cb' \in BOOLEAN /\ mPowerVote' \in BOOLEAN
            /\ GPS_LOCK' \in Locks /\ msgs' \in Seq(Messages)
            /\ behind' \subseteq Settings \cup {"LOCK"}
        BY <1>1, <1>5, <2>1 DEF TypeOK
      <3> QED
        BY <1>1, <1>3, <2>1, <3>1, CallTypes
    <2> QED
      BY <1>1, <1>5, <2>2, IdleKeeps
  <1> QED
    BY <1>4, <1>5

LEMMA NetworkKeeps ==
    ASSUME ConfInv, loc_eng_agps_ril_update_network_availability
    PROVE  ConfInv'
  <1>1. PICK available \in {0, 1}, apn \in BOOLEAN :
           /\ Call /\ copy' = [copy EXCEPT !["DATA"] = available]
           /\ IF adapter /\ apn
              THEN msgs' = Append(msgs, Set("DATA", available)) /\ Changed({"DATA"})
              ELSE behind' = behind \cup {"DATA"} /\ UNCHANGED msgs
           /\ UNCHANGED <<adapter, agps_status_cb, given, GPS_LOCK, gnss_measurement_cb,
                          mPowerVote>>
    BY DEF loc_eng_agps_ril_update_network_availability
  <1>2. "DATA" \in Settings /\ available \in AllValues /\ "DATA" \notin Servers
    BY SettingsApart
  <1>3. CASE adapter /\ apn
    BY <1>1, <1>2, <1>3, OneSettingKeeps
  <1>4. CASE ~(adapter /\ apn)
    <2>1. /\ TypeOK /\ copy' \in [Settings -> AllValues]
          /\ \A t \in Settings \ {"DATA"} : copy'[t] = copy[t]
      BY <1>1, <1>2 DEF ConfInv, TypeOK
    <2>2. TypeOK' /\ UNCHANGED <<outgoing, holding, modem>>
      <3>1. /\ adapter' \in BOOLEAN /\ agps_status_cb' \in BOOLEAN
            /\ gnss_measurement_cb' \in BOOLEAN /\ mPowerVote' \in BOOLEAN
            /\ GPS_LOCK' \in Locks /\ msgs' \in Seq(Messages)
            /\ behind' \subseteq Settings \cup {"LOCK"}
        BY <1>1, <1>2, <1>4, <2>1 DEF TypeOK
      <3> QED
        BY <1>1, <2>1, <3>1, CallTypes
    <2>3. CASE ~adapter
      <3>1. behind' = behind
        BY <1>1, <1>2, <2>3 DEF ConfInv, BeforeInit
      <3> QED
        BY <1>1, <1>4, <2>2, <2>3, <3>1, IdleKeeps
    <2>4. CASE adapter
      <3>1. msgs \in Seq(Messages) /\ <<>> \in Seq(Messages) /\ msgs' = msgs \o <<>>
        BY <1>1, <1>4, <2>1 DEF TypeOK
      <3>2. (\A k : Silent(<<>>, k)) /\ ~Holds(<<>>, "init")
        <4>1. \A i \in 1 .. Len(<<>>) : FALSE
          OBVIOUS
        <4> QED
          BY <4>1 DEF Silent, Holds
      <3>3. \A s \in Settings : SettingSent(s, <<>>)
        BY <1>1, <1>2, <1>4, <2>1, <3>2 DEF SettingSent
      <3>4. LockSent(<<>>) /\ MeasuresSent(<<>>)
        BY <1>1, <1>4, <3>2 DEF LockSent, MeasuresSent, WantedLock
      <3>5. Sends(<<>>)
        BY <3>1, <3>2, <3>3, <3>4 DEF Sends
      <3> QED
        BY <1>1, <2>2, <2>4, <3>5, SendingKeeps
    <2> QED
      BY <2>3, <2>4
  <1> QED
    BY <1>3, <1>4

LEMMA AgpsInitKeeps ==
    ASSUME ConfInv, loc_eng_agps_init
    PROVE  ConfInv'
  <1> DEFINE S == {s \in Servers : copy[s] # 0}
  <1>1. /\ Call /\ adapter /\ ~agps_status_cb /\ agps_status_cb' = TRUE
        /\ msgs' = msgs \o SetServers /\ Changed(S)
        /\ UNCHANGED <<adapter, copy, given, GPS_LOCK, gnss_measurement_cb, mPowerVote>>
    BY DEF loc_eng_agps_init
  <1>2. TypeOK /\ msgs \in Seq(Messages) /\ \A s \in Settings : copy[s] \in AllValues
    BY DEF ConfInv, TypeOK
  <1>3. S \in SUBSET Settings /\ IsFiniteSet(S) /\ S \in SUBSET (Settings \cup {"LOCK"})
    BY SettingsFinite, SettingsApart
  <1>4. SetServers = SetsOf(SetToSeq(S), copy)
    BY DEF SetServers, ServersSet, SetsOf
  <1>5. /\ SetServers \in Seq(Messages)
        /\ \A s \in S : Ends(SetServers, Set(s, copy[s]))
        /\ \A s \in Settings \ S : Silent(SetServers, Set(s, 0))
        /\ Silent(SetServers, Lock(0)) /\ Silent(SetServers, Registration(TRUE))
        /\ ~Holds(SetServers, "init")
    BY <1>2, <1>3, <1>4, SetsOfSettings
  <1>6. /\ behind' \subseteq Settings \cup {"LOCK"}
        /\ \A s \in S, v \in AllValues : holding = <<Set(s, v)>> => s \in behind'
        /\ \A s \in (Settings \cup {"LOCK"}) \ S : s \in behind' <=> s \in behind
    BY <1>1, <1>2, <1>3, ChangedPromises
  <1>7. TypeOK' /\ UNCHANGED <<outgoing, holding, modem>>
    <2>1. msgs' \in Seq(Messages)
      BY <1>1, <1>2, <1>5, AfterQueue
    <2>2. /\ adapter' \in BOOLEAN /\ agps_status_cb' \in BOOLEAN
          /\ gnss_measurement_cb' \in BOOLEAN /\ mPowerVote' \in BOOLEAN
          /\ copy' \in [Settings -> AllValues] /\ GPS_LOCK' \in Locks
      BY <1>1, <1>2 DEF TypeOK
    <2> QED
      BY <1>1, <1>2, <1>6, <2>1, <2>2, CallTypes
  <1>8. ASSUME NEW s \in Settings PROVE SettingSent(s, SetServers)
    <2>1. CASE s \in S
      BY <1>1, <1>5, <1>6, <2>1 DEF SettingSent
    <2>2. CASE s \notin S
      BY <1>1, <1>5, <1>6, <2>2 DEF SettingSent
    <2> QED
      BY <2>1, <2>2
  <1>9. LockSent(SetServers) /\ MeasuresSent(SetServers)
    <2>1. "LOCK" \in (Settings \cup {"LOCK"}) \ S
      BY SettingsApart
    <2> QED
      BY <1>1, <1>5, <1>6, <2>1 DEF LockSent, MeasuresSent, WantedLock
  <1>10. Sends(SetServers)
    BY <1>1, <1>5, <1>8, <1>9 DEF Sends
  <1> QED
    BY <1>1, <1>7, <1>10, SendingKeeps

LEMMA ConfigurationKeeps ==
    ASSUME ConfInv, loc_eng_configuration_update
    PROVE  ConfInv'
  <1> DEFINE Differ(changes) == {s \in Updated : changes[s] # copy[s]}
             Sent(changes) == SetsOf(SetToSeq(Differ(changes)), changes)
  <1>1. PICK changes \in [Updated -> Values \cup {1}], lock \in Locks :
           /\ Call
           /\ copy' = [s \in Settings |-> IF s \in Updated THEN changes[s] ELSE copy[s]]
           /\ GPS_LOCK' = lock
           /\ IF adapter
              THEN /\ msgs' = msgs \o Append(Sent(changes), Lock(LockToSend(lock)))
                   /\ Changed(ToSet(SetToSeq(Differ(changes))) \cup {"LOCK"})
              ELSE UNCHANGED <<msgs, behind>>
           /\ UNCHANGED <<adapter, agps_status_cb, given, gnss_measurement_cb, mPowerVote>>
    BY DEF loc_eng_configuration_update, SetsOf
  <1> DEFINE S == Differ(changes)
             sets == Sent(changes)
             last == Lock(LockToSend(lock))
             sent == sets \o <<last>>
  <1>2. TypeOK /\ msgs \in Seq(Messages) /\ \A s \in Settings : copy[s] \in AllValues
    BY DEF ConfInv, TypeOK
  <1>3. /\ S \in SUBSET Settings /\ IsFiniteSet(S) /\ S \in SUBSET Updated
        /\ S \cup {"LOCK"} \in SUBSET (Settings \cup {"LOCK"})
    BY SettingsFinite, SettingsApart
  <1>4. \A s \in Updated : changes[s] \in AllValues /\ changes[s] # 0
    BY SettingsApart
  <1>5. copy' \in [Settings -> AllValues]
    BY <1>1, <1>2, <1>4
  <1>6. CASE ~adapter
    <2>1. TypeOK' /\ UNCHANGED <<outgoing, holding, modem>>
      <3>1. /\ adapter' \in BOOLEAN /\ agps_status_cb' \in BOOLEAN
            /\ gnss_measurement_cb' \in BOOLEAN /\ mPowerVote' \in BOOLEAN
            /\ GPS_LOCK' \in Locks /\ msgs' \in Seq(Messages)
            /\ behind' \subseteq Settings \cup {"LOCK"}
        BY <1>1, <1>2, <1>6 DEF TypeOK
      <3> QED
        BY <1>1, <1>2, <1>5, <3>1, CallTypes
    <2> QED
      BY <1>1, <1>6, <2>1, IdleKeeps
  <1>7. CASE adapter
    <2>1. /\ sets \in Seq(Messages)
          /\ \A s \in S : Ends(sets, Set(s, changes[s]))
          /\ \A s \in Settings \ S : Silent(sets, Set(s, 0))
          /\ Silent(sets, Lock(0)) /\ Silent(sets, Registration(TRUE))
          /\ ~Holds(sets, "init")
      BY <1>3, <1>4, SetsOfSettings
    <2>2. LockToSend(lock) \in Locks \cup {0, 1} /\ WantedLock' = LockToSend(lock)
      BY <1>1 DEF LockToSend, WantedLock
    <2>3. /\ <<last>> \in Seq(Messages) /\ Ends(<<last>>, last)
          /\ \A s : Silent(<<last>>, Set(s, 0))
          /\ Silent(<<last>>, Registration(TRUE)) /\ ~Holds(<<last>>, "init")
          /\ \A q \in Seq(Messages) : Append(q, last) = q \o <<last>>
      BY <2>2, OnlyLock
    <2>4. ToSet(SetToSeq(S)) = S
      BY <1>3, SetToSeqSet
    <2> HIDE DEF S, sets, last
    <2>5. msgs' = msgs \o sent /\ Changed(S \cup {"LOCK"})
      BY <1>1, <1>7, <2>1, <2>3, <2>4 DEF S, sets, last
    <2>6. /\ behind' \subseteq Settings \cup {"LOCK"}
          /\ \A s \in S, v \in AllValues : holding = <<Set(s, v)>> => s \in behind'
          /\ \A s \in Settings \ S : s \in behind' <=> s \in behind
      <3>1. /\ behind' \subseteq Settings \cup {"LOCK"}
            /\ \A s \in S \cup {"LOCK"}, v \in AllValues :
                  holding = <<Set(s, v)>> => s \in behind'
            /\ \A s \in (Settings \cup {"LOCK"}) \ (S \cup {"LOCK"}) :
                  s \in behind' <=> s \in behind
        BY <1>2, <1>3, <2>5, ChangedPromises
      <3> QED
        BY <3>1, SettingsApart
    <2>7. /\ sent \in Seq(Messages) /\ Ends(sent, last)
          /\ Silent(sent, Registration(TRUE)) /\ ~Holds(sent, "init")
          /\ \A s \in Settings \ S : Silent(sent, Set(s, 0))
          /\ \A s \in S : Ends(sent, Set(s, changes[s]))
      <3>1. \A s \in S : Silent(<<last>>, Set(s, changes[s]))
        BY <2>3, SilentKinds
      <3>2. sent \in Seq(Messages)
        BY <2>1, <2>3, AfterQueue
      <3>3. Ends(sent, last) /\ \A s \in S : Ends(sent, Set(s, changes[s]))
        BY <2>1, <2>3, <3>1, EndsAfter
      <3>4. Silent(sent, Registration(TRUE)) /\ \A s \in Settings \ S : Silent(sent, Set(s, 0))
        BY <2>1, <2>3, SilentAfter
      <3>5. ~Holds(sent, "init")
        BY <2>1, <2>3, HoldsAfter
      <3> QED
        BY <3>2, <3>3, <3>4, <3>5
    <2> HIDE DEF sent
    <2>8. TypeOK' /\ UNCHANGED <<outgoing, holding, modem>>
      <3>1. msgs' \in Seq(Messages)
        BY <1>2, <2>5, <2>7, AfterQueue
      <3>2. /\ adapter' \in BOOLEAN /\ agps_status_cb' \in BOOLEAN
            /\ gnss_measurement_cb' \in BOOLEAN /\ mPowerVote' \in BOOLEAN
            /\ GPS_LOCK' \in Locks
        BY <1>1, <1>2 DEF TypeOK
      <3> QED
        BY <1>1, <1>2, <1>5, <2>6, <3>1, <3>2, CallTypes
    <2>9. ASSUME NEW s \in Settings PROVE SettingSent(s, sent)
      <3>1. CASE s \in S
        <4>1. s \in Updated /\ s \notin Servers /\ copy'[s] = changes[s]
          BY <1>1, <1>3, <3>1, SettingsApart
        <4> QED
          BY <2>6, <2>7, <3>1, <4>1 DEF SettingSent
      <3>2. CASE s \notin S
        <4>1. copy'[s] = copy[s]
          BY <1>1, <3>2 DEF S
        <4> QED
          BY <1>1, <2>6, <2>7, <3>2, <4>1 DEF SettingSent
      <3> QED
        BY <3>1, <3>2
    <2>10. LockSent(sent) /\ MeasuresSent(sent)
      BY <1>1, <2>2, <2>7 DEF LockSent, MeasuresSent, last
    <2>11. Sends(sent)
      BY <2>5, <2>7, <2>9, <2>10 DEF Sends
    <2> QED
      BY <1>1, <1>7, <2>8, <2>11, SendingKeeps
  <1> QED
    BY <1>6, <1>7

LEMMA MeasurementCallsKeep ==
    ASSUME ConfInv, loc_eng_gps_measurement_init \/ loc_eng_gps_measurement_close
    PROVE  ConfInv'
  <1>1. PICK on \in BOOLEAN :
           /\ Call /\ adapter /\ msgs' = Append(msgs, Registration(on))
           /\ gnss_measurement_cb' = on
           /\ UNCHANGED <<adapter, agps_status_cb, copy, given, GPS_LOCK, mPowerVote, behind>>
    BY DEF loc_eng_gps_measurement_init, loc_eng_gps_measurement_close
  <1>2. TypeOK /\ msgs \in Seq(Messages)
    BY DEF ConfInv, TypeOK
  <1>3. msgs' = msgs \o <<Registration(on)>> /\ <<Registration(on)>> \in Seq(Messages)
    BY <1>1, <1>2, OnlyRegistration
  <1>4. TypeOK' /\ UNCHANGED <<outgoing, holding, modem>>
    <2>1. msgs' \in Seq(Messages)
      BY <1>2, <1>3, AfterQueue
    <2>2. /\ adapter' \in BOOLEAN /\ agps_status_cb' \in BOOLEAN
          /\ gnss_measurement_cb' \in BOOLEAN /\ mPowerVote' \in BOOLEAN
          /\ copy' \in [Settings -> AllValues] /\ GPS_LOCK' \in Locks
          /\ behind' \subseteq Settings \cup {"LOCK"}
      BY <1>1, <1>2 DEF TypeOK
    <2> QED
      BY <1>1, <1>2, <2>1, <2>2, CallTypes
  <1>5. \A s \in Settings : SettingSent(s, <<Registration(on)>>)
    BY <1>1, OnlyRegistration DEF SettingSent
  <1>6. LockSent(<<Registration(on)>>) /\ MeasuresSent(<<Registration(on)>>)
    <2>1. CASE on = TRUE
      BY <1>1, <2>1, OnlyRegistration DEF LockSent, MeasuresSent, WantedLock
    <2>2. CASE on = FALSE
      BY <1>1, <2>2, OnlyRegistration DEF LockSent, MeasuresSent, WantedLock
    <2> QED
      BY <2>1, <2>2
  <1>7. Sends(<<Registration(on)>>)
    BY <1>3, <1>5, <1>6, OnlyRegistration DEF Sends
  <1> QED
    BY <1>1, <1>4, <1>7, SendingKeeps

LEMMA FrameworkKeeps ==
    ASSUME ConfInv, Framework
    PROVE  ConfInv'
  BY FirstInitKeeps, LockCallsKeep, ServerKeeps, AgpsInitKeeps, NetworkKeeps,
     ConfigurationKeeps, MeasurementCallsKeep
  DEF Framework, loc_cleanup

-----------------------------------------------------------------------------
(* The MsgTask.  A message that was taken does something to the modem, or  *)
(* begins to read what is sent again                                       *)

Takes(type) ==
    /\ Take(type) /\ UNCHANGED <<halVars, holding>>
    /\ modem'.up = modem.up
    /\ modem'.open = IF type \in {"open", "ssr"} THEN modem.up ELSE modem.open
    /\ \A s \in Settings :
          modem'.settings[s] = IF Head(msgs).type = "set" /\ Head(msgs).setting = s /\ Reachable
                               THEN Head(msgs).value ELSE modem.settings[s]
    /\ \A s \in Settings : s \in behind' => s \in behind
    /\ \A s \in Settings : s \notin behind' => s \notin behind
    /\ "LOCK" \notin behind' =>
          /\ "LOCK" \notin behind
          /\ modem'.lock = IF type = "lock" THEN Head(msgs).value ELSE modem.lock
    /\ type = "registration" => (Reachable => modem'.measures = Head(msgs).on)
    /\ type # "registration" =>
          ((Reachable => modem.measures) => (modem'.up /\ modem'.open => modem'.measures))
    /\ type = "up" => \A s \in Settings : \E i \in 1 .. Len(outgoing') : outgoing'[i] = s
    /\ type = "init" =>
          \A s \in Settings \ Servers : \E i \in 1 .. Len(outgoing') : outgoing'[i] = s
    /\ (\E i \in 1 .. Len(outgoing') : outgoing'[i] = "LOCK") => type = "init"

LEMMA TakenMessage ==
    ASSUME ConfInv, NEW type, Take(type)
    PROVE  /\ adapter /\ msgs \in Seq(Messages) /\ msgs # <<>> /\ msgs' = Tail(msgs)
           /\ msgs' \in Seq(Messages) /\ Head(msgs) \in Messages
           /\ Head(msgs).type = type /\ outgoing = <<>> /\ holding = <<>>
  <1>1. msgs \in Seq(Messages) /\ (~adapter => msgs = <<>>)
    BY DEF ConfInv, TypeOK, BeforeInit
  <1>2. msgs # <<>> /\ outgoing = <<>> /\ holding = <<>> /\ msgs' = Tail(msgs)
        /\ Head(msgs).type = type
    BY DEF Take
  <1> QED
    BY <1>1, <1>2, RestOfQueue

LEMMA LocksRest ==
    ASSUME NEW S, NEW q \in Seq(S), q # <<>>, LockAfterInit(q)
    PROVE  LockAfterInit(Tail(q)) /\ (Head(q).type = "init" => Holds(Tail(q), "lock"))
  <1>1. /\ Len(Tail(q)) = Len(q) - 1 /\ Len(q) \in Nat \ {0} /\ Head(q) = q[1]
        /\ \A i \in 1 .. Len(q) - 1 : Tail(q)[i] = q[i + 1]
    BY RestOfQueue
  <1>2. ASSUME NEW i \in 1 .. Len(q), q[i].type = "init"
        PROVE  \E j \in i .. Len(Tail(q)) : Tail(q)[j].type = "lock"
    <2>1. PICK j \in i + 1 .. Len(q) : q[j].type = "lock"
      BY <1>2 DEF LockAfterInit
    <2>2. j - 1 \in i .. Len(Tail(q)) /\ (j - 1) + 1 = j /\ j - 1 \in 1 .. Len(q) - 1
      BY <1>1, <2>1
    <2> QED
      BY <1>1, <2>1, <2>2
  <1>3. ASSUME NEW i \in 1 .. Len(Tail(q)), Tail(q)[i].type = "init"
        PROVE  \E j \in i + 1 .. Len(Tail(q)) : Tail(q)[j].type = "lock"
    <2>1. i + 1 \in 1 .. Len(q) /\ q[i + 1].type = "init"
      BY <1>1, <1>3
    <2> QED
      BY <1>2, <2>1
  <1>4. ASSUME Head(q).type = "init" PROVE Holds(Tail(q), "lock")
    <2>1. 1 \in 1 .. Len(q) /\ q[1].type = "init"
      BY <1>1, <1>4
    <2> QED
      BY <1>2, <2>1 DEF Holds
  <1> QED
    BY <1>3, <1>4 DEF LockAfterInit

LEMMA TakenSettingFits ==
    ASSUME ConfInv, NEW type, Takes(type), NEW s \in Settings,
           Promised(s)', s \in Servers => copy'[s] # 0
    PROVE  Fits(s)'
  <1>0. /\ adapter /\ msgs \in Seq(Messages) /\ msgs # <<>> /\ msgs' = Tail(msgs)
        /\ msgs' \in Seq(Messages) /\ Head(msgs) \in Messages
        /\ Head(msgs).type = type /\ outgoing = <<>> /\ holding = <<>>
    BY TakenMessage DEF Takes
  <1>1. /\ copy' = copy /\ agps_status_cb' = agps_status_cb /\ holding' = holding
        /\ modem'.up = modem.up
        /\ s \notin behind' => s \notin behind
        /\ modem'.settings[s] = IF Head(msgs).type = "set" /\ Head(msgs).setting = s /\ Reachable
                               THEN Head(msgs).value ELSE modem.settings[s]
    BY DEF Takes, halVars
  <1>2. Fits(s)
    BY <1>1 DEF ConfInv, SettingsFit, Promised
  <1>3. Holds(msgs, "up") => ComingNext(s)
    <2>1. CASE type = "up"
      BY <2>1 DEF Takes, ComingNext
    <2>2. CASE type # "up"
      BY <1>0, <2>2, HoldsRest DEF ComingNext
    <2> QED
      BY <2>1, <2>2
  <1>4. CASE Coming(s)
    <2> SUFFICES ComingNext(s)
      BY FitsNext
    <2>1. CASE ~modem.up
      BY <1>1, <2>1 DEF ComingNext
    <2>2. CASE Holds(msgs, "init") /\ s \notin Servers
      <3>1. CASE type = "init"
        BY <2>2, <3>1 DEF Takes, ComingNext
      <3>2. CASE type # "init"
        BY <1>0, <2>2, <3>2, HoldsRest DEF ComingNext
      <3> QED
        BY <3>1, <3>2
    <2>3. ~(\E i \in 1 .. Len(outgoing) : outgoing[i] = s) /\ holding # <<Set(s, copy[s])>>
      BY <1>0
    <2> QED
      BY <1>3, <1>4, <2>1, <2>2, <2>3 DEF Coming
  <1>5. CASE Ends(msgs, Set(s, copy[s]))
    <2>1. CASE Ends(Tail(msgs), Set(s, copy[s]))
      BY <1>0, <1>1, <2>1, FitsNext
    <2>2. CASE Head(msgs) = Set(s, copy[s]) /\ Silent(Tail(msgs), Set(s, copy[s]))
      <3>1. Head(msgs).type = "set" /\ Head(msgs).setting = s /\ Head(msgs).value = copy[s]
        BY <2>2, Kinds
      <3>2. Silent(msgs', Set(s, 0))
        BY <1>0, <2>2, SilentKinds
      <3>3. CASE Reachable
        <4>1. modem'.settings[s] = copy'[s]
          BY <1>1, <3>1, <3>3
        <4> QED
          BY <3>2, <4>1, FitsNext
      <3>4. CASE ~Reachable
        <4>1. CASE ~modem.up
          <5>1. ComingNext(s)
            BY <1>1, <4>1 DEF ComingNext
          <5> QED
            BY <5>1, FitsNext
        <4>2. CASE modem.up
          <5>1. Before(msgs, "ssr", "up")
            BY <1>0, <3>1, <3>4, <4>2 DEF ConfInv, WillReopen, Reachable
          <5>2. Holds(msgs', "up")
            BY <1>0, <5>1, BeforeRest
          <5>3. ComingNext(s)
            BY <5>2 DEF ComingNext
          <5> QED
            BY <5>3, FitsNext
        <4> QED
          BY <4>1, <4>2
      <3> QED
        BY <3>3, <3>4
    <2> QED
      BY <1>0, <1>5, <2>1, <2>2, EndsRest
  <1>6. CASE Silent(msgs, Set(s, copy[s])) /\ modem.settings[s] = copy[s]
    <2>1. Silent(Tail(msgs), Set(s, copy[s])) /\ ~About(Head(msgs), Set(s, copy[s]))
      BY <1>0, <1>6, SilentRest
    <2>2. ~(Head(msgs).type = "set" /\ Head(msgs).setting = s)
      BY <2>1, AboutKinds
    <2>3. Silent(msgs', Set(s, 0)) /\ modem'.settings[s] = copy'[s]
      BY <1>0, <1>1, <1>6, <2>1, <2>2, SilentKinds
    <2> QED
      BY <2>3, FitsNext
  <1> QED
    BY <1>2, <1>4, <1>5, <1>6 DEF Fits

LEMMA TakesKeeps ==
    ASSUME ConfInv, TypeOK', NEW type, Takes(type)
    PROVE  ConfInv'
  <1>0. /\ adapter /\ msgs \in Seq(Messages) /\ msgs # <<>> /\ msgs' = Tail(msgs)
        /\ msgs' \in Seq(Messages) /\ Head(msgs) \in Messages
        /\ Head(msgs).type = type /\ outgoing = <<>> /\ holding = <<>>
    BY TakenMessage DEF Takes
  <1>1. /\ UNCHANGED <<adapter, copy, agps_status_cb, gnss_measurement_cb, mPowerVote, GPS_LOCK>>
        /\ holding' = holding /\ modem'.up = modem.up
    BY DEF Takes, halVars
  <1>2. modem'.open = IF type \in {"open", "ssr"} THEN modem.up ELSE modem.open
    BY DEF Takes
  <1>3. BeforeInit' /\ HoldingFresh'
    BY <1>0, <1>1 DEF BeforeInit, HoldingFresh, Set
  <1>4. WillReopen'
    <2>1. modem'.open => modem'.up
      BY <1>1, <1>2 DEF ConfInv, WillReopen
    <2>2. ASSUME modem'.up, ~modem'.open PROVE Before(msgs', "ssr", "up")
      <3>1. type \notin {"open", "ssr"} /\ modem.up /\ ~modem.open
        BY <1>1, <1>2, <2>2
      <3>2. Before(msgs, "ssr", "up")
        BY <1>0, <3>1 DEF ConfInv, WillReopen
      <3> QED
        BY <1>0, <3>1, <3>2, BeforeRest
    <2> QED
      BY <2>1, <2>2 DEF WillReopen
  <1>5. ServersUnset'
    <2> SUFFICES ASSUME NEW s \in Servers, copy'[s] = 0
                 PROVE  /\ modem'.settings[s] = 0 /\ Silent(msgs', Set(s, 0))
                        /\ \A v \in AllValues : holding' # <<Set(s, v)>>
      BY DEF ServersUnset, Silent, About, Set
    <2>1. /\ modem.settings[s] = 0 /\ Silent(msgs, Set(s, 0))
      BY <1>1 DEF ConfInv, ServersUnset
    <2>2. Silent(Tail(msgs), Set(s, 0)) /\ ~About(Head(msgs), Set(s, 0))
      BY <1>0, <2>1, SilentRest
    <2>3. ~(Head(msgs).type = "set" /\ Head(msgs).setting = s) /\ s \in Settings
      BY <2>2, AboutKinds, SettingsApart
    <2> QED
      BY <1>0, <1>1, <2>1, <2>2, <2>3 DEF Takes
  <1>6. SettingsFit'
    BY TakenSettingFits DEF SettingsFit
  <1>7. InitLocked'
    <2>1. LockAfterInit(Tail(msgs)) /\ (Head(msgs).type = "init" => Holds(Tail(msgs), "lock"))
      BY <1>0, LocksRest DEF ConfInv, InitLocked
    <2>2. (\E i \in 1 .. Len(outgoing') : outgoing'[i] = "LOCK") => type = "init"
      BY DEF Takes
    <2>3. /\ LockAfterInit(msgs')
          /\ (\E i \in 1 .. Len(outgoing') : outgoing'[i] = "LOCK") => Holds(msgs', "lock")
      BY <1>0, <2>1, <2>2
    <2> QED
      BY <2>3 DEF InitLocked, LockAfterInit, Holds
  <1>8. LockFits'
    <2> SUFFICES ASSUME "LOCK" \notin behind'
                 PROVE  \/ Ends(msgs', Lock(WantedLock))
                        \/ Silent(msgs', Lock(WantedLock)) /\ modem'.lock = WantedLock
      BY <1>1 DEF LockFits, Ends, Silent, About, Lock, WantedLock
    <2>1. /\ "LOCK" \notin behind
          /\ modem'.lock = IF type = "lock" THEN Head(msgs).value ELSE modem.lock
      BY DEF Takes
    <2>2. CASE Ends(msgs, Lock(WantedLock))
      <3>1. CASE Head(msgs) = Lock(WantedLock) /\ Silent(Tail(msgs), Lock(WantedLock))
        BY <1>0, <2>1, <3>1, Kinds
      <3> QED
        BY <1>0, <2>2, <3>1, EndsRest
    <2>3. CASE Silent(msgs, Lock(WantedLock)) /\ modem.lock = WantedLock
      <3>1. Silent(Tail(msgs), Lock(WantedLock)) /\ ~About(Head(msgs), Lock(WantedLock))
        BY <1>0, <2>3, SilentRest
      <3>2. type # "lock"
        BY <1>0, <3>1, AboutKinds
      <3> QED
        BY <1>0, <2>1, <2>3, <3>1, <3>2
    <2> QED
      BY <2>1, <2>2, <2>3 DEF ConfInv, LockFits
  <1>9. MeasuresFit'
    <2> DEFINE k == Registration(TRUE)
    <2> SUFFICES ASSUME gnss_measurement_cb
                 PROVE  \/ Ends(msgs', k)
                        \/ Silent(msgs', k) /\ (modem'.up /\ modem'.open => modem'.measures)
      BY <1>1 DEF MeasuresFit, Ends, Silent, About, Registration, Reachable
    <2>0. k.type = "registration" /\ k.on = TRUE /\ \A m : About(m, k) <=> m.type = "registration"
      BY Kinds, AboutKinds
    <2>1. CASE Ends(msgs, k)
      <3>1. CASE Head(msgs) = k /\ Silent(Tail(msgs), k)
        <4>1. type = "registration" /\ Head(msgs).on = TRUE
          BY <1>0, <2>0, <3>1
        <4>2. modem'.up /\ modem'.open => Reachable
          BY <1>1, <1>2, <4>1 DEF Reachable
        <4>3. Reachable => modem'.measures = TRUE
          BY <4>1 DEF Takes
        <4> QED
          BY <1>0, <3>1, <4>2, <4>3
      <3> HIDE DEF k
      <3> QED
        BY <1>0, <2>1, <3>1, EndsRest
    <2>2. CASE Silent(msgs, k) /\ (Reachable => modem.measures)
      <3>1. Silent(Tail(msgs), k) /\ ~About(Head(msgs), k)
        BY <1>0, <2>2, SilentRest
      <3>2. type # "registration"
        BY <1>0, <2>0, <3>1
      <3>3. modem'.up /\ modem'.open => modem'.measures
        BY <2>2, <3>2 DEF Takes
      <3> QED
        BY <1>0, <3>1, <3>3
    <2> QED
      BY <2>1, <2>2 DEF ConfInv, MeasuresFit
  <1> QED
    BY <1>3, <1>4, <1>5, <1>6, <1>7, <1>8, <1>9 DEF ConfInv

(* What is left to read after a start of the engine, and after a restart   *)
LEMMA ReinitOrder ==
    /\ Append(Reinit, "LOCK") \in Seq(Settings \cup {"LOCK"})
    /\ Reinit \o AgpsReinit \in Seq(Settings \cup {"LOCK"})
    /\ \A s \in Settings \ Servers :
          \E i \in 1 .. Len(Append(Reinit, "LOCK")) : Append(Reinit, "LOCK")[i] = s
    /\ \A s \in Settings :
          \E i \in 1 .. Len(Reinit \o AgpsReinit) : (Reinit \o AgpsReinit)[i] = s
    /\ \A i \in 1 .. Len(Reinit \o AgpsReinit) : (Reinit \o AgpsReinit)[i] # "LOCK"
  <1> DEFINE q == Reinit
             t == AgpsReinit
  <1>1. /\ q \in Seq(Settings) /\ t \in Seq(Settings)
        /\ \A s \in Settings \ Servers : \E i \in 1 .. Len(q) : q[i] = s
        /\ \A s \in Servers : \E i \in 1 .. Len(t) : t[i] = s
    BY ReinitCovers
  <1> HIDE DEF q, t
  <1>2. /\ Append(q, "LOCK") \in Seq(Settings \cup {"LOCK"})
        /\ Len(Append(q, "LOCK")) = Len(q) + 1
        /\ \A i \in 1 .. Len(q) : i \in 1 .. Len(q) + 1 /\ Append(q, "LOCK")[i] = q[i]
    BY <1>1
  <1>3. /\ q \o t \in Seq(Settings) /\ Len(q \o t) = Len(q) + Len(t)
        /\ \A i \in 1 .. Len(q) : (q \o t)[i] = q[i]
        /\ \A i \in 1 .. Len(t) : (q \o t)[Len(q) + i] = t[i]
    BY <1>1, AfterQueue
  <1>4. ASSUME NEW s \in Settings
        PROVE  \E i \in 1 .. Len(q \o t) : (q \o t)[i] = s
    <2>1. CASE s \notin Servers
      <3>1. PICK i \in 1 .. Len(q) : q[i] = s
        BY <1>1, <2>1
      <3>2. i \in 1 .. Len(q \o t)
        BY <1>1, <1>3
      <3> QED
        BY <1>3, <3>1, <3>2
    <2>2. CASE s \in Servers
      <3>1. PICK i \in 1 .. Len(t) : t[i] = s
        BY <1>1, <2>2
      <3>2. Len(q) + i \in 1 .. Len(q \o t)
        BY <1>1, <1>3
      <3> QED
        BY <1>3, <3>1, <3>2
    <2> QED
      BY <2>1, <2>2
  <1>5. /\ q \o t \in Seq(Settings \cup {"LOCK"})
        /\ \A i \in 1 .. Len(q \o t) : (q \o t)[i] # "LOCK"
    BY <1>3, SettingsApart
  <1>6. \A s \in Settings \ Servers :
           \E i \in 1 .. Len(Append(q, "LOCK")) : Append(q, "LOCK")[i] = s
    BY <1>1, <1>2
  <1> QED
    BY <1>2, <1>4, <1>5, <1>6 DEF q, t

(* The types, when the calls of the framework rest                         *)
LEMMA TaskTypes ==
    ASSUME TypeOK, UNCHANGED halVars, restarts' \in 0 .. MaxRestarts,
           msgs' \in Seq(Messages), outgoing' \in Seq(Settings \cup {"LOCK"}),
           holding' \in {<<>>} \cup {<<Set(s, v)>> : s \in Settings, v \in AllValues},
           modem' \in [up : BOOLEAN, open : BOOLEAN, measures : BOOLEAN,
                       lock : Locks \cup {0, 1}, settings : [Settings -> AllValues]],
           behind' \subseteq Settings \cup {"LOCK"}
    PROVE  TypeOK'
  BY DEF TypeOK, halVars, Messages, Set

(* The modem                                                               *)
ModemType == [up : BOOLEAN, open : BOOLEAN, measures : BOOLEAN,
              lock : Locks \cup {0, 1}, settings : [Settings -> AllValues]]

LEMMA ModemFields ==
    ASSUME NEW m \in ModemType
    PROVE  /\ m.up \in BOOLEAN /\ m.open \in BOOLEAN /\ m.measures \in BOOLEAN
           /\ m.lock \in Locks \cup {0, 1} /\ m.settings \in [Settings -> AllValues]
  BY DEF ModemType

LEMMA ModemChanges ==
    ASSUME TypeOK
    PROVE  /\ modem \in ModemType /\ Opened \in ModemType
           /\ Opened.up = modem.up /\ Opened.open = modem.up /\ Opened.measures = modem.up
           /\ Opened.settings = modem.settings /\ Opened.lock = modem.lock
           /\ \A v \in Locks \cup {0, 1} :
                 LET m == [modem EXCEPT !.lock = v]
                 IN  /\ m \in ModemType /\ m.up = modem.up /\ m.open = modem.open
                     /\ m.measures = modem.measures /\ m.settings = modem.settings
                     /\ m.lock = v
           /\ \A on \in BOOLEAN :
                 LET m == [modem EXCEPT !.measures = on]
                 IN  /\ m \in ModemType /\ m.up = modem.up /\ m.open = modem.open
                     /\ m.measures = on /\ m.settings = modem.settings
                     /\ m.lock = modem.lock
  <1>1. modem \in ModemType
    BY DEF TypeOK, ModemType
  <1>2. /\ Opened \in ModemType
        /\ Opened.up = modem.up /\ Opened.open = modem.up /\ Opened.measures = modem.up
        /\ Opened.settings = modem.settings /\ Opened.lock = modem.lock
    BY <1>1 DEF ModemType, Opened
  <1>3. ASSUME NEW v \in Locks \cup {0, 1}
        PROVE  LET m == [modem EXCEPT !.lock = v]
               IN  /\ m \in ModemType /\ m.up = modem.up /\ m.open = modem.open
                   /\ m.measures = modem.measures /\ m.settings = modem.settings
                   /\ m.lock = v
    BY <1>1 DEF ModemType
  <1>4. ASSUME NEW on \in BOOLEAN
        PROVE  LET m == [modem EXCEPT !.measures = on]
               IN  /\ m \in ModemType /\ m.up = modem.up /\ m.open = modem.open
                   /\ m.measures = on /\ m.settings = modem.settings
                   /\ m.lock = modem.lock
    BY <1>1 DEF ModemType
  <1> QED
    BY <1>1, <1>2, <1>3, <1>4

LEMMA ModemSetting ==
    ASSUME TypeOK, NEW s \in Settings, NEW v \in AllValues
    PROVE  LET m == [modem EXCEPT !.settings[s] = v]
           IN  /\ m \in ModemType /\ m.up = modem.up /\ m.open = modem.open
               /\ m.measures = modem.measures /\ m.lock = modem.lock
               /\ m.settings[s] = v
               /\ \A t \in Settings : t # s => m.settings[t] = modem.settings[t]
  <1>1. modem \in ModemType
    BY DEF TypeOK, ModemType
  <1> QED
    BY <1>1 DEF ModemType

LEMMA TakingTypes ==
    ASSUME ConfInv, NEW type, Take(type), UNCHANGED <<halVars, holding, restarts>>,
           outgoing' \in Seq(Settings \cup {"LOCK"}), modem' \in ModemType,
           behind' \subseteq Settings \cup {"LOCK"}
    PROVE  TypeOK'
  <1>1. msgs' \in Seq(Messages) /\ TypeOK
    BY TakenMessage DEF ConfInv
  <1> QED
    BY <1>1, TaskTypes DEF TypeOK, ModemType

LEMMA OpenKeeps ==
    ASSUME ConfInv, LocOpenMsg \/ LocSsrMsg
    PROVE  ConfInv'
  <1>1. PICK type \in {"open", "ssr"} :
           /\ Take(type) /\ modem' = Opened
           /\ UNCHANGED <<halVars, outgoing, holding, restarts, behind>>
    BY DEF LocOpenMsg, LocSsrMsg, taskVars
  <1>2. /\ Head(msgs).type = type /\ outgoing = <<>> /\ TypeOK
        /\ behind \subseteq Settings \cup {"LOCK"} /\ <<>> \in Seq(Settings \cup {"LOCK"})
    BY <1>1, TakenMessage DEF ConfInv, TypeOK
  <1>3. /\ modem' \in ModemType
        /\ modem'.up = modem.up /\ modem'.open = modem.up /\ modem'.measures = modem.up
        /\ modem'.settings = modem.settings /\ modem'.lock = modem.lock
    BY <1>1, <1>2, ModemChanges
  <1>4. TypeOK'
    BY <1>1, <1>2, <1>3, TakingTypes
  <1>5. Takes(type)
    <2>1. type # "set" /\ type # "lock" /\ type # "registration" /\ type # "up" /\ type # "init"
      OBVIOUS
    <2>2. \A i \in 1 .. Len(outgoing') : FALSE
      BY <1>1, <1>2
    <2> QED
      BY <1>1, <1>2, <1>3, <2>1, <2>2 DEF Takes
  <1> QED
    BY <1>4, <1>5, TakesKeeps

LEMMA SetKeeps ==
    ASSUME ConfInv, LocEngSet
    PROVE  ConfInv'
  <1> DEFINE s == Head(msgs).setting
             v == Head(msgs).value
  <1>1. /\ Take("set") /\ UNCHANGED <<halVars, outgoing, holding, restarts, behind>>
        /\ modem' = IF Reachable THEN [modem EXCEPT !.settings[s] = v] ELSE modem
    BY DEF LocEngSet, taskVars
  <1>2. /\ Head(msgs).type = "set" /\ outgoing = <<>> /\ TypeOK
        /\ behind \subseteq Settings \cup {"LOCK"} /\ <<>> \in Seq(Settings \cup {"LOCK"})
        /\ s \in Settings /\ v \in AllValues
    <2>1. Head(msgs) \in Messages /\ Head(msgs).type = "set" /\ outgoing = <<>>
      BY <1>1, TakenMessage
    <2>2. s \in Settings /\ v \in AllValues
      BY <2>1, MessageFields
    <2> QED
      BY <2>1, <2>2 DEF ConfInv, TypeOK
  <1> HIDE DEF s, v
  <1>3. /\ modem' \in ModemType
        /\ modem'.up = modem.up /\ modem'.open = modem.open
        /\ modem'.measures = modem.measures /\ modem'.lock = modem.lock
        /\ \A t \in Settings : modem'.settings[t] = IF s = t /\ Reachable THEN v
                                                    ELSE modem.settings[t]
    <2>1. CASE Reachable
      BY <1>1, <1>2, <2>1, ModemSetting
    <2>2. CASE ~Reachable
      BY <1>1, <1>2, <2>2, ModemChanges
    <2> QED
      BY <2>1, <2>2
  <1>4. TypeOK'
    BY <1>1, <1>2, <1>3, TakingTypes
  <1>5. Takes("set")
    <2>1. \A i \in 1 .. Len(outgoing') : FALSE
      BY <1>1, <1>2
    <2>2. \A t \in Settings :
             modem'.settings[t] = IF Head(msgs).type = "set" /\ Head(msgs).setting = t /\ Reachable
                                  THEN Head(msgs).value ELSE modem.settings[t]
      BY <1>2, <1>3 DEF s, v
    <2>3. (Reachable => modem.measures) => (modem'.up /\ modem'.open => modem'.measures)
      BY <1>3 DEF Reachable
    <2> QED
      BY <1>1, <1>2, <1>3, <2>1, <2>2, <2>3 DEF Takes
  <1> QED
    BY <1>4, <1>5, TakesKeeps

LEMMA RegistrationKeeps ==
    ASSUME ConfInv, LocEngUpdateRegistrationMask
    PROVE  ConfInv'
  <1> DEFINE on == Head(msgs).on
  <1>1. /\ Take("registration") /\ UNCHANGED <<halVars, outgoing, holding, restarts, behind>>
        /\ modem' = IF Reachable THEN [modem EXCEPT !.measures = on] ELSE modem
    BY DEF LocEngUpdateRegistrationMask, taskVars
  <1>2. /\ Head(msgs).type = "registration" /\ outgoing = <<>> /\ TypeOK
        /\ behind \subseteq Settings \cup {"LOCK"} /\ <<>> \in Seq(Settings \cup {"LOCK"})
        /\ on \in BOOLEAN
    <2>1. Head(msgs) \in Messages /\ Head(msgs).type = "registration" /\ outgoing = <<>>
      BY <1>1, TakenMessage
    <2>2. on \in BOOLEAN
      BY <2>1, MessageFields
    <2> QED
      BY <2>1, <2>2 DEF ConfInv, TypeOK
  <1> HIDE DEF on
  <1>3. /\ modem' \in ModemType
        /\ modem'.up = modem.up /\ modem'.open = modem.open
        /\ modem'.lock = modem.lock /\ modem'.settings = modem.settings
        /\ Reachable => modem'.measures = on
    <2>1. CASE Reachable
      BY <1>1, <1>2, <2>1, ModemChanges
    <2>2. CASE ~Reachable
      BY <1>1, <1>2, <2>2, ModemChanges
    <2> QED
      BY <2>1, <2>2
  <1>4. TypeOK'
    BY <1>1, <1>2, <1>3, TakingTypes
  <1>5. Takes("registration")
    <2>1. \A i \in 1 .. Len(outgoing') : FALSE
      BY <1>1, <1>2
    <2>2. Reachable => modem'.measures = Head(msgs).on
      BY <1>3 DEF on
    <2> QED
      BY <1>1, <1>2, <1>3, <2>1, <2>2 DEF Takes
  <1> QED
    BY <1>4, <1>5, TakesKeeps

LEMMA LockChanges ==
    ASSUME TypeOK, NEW v \in Locks \cup {0, 1}, setGpsLock(v)
    PROVE  /\ modem' \in ModemType
           /\ modem'.up = modem.up /\ modem'.open = modem.open
           /\ modem'.measures = modem.measures /\ modem'.settings = modem.settings
           /\ behind' \subseteq Settings \cup {"LOCK"}
           /\ \A s \in Settings : s \in behind' <=> s \in behind
           /\ "LOCK" \notin behind' => "LOCK" \notin behind /\ modem'.lock = v
  <1>1. behind \subseteq Settings \cup {"LOCK"} /\ modem \in ModemType
    BY ModemChanges DEF TypeOK
  <1>2. CASE Reachable
    <2>1. modem' = [modem EXCEPT !.lock = v] /\ behind' = behind
      BY <1>2 DEF setGpsLock
    <2> QED
      BY <1>1, <2>1, ModemChanges
  <1>3. CASE ~Reachable
    <2>1. modem' = modem /\ behind' = behind \cup {"LOCK"}
      BY <1>3 DEF setGpsLock
    <2> QED
      BY <1>1, <2>1, SettingsApart
  <1> QED
    BY <1>2, <1>3

LEMMA GpsLockKeeps ==
    ASSUME ConfInv, LocEngAdapterGpsLock
    PROVE  ConfInv'
  <1> DEFINE v == Head(msgs).value
  <1>1. /\ Take("lock") /\ UNCHANGED <<halVars, outgoing, holding, restarts>>
        /\ setGpsLock(v)
    BY DEF LocEngAdapterGpsLock, taskVars
  <1>2. /\ Head(msgs).type = "lock" /\ outgoing = <<>> /\ TypeOK
        /\ <<>> \in Seq(Settings \cup {"LOCK"}) /\ v \in Locks \cup {0, 1}
    <2>1. Head(msgs) \in Messages /\ Head(msgs).type = "lock" /\ outgoing = <<>>
      BY <1>1, TakenMessage
    <2>2. v \in Locks \cup {0, 1}
      BY <2>1, MessageFields
    <2> QED
      BY <2>1, <2>2 DEF ConfInv
  <1> HIDE DEF v
  <1>3. /\ modem' \in ModemType
        /\ modem'.up = modem.up /\ modem'.open = modem.open
        /\ modem'.measures = modem.measures /\ modem'.settings = modem.settings
        /\ behind' \subseteq Settings \cup {"LOCK"}
        /\ \A s \in Settings : s \in behind' <=> s \in behind
        /\ "LOCK" \notin behind' => "LOCK" \notin behind /\ modem'.lock = v
    BY <1>1, <1>2, LockChanges
  <1>4. TypeOK'
    BY <1>1, <1>2, <1>3, TakingTypes
  <1>5. Takes("lock")
    <2>1. \A i \in 1 .. Len(outgoing') : FALSE
      BY <1>1, <1>2
    <2>2. (Reachable => modem.measures) => (modem'.up /\ modem'.open => modem'.measures)
      BY <1>3 DEF Reachable
    <2> QED
      BY <1>1, <1>2, <1>3, <2>1, <2>2 DEF Takes, v
  <1> QED
    BY <1>4, <1>5, TakesKeeps

LEMMA EngineKeeps ==
    ASSUME ConfInv, LocEngInit \/ loc_eng_handle_engine_up
    PROVE  ConfInv'
  <1>1. PICK type \in {"init", "up"} :
           /\ Take(type) /\ UNCHANGED <<halVars, holding, restarts, modem, behind>>
           /\ outgoing' = IF type = "init" THEN Append(Reinit, "LOCK") ELSE Reinit \o AgpsReinit
    BY DEF LocEngInit, loc_eng_handle_engine_up
  <1>2. /\ Head(msgs).type = type /\ TypeOK /\ modem \in ModemType
        /\ behind \subseteq Settings \cup {"LOCK"}
    BY <1>1, TakenMessage, ModemChanges DEF ConfInv, TypeOK
  <1>3. /\ outgoing' \in Seq(Settings \cup {"LOCK"})
        /\ type = "up" => \A s \in Settings : \E i \in 1 .. Len(outgoing') : outgoing'[i] = s
        /\ type = "init" =>
              \A s \in Settings \ Servers : \E i \in 1 .. Len(outgoing') : outgoing'[i] = s
        /\ (\E i \in 1 .. Len(outgoing') : outgoing'[i] = "LOCK") => type = "init"
    <2>1. CASE type = "init"
      BY <1>1, <2>1, ReinitOrder
    <2>2. CASE type = "up"
      BY <1>1, <2>2, ReinitOrder
    <2> QED
      BY <2>1, <2>2
  <1>4. TypeOK'
    BY <1>1, <1>2, <1>3, TakingTypes
  <1>5. Takes(type)
    <2>1. type # "set" /\ type # "lock" /\ type # "registration" /\ type \notin {"open", "ssr"}
      OBVIOUS
    <2>2. UNCHANGED <<halVars, holding>> /\ Take(type)
      BY <1>1
    <2> QED
      BY <1>1, <1>2, <1>3, <2>1, <2>2 DEF Takes, Reachable
  <1> QED
    BY <1>4, <1>5, TakesKeeps

(* What the MsgTask reads, it holds or skips                               *)
LEMMA ReadKeeps ==
    ASSUME ConfInv, ReinitRead
    PROVE  ConfInv'
  <1> DEFINE s == Head(outgoing)
  <1>1. /\ outgoing # <<>> /\ holding = <<>> /\ s # "LOCK" /\ outgoing' = Tail(outgoing)
        /\ holding' = IF s \in Servers /\ ~(agps_status_cb /\ copy[s] # 0)
                      THEN <<>> ELSE <<Set(s, copy[s])>>
        /\ behind' = IF holding' = <<>> THEN behind ELSE behind \ {s}
        /\ UNCHANGED <<adapter, agps_status_cb, copy, GPS_LOCK, gnss_measurement_cb,
                       mPowerVote, msgs, modem>>
        /\ UNCHANGED halVars /\ restarts' = restarts
    BY DEF ReinitRead, halVars
  <1>2. /\ TypeOK /\ outgoing \in Seq(Settings \cup {"LOCK"}) /\ copy \in [Settings -> AllValues]
        /\ behind \subseteq Settings \cup {"LOCK"} /\ modem \in ModemType
        /\ msgs \in Seq(Messages) /\ restarts \in 0 .. MaxRestarts
    BY ModemChanges DEF ConfInv, TypeOK
  <1>3. /\ s \in Settings /\ copy[s] \in AllValues
        /\ Tail(outgoing) \in Seq(Settings \cup {"LOCK"}) /\ s = outgoing[1]
        /\ Len(outgoing) \in Nat /\ Len(Tail(outgoing)) = Len(outgoing) - 1
        /\ \A i \in 1 .. Len(outgoing) - 1 : Tail(outgoing)[i] = outgoing[i + 1]
    <2>1. s \in Settings \cup {"LOCK"}
      BY <1>1, <1>2, RestOfQueue
    <2> QED
      BY <1>1, <1>2, <2>1, RestOfQueue
  <1> HIDE DEF s
  <1>4. TypeOK'
    <2>1. holding' \in {<<>>} \cup {<<Set(t, v)>> : t \in Settings, v \in AllValues}
      BY <1>1, <1>3
    <2>2. behind' \subseteq Settings \cup {"LOCK"}
      BY <1>1, <1>2
    <2>3. /\ msgs' \in Seq(Messages) /\ outgoing' \in Seq(Settings \cup {"LOCK"})
          /\ restarts' \in 0 .. MaxRestarts /\ modem' \in ModemType
      BY <1>1, <1>2, <1>3
    <2> QED
      BY <1>1, <1>2, <2>1, <2>2, <2>3, TaskTypes DEF ModemType
  <1>5. ASSUME NEW t, NEW v, holding' = <<Set(t, v)>>
        PROVE  /\ t = s /\ v = copy[s]
               /\ s \in Servers => copy[s] # 0
    <2>1. holding' # <<>> /\ holding'[1] = Set(t, v)
      BY <1>5
    <2>2. ~(s \in Servers /\ ~(agps_status_cb /\ copy[s] # 0))
      BY <1>1, <2>1
    <2>3. holding' = <<Set(s, copy[s])>>
      BY <1>1, <2>2
    <2>4. Set(t, v) = Set(s, copy[s])
      BY <2>1, <2>3
    <2> QED
      BY <2>2, <2>4, Kinds
  <1>6. BeforeInit' /\ WillReopen' /\ MeasuresFit'
    <2>1. adapter
      BY <1>1 DEF ConfInv, BeforeInit
    <2>2. BeforeInit'
      BY <1>1, <2>1 DEF BeforeInit
    <2>3. WillReopen'
      BY <1>1 DEF ConfInv, WillReopen, Before
    <2>4. MeasuresFit'
      BY <1>1 DEF ConfInv, MeasuresFit, Ends, Silent, About, Registration, Reachable
    <2> QED
      BY <2>2, <2>3, <2>4
  <1>7. HoldingFresh'
    BY <1>1, <1>5 DEF HoldingFresh, Set
  <1>8. ServersUnset'
    <2> SUFFICES ASSUME NEW t \in Servers, copy[t] = 0
                 PROVE  /\ modem.settings[t] = 0 /\ Silent(msgs, Set(t, 0))
                        /\ \A v \in AllValues : holding' # <<Set(t, v)>>
      BY <1>1 DEF ServersUnset, Silent, About, Set
    <2>1. modem.settings[t] = 0 /\ Silent(msgs, Set(t, 0))
      BY DEF ConfInv, ServersUnset
    <2> QED
      BY <1>5, <2>1
  <1>9. SettingsFit'
    <2> SUFFICES ASSUME NEW t \in Settings, Promised(t)', t \in Servers => copy'[t] # 0
                 PROVE  Fits(t)'
      BY DEF SettingsFit
    <2>1. CASE t = s
      <3>1. holding' = <<Set(t, copy'[t])>>
        BY <1>1, <2>1 DEF Promised
      <3>2. ComingNext(t)
        BY <3>1 DEF ComingNext
      <3> QED
        BY <3>2, FitsNext
    <2>2. CASE t # s
      <3>1. Fits(t)
        BY <1>1, <2>2 DEF ConfInv, SettingsFit, Promised
      <3>2. CASE \E i \in 1 .. Len(outgoing) : outgoing[i] = t
        <4>1. PICK i \in 1 .. Len(outgoing) : outgoing[i] = t
          BY <3>2
        <4>2. i # 1
          BY <1>3, <2>2, <4>1
        <4>3. /\ i - 1 \in 1 .. Len(outgoing) - 1 /\ (i - 1) + 1 = i
              /\ i - 1 \in 1 .. Len(Tail(outgoing))
          BY <1>3, <4>2
        <4>4. i - 1 \in 1 .. Len(outgoing') /\ outgoing'[i - 1] = t
          BY <1>1, <1>3, <4>1, <4>3
        <4>5. ComingNext(t)
          BY <4>4 DEF ComingNext
        <4> QED
          BY <4>5, FitsNext
      <3>3. CASE Coming(t) /\ ~(\E i \in 1 .. Len(outgoing) : outgoing[i] = t)
        <4>1. ComingNext(t)
          BY <1>1, <3>3 DEF Coming, ComingNext, Holds
        <4> QED
          BY <4>1, FitsNext
      <3>4. CASE Ends(msgs, Set(t, copy[t]))
        BY <1>1, <3>4, FitsNext
      <3>5. CASE Silent(msgs, Set(t, copy[t])) /\ modem.settings[t] = copy[t]
        <4>1. Silent(msgs, Set(t, 0))
          BY <3>5, SilentKinds
        <4> QED
          BY <1>1, <3>5, <4>1, FitsNext
      <3> QED
        BY <3>1, <3>2, <3>3, <3>4, <3>5 DEF Fits
    <2> QED
      BY <2>1, <2>2
  <1>10. InitLocked'
    <2>1. ASSUME NEW i \in 1 .. Len(outgoing'), outgoing'[i] = "LOCK"
          PROVE  Holds(msgs, "lock")
      <3>1. i \in 1 .. Len(outgoing) - 1 /\ i + 1 \in 1 .. Len(outgoing)
        BY <1>1, <1>3
      <3>2. outgoing[i + 1] = "LOCK"
        BY <1>1, <1>3, <2>1, <3>1
      <3> QED
        BY <3>1, <3>2 DEF ConfInv, InitLocked
    <2>2. LockAfterInit(msgs)
      BY DEF ConfInv, InitLocked
    <2> QED
      BY <1>1, <2>1, <2>2 DEF InitLocked, LockAfterInit, Holds
  <1>11. LockFits'
    <2>1. "LOCK" \notin behind' => "LOCK" \notin behind
      BY <1>1
    <2> QED
      BY <1>1, <2>1 DEF ConfInv, LockFits, Ends, Silent, About, Lock, WantedLock
  <1> QED
    BY <1>4, <1>6, <1>7, <1>8, <1>9, <1>10, <1>11 DEF ConfInv

(* What it holds goes behind everything the framework has sent             *)
LEMMA SendKeeps ==
    ASSUME ConfInv, ReinitSend
    PROVE  ConfInv'
  <1>1. /\ holding # <<>> /\ msgs' = msgs \o holding /\ holding' = <<>>
        /\ UNCHANGED <<adapter, agps_status_cb, copy, GPS_LOCK, gnss_measurement_cb,
                       mPowerVote, outgoing, modem, behind>>
        /\ UNCHANGED halVars /\ restarts' = restarts
    BY DEF ReinitSend, halVars
  <1>2. /\ TypeOK /\ outgoing \in Seq(Settings \cup {"LOCK"}) /\ copy \in [Settings -> AllValues]
        /\ behind \subseteq Settings \cup {"LOCK"} /\ modem \in ModemType
        /\ msgs \in Seq(Messages) /\ restarts \in 0 .. MaxRestarts
    BY ModemChanges DEF ConfInv, TypeOK
  <1>3. PICK s \in Settings, v \in AllValues : holding = <<Set(s, v)>>
    BY <1>1 DEF ConfInv, TypeOK
  <1>4. /\ holding \in Seq(Messages) /\ Ends(holding, Set(s, v))
        /\ \A t : t # s => Silent(holding, Set(t, 0))
        /\ Silent(holding, Lock(0)) /\ Silent(holding, Registration(TRUE))
        /\ ~Holds(holding, "init")
    BY <1>3, OnlySetting
  <1>5. TypeOK'
    <2>1. msgs' \in Seq(Messages)
      BY <1>1, <1>2, <1>4, AfterQueue
    <2>2. /\ outgoing' \in Seq(Settings \cup {"LOCK"}) /\ restarts' \in 0 .. MaxRestarts
          /\ modem' \in ModemType /\ behind' \subseteq Settings \cup {"LOCK"}
      BY <1>1, <1>2
    <2>3. holding' \in {<<>>} \cup {<<Set(t, w)>> : t \in Settings, w \in AllValues}
      BY <1>1
    <2> QED
      BY <1>1, <1>2, <2>1, <2>2, <2>3, TaskTypes DEF ModemType
  <1>6. BeforeInit' /\ HoldingFresh'
    <2>1. adapter
      BY <1>1 DEF ConfInv, BeforeInit
    <2> QED
      BY <1>1, <2>1 DEF BeforeInit, HoldingFresh, Set
  <1>7. WillReopen'
    <2>1. ASSUME adapter, modem.up, ~modem.open
          PROVE  Before(msgs', "ssr", "up") \/ (msgs' # <<>> /\ Head(msgs').type = "open")
      <3>1. CASE Before(msgs, "ssr", "up")
        BY <1>1, <1>2, <1>4, <3>1, BeforeAfter
      <3>2. CASE msgs # <<>> /\ Head(msgs).type = "open"
        BY <1>1, <1>2, <1>4, <3>2
      <3> QED
        BY <2>1, <3>1, <3>2 DEF ConfInv, WillReopen
    <2> QED
      BY <1>1, <2>1 DEF ConfInv, WillReopen
  <1>8. ServersUnset'
    <2> SUFFICES ASSUME NEW t \in Servers, copy[t] = 0
                 PROVE  modem.settings[t] = 0 /\ Silent(msgs', Set(t, 0))
      BY <1>1 DEF ServersUnset, Silent, About, Set
    <2>1. /\ modem.settings[t] = 0 /\ Silent(msgs, Set(t, 0))
          /\ \A w \in AllValues : holding # <<Set(t, w)>>
      BY DEF ConfInv, ServersUnset
    <2>2. t # s
      BY <1>3, <2>1
    <2> QED
      BY <1>1, <1>2, <1>4, <2>1, <2>2, SilentAfter
  <1>9. SettingsFit'
    <2> SUFFICES ASSUME NEW t \in Settings, Promised(t)', t \in Servers => copy'[t] # 0
                 PROVE  Fits(t)'
      BY DEF SettingsFit
    <2>1. CASE t = s
      <3>1. v = copy'[t]
        BY <1>1, <1>3, <2>1 DEF ConfInv, HoldingFresh, Promised
      <3>2. Ends(msgs', Set(t, copy'[t]))
        BY <1>1, <1>2, <1>4, <2>1, <3>1, EndsAfter
      <3> QED
        BY <3>2, FitsNext
    <2>2. CASE t # s
      <3>1. Fits(t)
        BY <1>1 DEF ConfInv, SettingsFit, Promised
      <3>2. CASE Coming(t)
        <4>1. holding # <<Set(t, copy[t])>>
          <5>1. Set(s, v).setting = s /\ Set(t, copy[t]).setting = t
            BY Kinds
          <5>2. <<Set(s, v)>>[1] = Set(s, v) /\ <<Set(t, copy[t])>>[1] = Set(t, copy[t])
            OBVIOUS
          <5> QED
            BY <1>3, <2>2, <5>1, <5>2
        <4>2. /\ Holds(msgs, "up") => Holds(msgs', "up")
              /\ Holds(msgs, "init") => Holds(msgs', "init")
          BY <1>1, <1>2, <1>4, HoldsAfter
        <4>3. ComingNext(t)
          BY <1>1, <3>2, <4>1, <4>2 DEF Coming, ComingNext
        <4> QED
          BY <4>3, FitsNext
      <3>3. CASE Ends(msgs, Set(t, copy[t]))
        <4>1. Silent(holding, Set(t, copy[t]))
          BY <1>4, <2>2, SilentKinds
        <4>2. Ends(msgs', Set(t, copy'[t]))
          BY <1>1, <1>2, <1>4, <3>3, <4>1, EndsAfter
        <4> QED
          BY <4>2, FitsNext
      <3>4. CASE Silent(msgs, Set(t, copy[t])) /\ modem.settings[t] = copy[t]
        <4>1. Silent(msgs, Set(t, 0)) /\ Silent(holding, Set(t, 0))
          BY <1>4, <2>2, <3>4, SilentKinds
        <4>2. Silent(msgs', Set(t, 0))
          BY <1>1, <1>2, <1>4, <4>1, SilentAfter
        <4> QED
          BY <1>1, <3>4, <4>2, FitsNext
      <3> QED
        BY <3>1, <3>2, <3>3, <3>4 DEF Fits
    <2> QED
      BY <2>1, <2>2
  <1>10. InitLocked'
    <2>1. LockAfterInit(msgs') /\ (Holds(msgs, "lock") => Holds(msgs', "lock"))
      BY <1>1, <1>2, <1>4, LocksAfter, HoldsAfter DEF ConfInv, InitLocked
    <2> QED
      BY <1>1, <2>1 DEF ConfInv, InitLocked, LockAfterInit, Holds
  <1>11. LockFits'
    <2> SUFFICES ASSUME "LOCK" \notin behind
                 PROVE  \/ Ends(msgs', Lock(WantedLock))
                        \/ Silent(msgs', Lock(WantedLock)) /\ modem.lock = WantedLock
      BY <1>1 DEF LockFits, Ends, Silent, About, Lock, WantedLock
    <2>1. Silent(holding, Lock(WantedLock))
      BY <1>4, SilentKinds
    <2>2. \/ Ends(msgs, Lock(WantedLock))
          \/ Silent(msgs, Lock(WantedLock)) /\ modem.lock = WantedLock
      BY DEF ConfInv, LockFits
    <2> QED
      BY <1>1, <1>2, <1>4, <2>1, <2>2, EndsAfter, SilentAfter
  <1>12. MeasuresFit'
    <2> SUFFICES ASSUME gnss_measurement_cb
                 PROVE  \/ Ends(msgs', Registration(TRUE))
                        \/ /\ Silent(msgs', Registration(TRUE))
                           /\ Reachable => modem.measures
      BY <1>1 DEF MeasuresFit, Ends, Silent, About, Registration, Reachable
    <2>1. \/ Ends(msgs, Registration(TRUE))
          \/ Silent(msgs, Registration(TRUE)) /\ (Reachable => modem.measures)
      BY DEF ConfInv, MeasuresFit
    <2> QED
      BY <1>1, <1>2, <1>4, <2>1, EndsAfter, SilentAfter
  <1> QED
    BY <1>5, <1>6, <1>7, <1>8, <1>9, <1>10, <1>11, <1>12 DEF ConfInv

(* The engine locks the modem itself, and a lock of the framework follows  *)
LEMMA InitLockKeeps ==
    ASSUME ConfInv, InitLock
    PROVE  ConfInv'
  <1>1. /\ outgoing = <<"LOCK">> /\ outgoing' = <<>> /\ setGpsLock(1)
        /\ UNCHANGED <<adapter, agps_status_cb, copy, GPS_LOCK, gnss_measurement_cb,
                       mPowerVote, msgs, holding>>
        /\ UNCHANGED halVars /\ restarts' = restarts
    BY DEF InitLock, halVars
  <1>2. /\ TypeOK /\ msgs \in Seq(Messages) /\ restarts \in 0 .. MaxRestarts
        /\ holding \in {<<>>} \cup {<<Set(t, w)>> : t \in Settings, w \in AllValues}
        /\ adapter
    <2>1. adapter
      BY <1>1 DEF ConfInv, BeforeInit
    <2> QED
      BY <2>1 DEF ConfInv, TypeOK
  <1>3. /\ modem' \in ModemType
        /\ modem'.up = modem.up /\ modem'.open = modem.open
        /\ modem'.measures = modem.measures /\ modem'.settings = modem.settings
        /\ behind' \subseteq Settings \cup {"LOCK"}
        /\ \A s \in Settings : s \in behind' <=> s \in behind
        /\ "LOCK" \notin behind' => "LOCK" \notin behind
    BY <1>1, <1>2, LockChanges
  <1>4. TypeOK'
    <2>1. <<>> \in Seq(Settings \cup {"LOCK"})
      OBVIOUS
    <2> QED
      BY <1>1, <1>2, <1>3, <2>1, TaskTypes DEF ModemType
  <1>5. BeforeInit' /\ HoldingFresh' /\ WillReopen'
    <2>1. BeforeInit'
      BY <1>1, <1>2 DEF BeforeInit
    <2>2. WillReopen'
      BY <1>1, <1>3 DEF ConfInv, WillReopen, Before
    <2>3. HoldingFresh'
      BY <1>1, <1>3 DEF ConfInv, HoldingFresh, Set
    <2> QED
      BY <2>1, <2>2, <2>3
  <1>6. ServersUnset'
    BY <1>1, <1>3 DEF ConfInv, ServersUnset, Silent, About, Set
  <1>7. SettingsFit'
    <2> SUFFICES ASSUME NEW t \in Settings, Promised(t)', t \in Servers => copy'[t] # 0
                 PROVE  Fits(t)'
      BY DEF SettingsFit
    <2>1. Fits(t)
      BY <1>1, <1>3 DEF ConfInv, SettingsFit, Promised
    <2>2. ~(\E i \in 1 .. Len(outgoing) : outgoing[i] = t)
      BY <1>1, SettingsApart
    <2>3. CASE Coming(t)
      <3>1. ComingNext(t)
        BY <1>1, <1>3, <2>2, <2>3 DEF Coming, ComingNext, Holds
      <3> QED
        BY <3>1, FitsNext
    <2>4. CASE Ends(msgs, Set(t, copy[t]))
      BY <1>1, <2>4, FitsNext
    <2>5. CASE Silent(msgs, Set(t, copy[t])) /\ modem.settings[t] = copy[t]
      <3>1. Silent(msgs, Set(t, 0))
        BY <2>5, SilentKinds
      <3> QED
        BY <1>1, <1>3, <2>5, <3>1, FitsNext
    <2> QED
      BY <2>1, <2>3, <2>4, <2>5 DEF Fits
  <1>8. InitLocked'
    <2>1. LockAfterInit(msgs) /\ \A i \in 1 .. Len(outgoing') : FALSE
      BY <1>1 DEF ConfInv, InitLocked
    <2> QED
      BY <1>1, <2>1 DEF InitLocked, LockAfterInit
  <1>9. LockFits'
    <2> SUFFICES ASSUME "LOCK" \notin behind'
                 PROVE  Ends(msgs, Lock(WantedLock))
      BY <1>1 DEF LockFits, Ends, About, Lock, WantedLock
    <2>1. Holds(msgs, "lock")
      <3>1. 1 \in 1 .. Len(outgoing) /\ outgoing[1] = "LOCK"
        BY <1>1
      <3> QED
        BY <3>1 DEF ConfInv, InitLocked
    <2>2. ~Silent(msgs, Lock(WantedLock))
      BY <2>1, LockHeld
    <2> QED
      BY <1>3, <2>2 DEF ConfInv, LockFits
  <1>10. MeasuresFit'
    BY <1>1, <1>3 DEF ConfInv, MeasuresFit, Ends, Silent, About, Registration, Reachable
  <1> QED
    BY <1>4, <1>5, <1>6, <1>7, <1>8, <1>9, <1>10 DEF ConfInv

-----------------------------------------------------------------------------
(* The modem                                                               *)

LEMMA ModemRestarts ==
    ASSUME TypeOK, NEW none \in [Settings -> AllValues]
    PROVE  /\ LET m == [modem EXCEPT !.up = FALSE, !.open = FALSE, !.measures = FALSE,
                                    !.settings = none]
              IN  /\ m \in ModemType /\ m.up = FALSE /\ m.open = FALSE
                  /\ m.settings = none /\ m.lock = modem.lock
           /\ LET m == [modem EXCEPT !.up = TRUE]
              IN  /\ m \in ModemType /\ m.up = TRUE /\ m.open = modem.open
                  /\ m.settings = modem.settings /\ m.lock = modem.lock
  <1>1. modem \in ModemType
    BY ModemChanges
  <1>2. LET m == [modem EXCEPT !.up = FALSE, !.open = FALSE, !.measures = FALSE,
                              !.settings = none]
        IN  /\ m \in ModemType /\ m.up = FALSE /\ m.open = FALSE
            /\ m.settings = none /\ m.lock = modem.lock
    BY <1>1 DEF ModemType
  <1>3. LET m == [modem EXCEPT !.up = TRUE]
        IN  /\ m \in ModemType /\ m.up = TRUE /\ m.open = modem.open
            /\ m.settings = modem.settings /\ m.lock = modem.lock
    BY <1>1 DEF ModemType
  <1> QED
    BY <1>2, <1>3

(* A restart forgets the settings: the copies are sent again               *)
LEMMA DownKeeps ==
    ASSUME ConfInv, ModemDown
    PROVE  ConfInv'
  <1>1. /\ adapter /\ restarts < MaxRestarts /\ restarts' = restarts + 1
        /\ modem' = [modem EXCEPT !.up = FALSE, !.open = FALSE, !.measures = FALSE,
                                  !.settings = [s \in Settings |-> 0]]
        /\ UNCHANGED <<adapter, agps_status_cb, copy, GPS_LOCK, gnss_measurement_cb,
                       mPowerVote, msgs, outgoing, holding, behind>>
        /\ UNCHANGED halVars
    BY DEF ModemDown, halVars, taskVars
  <1>2. /\ TypeOK /\ msgs \in Seq(Messages) /\ restarts \in 0 .. MaxRestarts
        /\ holding \in {<<>>} \cup {<<Set(t, w)>> : t \in Settings, w \in AllValues}
        /\ outgoing \in Seq(Settings \cup {"LOCK"}) /\ behind \subseteq Settings \cup {"LOCK"}
        /\ modem \in ModemType
    BY ModemChanges DEF ConfInv, TypeOK
  <1>3. /\ modem' \in ModemType /\ ~modem'.up /\ ~modem'.open
        /\ modem'.settings = [s \in Settings |-> 0] /\ modem'.lock = modem.lock
    <2> DEFINE none == [s \in Settings |-> 0]
    <2>1. none \in [Settings -> AllValues] /\ TypeOK
      BY <1>2, SettingsApart
    <2>2. modem' = [modem EXCEPT !.up = FALSE, !.open = FALSE, !.measures = FALSE,
                                 !.settings = none]
      BY <1>1
    <2>3. none = [s \in Settings |-> 0]
      OBVIOUS
    <2> HIDE DEF none
    <2>4. /\ modem' \in ModemType /\ modem'.up = FALSE /\ modem'.open = FALSE
          /\ modem'.settings = none /\ modem'.lock = modem.lock
      BY <2>1, <2>2, ModemRestarts
    <2> QED
      BY <2>3, <2>4
  <1>4. TypeOK'
    <2>1. restarts' \in 0 .. MaxRestarts
      BY <1>1, <1>2, LocEngConfAssumption
    <2> QED
      BY <1>1, <1>2, <1>3, <2>1, TaskTypes DEF ModemType
  <1>5. BeforeInit' /\ WillReopen'
    BY <1>1, <1>3 DEF BeforeInit, WillReopen
  <1>6. HoldingFresh'
    BY <1>1 DEF ConfInv, HoldingFresh, Set
  <1>7. ServersUnset'
    <2>1. \A s \in Servers : modem'.settings[s] = 0
      BY <1>3, SettingsApart
    <2> QED
      BY <1>1, <2>1 DEF ConfInv, ServersUnset, Silent, About, Set
  <1>8. SettingsFit'
    <2>1. \A s \in Settings : ComingNext(s)
      BY <1>3 DEF ComingNext
    <2>2. \A s \in Settings : Fits(s)'
      BY <2>1, FitsNext
    <2> QED
      BY <2>2 DEF SettingsFit
  <1>9. InitLocked'
    BY <1>1 DEF ConfInv, InitLocked, LockAfterInit, Holds
  <1>10. LockFits'
    BY <1>1, <1>3 DEF ConfInv, LockFits, Ends, Silent, About, Lock, WantedLock
  <1>11. MeasuresFit'
    <2>1. ~Reachable'
      BY <1>3 DEF Reachable
    <2> QED
      BY <1>1, <2>1 DEF ConfInv, MeasuresFit, Ends, Silent, About, Registration
  <1> QED
    BY <1>4, <1>5, <1>6, <1>7, <1>8, <1>9, <1>10, <1>11 DEF ConfInv

LEMMA UpKeeps ==
    ASSUME ConfInv, handleEngineUpEvent
    PROVE  ConfInv'
  <1> DEFINE told == <<Msg("ssr"), Msg("up")>>
  <1>1. /\ ~modem.up /\ modem' = [modem EXCEPT !.up = TRUE] /\ msgs' = msgs \o told
        /\ UNCHANGED <<adapter, agps_status_cb, copy, GPS_LOCK, gnss_measurement_cb,
                       mPowerVote, outgoing, holding, behind>>
        /\ UNCHANGED halVars /\ restarts' = restarts
    BY DEF handleEngineUpEvent, halVars, taskVars
  <1>2. /\ TypeOK /\ msgs \in Seq(Messages) /\ restarts \in 0 .. MaxRestarts
        /\ holding \in {<<>>} \cup {<<Set(t, w)>> : t \in Settings, w \in AllValues}
        /\ outgoing \in Seq(Settings \cup {"LOCK"}) /\ behind \subseteq Settings \cup {"LOCK"}
        /\ modem \in ModemType
    BY ModemChanges DEF ConfInv, TypeOK
  <1>3. /\ modem' \in ModemType /\ modem'.up /\ ~modem'.open
        /\ modem'.settings = modem.settings /\ modem'.lock = modem.lock
    <2>1. ~modem.open
      BY <1>1 DEF ConfInv, WillReopen
    <2>2. modem.settings \in [Settings -> AllValues] /\ TypeOK
      BY <1>2, ModemFields
    <2>3. modem' = [modem EXCEPT !.up = TRUE]
      BY <1>1
    <2>4. /\ modem' \in ModemType /\ modem'.up = TRUE /\ modem'.open = modem.open
          /\ modem'.settings = modem.settings /\ modem'.lock = modem.lock
      BY <2>2, <2>3, ModemRestarts
    <2> QED
      BY <2>1, <2>4
  <1>4. /\ told \in Seq(Messages) /\ Len(told) = 2
        /\ told[1].type = "ssr" /\ told[2].type = "up"
    <2>1. Msg("ssr") \in Messages /\ Msg("up") \in Messages
      BY MessageTypes
    <2>2. told[1] = Msg("ssr") /\ told[2] = Msg("up") /\ Len(told) = 2
      OBVIOUS
    <2> QED
      BY <2>1, <2>2, Kinds
  <1> HIDE DEF told
  <1>5. /\ \A s : Silent(told, Set(s, 0))
        /\ Silent(told, Lock(0)) /\ Silent(told, Registration(TRUE))
        /\ ~Holds(told, "init") /\ Holds(told, "up") /\ Before(told, "ssr", "up")
    <2>1. 1 .. Len(told) = {1, 2} /\ 1 < 2
      BY <1>4
    <2>2. \A i \in 1 .. Len(told) : told[i].type \in {"ssr", "up"}
      BY <1>4, <2>1
    <2>3. ~Holds(told, "init") /\ Holds(told, "up") /\ Before(told, "ssr", "up")
      BY <1>4, <2>1, <2>2 DEF Holds, Before
    <2> QED
      BY <2>2, <2>3, AboutKinds DEF Silent
  <1>6. TypeOK'
    <2>1. msgs' \in Seq(Messages)
      BY <1>1, <1>2, <1>4, AfterQueue
    <2>2. /\ outgoing' \in Seq(Settings \cup {"LOCK"}) /\ restarts' \in 0 .. MaxRestarts
          /\ behind' \subseteq Settings \cup {"LOCK"} /\ UNCHANGED halVars
          /\ holding' \in {<<>>} \cup {<<Set(t, w)>> : t \in Settings, w \in AllValues}
      BY <1>1, <1>2
    <2> QED
      BY <1>2, <1>3, <2>1, <2>2, TaskTypes DEF ModemType
  <1>7. BeforeInit' /\ WillReopen'
    <2>1. adapter
      BY <1>1 DEF ConfInv, BeforeInit
    <2>2. Before(msgs', "ssr", "up")
      BY <1>1, <1>2, <1>4, <1>5, BeforeAfter
    <2> QED
      BY <1>1, <1>3, <2>1, <2>2 DEF BeforeInit, WillReopen
  <1>8. HoldingFresh'
    BY <1>1 DEF ConfInv, HoldingFresh, Set
  <1>9. ServersUnset'
    <2> SUFFICES ASSUME NEW t \in Servers, copy[t] = 0
                 PROVE  /\ modem.settings[t] = 0 /\ Silent(msgs', Set(t, 0))
                        /\ \A w \in AllValues : holding # <<Set(t, w)>>
      BY <1>1, <1>3 DEF ServersUnset, Silent, About, Set
    <2>1. /\ modem.settings[t] = 0 /\ Silent(msgs, Set(t, 0))
          /\ \A w \in AllValues : holding # <<Set(t, w)>>
      BY DEF ConfInv, ServersUnset
    <2> QED
      BY <1>1, <1>2, <1>4, <1>5, <2>1, SilentAfter
  <1>10. SettingsFit'
    <2>1. Holds(msgs', "up")
      BY <1>1, <1>2, <1>4, <1>5, HoldsAfter
    <2>2. \A s \in Settings : ComingNext(s)
      BY <2>1 DEF ComingNext
    <2>3. \A s \in Settings : Fits(s)'
      BY <2>2, FitsNext
    <2> QED
      BY <2>3 DEF SettingsFit
  <1>11. InitLocked'
    <2>1. LockAfterInit(msgs') /\ (Holds(msgs, "lock") => Holds(msgs', "lock"))
      BY <1>1, <1>2, <1>4, <1>5, LocksAfter, HoldsAfter DEF ConfInv, InitLocked
    <2> QED
      BY <1>1, <2>1 DEF ConfInv, InitLocked, LockAfterInit, Holds
  <1>12. LockFits'
    <2> SUFFICES ASSUME "LOCK" \notin behind
                 PROVE  \/ Ends(msgs', Lock(WantedLock))
                        \/ Silent(msgs', Lock(WantedLock)) /\ modem.lock = WantedLock
      BY <1>1, <1>3 DEF LockFits, Ends, Silent, About, Lock, WantedLock
    <2>1. Silent(told, Lock(WantedLock))
      BY <1>5, SilentKinds
    <2>2. \/ Ends(msgs, Lock(WantedLock))
          \/ Silent(msgs, Lock(WantedLock)) /\ modem.lock = WantedLock
      BY DEF ConfInv, LockFits
    <2> QED
      BY <1>1, <1>2, <1>4, <2>1, <2>2, EndsAfter, SilentAfter
  <1>13. MeasuresFit'
    <2>1. ~Reachable'
      BY <1>3 DEF Reachable
    <2> SUFFICES ASSUME gnss_measurement_cb
                 PROVE  Ends(msgs', Registration(TRUE)) \/ Silent(msgs', Registration(TRUE))
      BY <1>1, <2>1 DEF MeasuresFit, Ends, Silent, About, Registration
    <2>2. Ends(msgs, Registration(TRUE)) \/ Silent(msgs, Registration(TRUE))
      BY DEF ConfInv, MeasuresFit
    <2>3. Silent(told, Registration(TRUE))
      BY <1>5
    <2>4. msgs' = msgs \o told /\ msgs \in Seq(Messages) /\ told \in Seq(Messages)
      BY <1>1, <1>2, <1>4
    <2>5. CASE Ends(msgs, Registration(TRUE))
      BY <2>3, <2>4, <2>5, EndsAfter
    <2>6. CASE Silent(msgs, Registration(TRUE))
      BY <2>3, <2>4, <2>6, SilentAfter
    <2> QED
      BY <2>2, <2>5, <2>6
  <1> QED
    BY <1>6, <1>7, <1>8, <1>9, <1>10, <1>11, <1>12, <1>13 DEF ConfInv

-----------------------------------------------------------------------------
(* The theorems                                                            *)

LEMMA InitFits == Init => ConfInv
  <1> SUFFICES ASSUME Init PROVE ConfInv
    OBVIOUS
  <1>1. /\ msgs = <<>> /\ outgoing = <<>> /\ holding = <<>> /\ ~adapter
        /\ behind = Settings \cup {"LOCK"}
        /\ ~agps_status_cb /\ ~gnss_measurement_cb
        /\ modem = [up |-> TRUE, open |-> FALSE, lock |-> 0, measures |-> FALSE,
                    settings |-> [s \in Settings |-> 0]]
    BY DEF Init
  <1>2. modem.up /\ ~modem.open /\ modem.settings = [s \in Settings |-> 0]
    BY <1>1
  <1>3. TypeOK
    <2>1. copy \in [Settings -> AllValues] /\ given \in [Servers -> AllValues]
      BY SettingsApart DEF Init
    <2>2. modem \in ModemType
      BY <1>1, SettingsApart DEF ModemType
    <2>3. msgs \in Seq(Messages) /\ outgoing \in Seq(Settings \cup {"LOCK"})
      BY <1>1
    <2>4. calls \in 0 .. MaxCalls /\ restarts \in 0 .. MaxRestarts
      BY LocEngConfAssumption DEF Init
    <2>5. /\ adapter \in BOOLEAN /\ agps_status_cb \in BOOLEAN /\ mPowerVote \in BOOLEAN
          /\ gnss_measurement_cb \in BOOLEAN /\ GPS_LOCK \in Locks
      BY DEF Init
    <2> QED
      BY <1>1, <2>1, <2>2, <2>3, <2>4, <2>5 DEF TypeOK, ModemType
  <1>4. \A i \in 1 .. Len(<<>>) : FALSE
    OBVIOUS
  <1>5. BeforeInit /\ WillReopen /\ SettingsFit /\ LockFits /\ MeasuresFit
    BY <1>1, <1>2 DEF BeforeInit, WillReopen, SettingsFit, Promised, LockFits, MeasuresFit
  <1>6. HoldingFresh /\ ServersUnset /\ InitLocked
    BY <1>1, <1>2, <1>4, SettingsApart
    DEF HoldingFresh, ServersUnset, InitLocked, LockAfterInit, Silent
  <1> QED
    BY <1>3, <1>5, <1>6 DEF ConfInv

LEMMA StutterKeeps ==
    ASSUME ConfInv, UNCHANGED vars
    PROVE  ConfInv'
  <1>1. /\ UNCHANGED <<adapter, agps_status_cb, copy, given, GPS_LOCK,
                       gnss_measurement_cb, mPowerVote, calls>>
        /\ UNCHANGED <<msgs, outgoing, holding, modem, restarts, behind>>
    BY DEF vars, halVars, taskVars
  <1>2. TypeOK'
    BY <1>1 DEF ConfInv, TypeOK, Messages, Set
  <1>3. \A s \in Settings : Fits(s)' <=> Fits(s)
    BY <1>1 DEF Fits, Coming, Ends, Silent, Holds, About, Set
  <1>4. SettingsFit'
    BY <1>1, <1>3 DEF ConfInv, SettingsFit, Promised
  <1>5. BeforeInit' /\ WillReopen' /\ HoldingFresh' /\ ServersUnset'
    BY <1>1 DEF ConfInv, BeforeInit, WillReopen, HoldingFresh, ServersUnset, Before, Silent,
                About, Set
  <1>6. InitLocked' /\ LockFits' /\ MeasuresFit'
    BY <1>1 DEF ConfInv, InitLocked, LockAfterInit, LockFits, MeasuresFit, WantedLock,
                Ends, Silent, Holds, About, Lock, Registration, Reachable
  <1> QED
    BY <1>2, <1>4, <1>5, <1>6 DEF ConfInv

LEMMA StepKeeps == ConfInv /\ [Next]_vars => ConfInv'
  <1> SUFFICES ASSUME ConfInv, [Next]_vars PROVE ConfInv'
    OBVIOUS
  <1>1. CASE Framework
    BY <1>1, FrameworkKeeps
  <1>2. CASE MsgTask
    BY <1>2, OpenKeeps, SetKeeps, GpsLockKeeps, RegistrationKeeps, EngineKeeps, ReadKeeps,
       SendKeeps, InitLockKeeps DEF MsgTask
  <1>3. CASE ModemDown \/ handleEngineUpEvent
    BY <1>3, DownKeeps, UpKeeps
  <1>4. CASE UNCHANGED vars
    BY <1>4, StutterKeeps
  <1> QED
    BY <1>1, <1>2, <1>3, <1>4 DEF Next

(* Of what lost its copy nothing is sent                                   *)
LEMMA GivenKeeps ==
    ASSUME ConfInv, GivenFits, [Next]_vars
    PROVE  GivenFits'
  <1> SUFFICES ASSUME NEW s \in Servers
               PROVE  copy'[s] = given'[s] \/ (adapter' /\ copy'[s] = 0 /\ s \in behind')
    BY DEF GivenFits
  <1>1. /\ s \in Settings /\ s # "LOCK" /\ s # "DATA" /\ s \notin Updated
        /\ copy \in [Settings -> AllValues] /\ given \in [Servers -> AllValues]
    BY SettingsApart DEF ConfInv, TypeOK
  <1>2. copy[s] = given[s] \/ (adapter /\ copy[s] = 0 /\ s \in behind)
    BY DEF GivenFits
  <1>3. ASSUME UNCHANGED <<adapter, given>>, copy'[s] = copy[s],
               s \in behind /\ copy[s] = 0 => s \in behind'
        PROVE  copy'[s] = given'[s] \/ (adapter' /\ copy'[s] = 0 /\ s \in behind')
    BY <1>2, <1>3
  <1>4. \A S : Changed(S) /\ s \notin S => (s \in behind => s \in behind')
    BY DEF Changed
  <1>5. CASE loc_init
    <2>1. CASE adapter
      BY <1>1, <1>2, <1>5, <2>1 DEF loc_init, loc_eng_init
    <2>2. CASE ~adapter
      <3>1. /\ adapter' = TRUE /\ copy'[s] = 0 /\ given' = given
            /\ behind' = {r \in Servers : copy[r] # 0}
        BY <1>1, <1>5, <2>2 DEF loc_init, loc_eng_init
      <3> QED
        BY <1>2, <2>2, <3>1
    <2> QED
      BY <2>1, <2>2
  <1>6. CASE loc_cleanup
    BY <1>1, <1>3, <1>6 DEF loc_cleanup
  <1>7. CASE loc_eng_set_server_proxy
    <2>1. PICK t \in Servers, v \in Values :
             /\ copy' = [copy EXCEPT ![t] = v] /\ given' = [given EXCEPT ![t] = v]
             /\ adapter' = adapter /\ (behind' = behind \/ Changed({t}))
      BY <1>7 DEF loc_eng_set_server_proxy
    <2>2. CASE s = t
      BY <1>1, <2>1, <2>2
    <2>3. CASE s # t
      <3>1. copy'[s] = copy[s] /\ given'[s] = given[s] /\ (s \in behind => s \in behind')
        BY <1>1, <1>4, <2>1, <2>3
      <3> QED
        BY <1>2, <2>1, <3>1
    <2> QED
      BY <2>2, <2>3
  <1>8. CASE loc_eng_agps_init
    <2>1. UNCHANGED <<adapter, copy, given>> /\ Changed({r \in Servers : copy[r] # 0})
      BY <1>8 DEF loc_eng_agps_init
    <2> QED
      BY <1>3, <1>4, <2>1
  <1>9. CASE loc_eng_agps_ril_update_network_availability
    <2>1. PICK available \in {0, 1} :
             /\ copy' = [copy EXCEPT !["DATA"] = available] /\ UNCHANGED <<adapter, given>>
             /\ Changed({"DATA"}) \/ behind' = behind \cup {"DATA"}
      BY <1>9 DEF loc_eng_agps_ril_update_network_availability
    <2>2. copy'[s] = copy[s] /\ (s \in behind => s \in behind')
      BY <1>1, <1>4, <2>1
    <2> QED
      BY <1>3, <2>1, <2>2
  <1>10. CASE loc_eng_configuration_update
    <2>1. PICK changes :
             /\ copy' = [r \in Settings |-> IF r \in Updated THEN changes[r] ELSE copy[r]]
             /\ UNCHANGED <<adapter, given>>
             /\ \/ Changed(ToSet(SetToSeq({r \in Updated : changes[r] # copy[r]})) \cup {"LOCK"})
                \/ behind' = behind
      BY <1>10 DEF loc_eng_configuration_update
    <2> DEFINE S == {r \in Updated : changes[r] # copy[r]}
    <2>2. IsFiniteSet(S) /\ S \subseteq Settings
      BY SettingsFinite, SettingsApart
    <2>3. ToSet(SetToSeq(S)) = S
      BY <2>2, SetToSeqSet
    <2>4. s \notin ToSet(SetToSeq(S)) \cup {"LOCK"}
      BY <1>1, <2>3
    <2>5. copy'[s] = copy[s]
      BY <1>1, <2>1
    <2>6. s \in behind => s \in behind'
      BY <1>4, <2>1, <2>4
    <2> QED
      BY <1>3, <2>1, <2>5, <2>6
  <1>11. CASE loc_eng_gps_measurement_init \/ loc_eng_gps_measurement_close
    BY <1>3, <1>11 DEF loc_eng_gps_measurement_init, loc_eng_gps_measurement_close
  <1>12. CASE MsgTask /\ ~ReinitRead
    <2>1. UNCHANGED halVars /\ (s \in behind => s \in behind')
      BY <1>12 DEF MsgTask, LocOpenMsg, LocSsrMsg, LocEngSet, LocEngAdapterGpsLock,
                   LocEngUpdateRegistrationMask, LocEngInit, loc_eng_handle_engine_up,
                   ReinitSend, InitLock, setGpsLock
    <2> QED
      BY <1>3, <2>1 DEF halVars
  <1>13. CASE ReinitRead
    <2>1. UNCHANGED halVars
      BY <1>13 DEF ReinitRead
    <2>2. ASSUME s \in behind, copy[s] = 0 PROVE s \in behind'
      <3>1. CASE Head(outgoing) = s
        BY <1>13, <2>2, <3>1 DEF ReinitRead
      <3>2. CASE Head(outgoing) # s
        BY <1>13, <2>2, <3>2 DEF ReinitRead
      <3> QED
        BY <3>1, <3>2
    <2> QED
      BY <1>3, <2>1, <2>2 DEF halVars
  <1>14. CASE ModemDown \/ handleEngineUpEvent \/ UNCHANGED vars
    BY <1>3, <1>14 DEF ModemDown, handleEngineUpEvent, vars, halVars
  <1> QED
    BY <1>5, <1>6, <1>7, <1>8, <1>9, <1>10, <1>11, <1>12, <1>13, <1>14 DEF Next, Framework

(* When nothing is on its way, what fits has arrived                       *)
LEMMA SettledFits ==
    ASSUME ConfInv, Settled
    PROVE  /\ \A s \in Settings : Promised(s) => modem.settings[s] = copy[s]
           /\ gnss_measurement_cb => modem.measures
           /\ "LOCK" \notin behind => modem.lock = WantedLock
  <1>1. msgs = <<>> /\ outgoing = <<>> /\ holding = <<>> /\ Reachable /\ modem.up
    BY DEF Settled, Reachable
  <1>2. \A type, k : ~Holds(msgs, type) /\ ~Ends(msgs, k)
    <2>1. \A i \in 1 .. Len(<<>>) : FALSE
      OBVIOUS
    <2> QED
      BY <1>1, <2>1 DEF Holds, Ends
  <1>3. ASSUME NEW s \in Settings, Promised(s) PROVE modem.settings[s] = copy[s]
    <2>1. CASE s \in Servers /\ copy[s] = 0
      BY <2>1 DEF ConfInv, ServersUnset
    <2>2. CASE s \in Servers => copy[s] # 0
      <3>1. ~Coming(s)
        <4>1. \A i \in 1 .. Len(<<>>) : FALSE
          OBVIOUS
        <4> QED
          BY <1>1, <1>2, <4>1 DEF Coming
      <3> QED
        BY <1>2, <1>3, <2>2, <3>1 DEF ConfInv, SettingsFit, Fits
    <2> QED
      BY <2>1, <2>2
  <1>4. gnss_measurement_cb => modem.measures
    BY <1>1, <1>2 DEF ConfInv, MeasuresFit
  <1>5. "LOCK" \notin behind => modem.lock = WantedLock
    BY <1>2 DEF ConfInv, LockFits
  <1> QED
    BY <1>3, <1>4, <1>5

(* The values are always of their types, and whenever the message task has  *)
(* nothing to do and the modem can be reached, every promised setting has   *)
(* in the modem the value of the engine's copy, a promised server the one   *)
(* the framework gave last, and the modem reports the measurements the      *)
(* framework wants: whatever the calls of the framework, the restarts, and  *)
(* the order in which both threads read and send (loc_eng_reinit(),         *)
(* loc_eng_configuration_update(), loc_eng_handle_engine_up()).  Of the     *)
(* servers only those set before the first loc_init() and not since are not *)
(* promised for good: it clears their copies                               *)
THEOREM SettingsArrive == Spec => []SettingsReachModem
  <1>1. Init => GivenFits
    BY LocEngConfAssumption, SettingsApart DEF Init, GivenFits
  <1>2. ConfInv /\ GivenFits /\ [Next]_vars => GivenFits'
    BY GivenKeeps
  <1>3. ConfInv /\ GivenFits => SettingsReachModem
    <2> SUFFICES ASSUME ConfInv, GivenFits PROVE SettingsReachModem
      OBVIOUS
    <2>1. ASSUME Settled, NEW s \in Settings, Promised(s)
          PROVE  modem.settings[s] = Value(s)
      <3>1. modem.settings[s] = copy[s]
        BY <2>1, SettledFits
      <3>2. copy[s] = Value(s)
        BY <2>1 DEF GivenFits, Value, Promised
      <3> QED
        BY <3>1, <3>2
    <2>2. Settled => (gnss_measurement_cb => modem.measures)
      BY SettledFits
    <2> QED
      BY <2>1, <2>2 DEF SettingsReachModem, ConfInv
  <1> QED
    BY <1>1, <1>2, <1>3, InitFits, StepKeeps, PTL DEF Spec

(* The GPS lock of the modem is 0 while the framework uses the HAL and that *)
(* of gps.conf when it does not: neither the lock that comes with a new     *)
(* engine nor a restart of the modem takes its place (LocEngInit,           *)
(* loc_init(), loc_cleanup())                                               *)
THEOREM LockArrives == Spec => []LockFollowsPower
  <1>1. ConfInv => LockFollowsPower
    BY SettledFits DEF LockFollowsPower, WantedLock
  <1> QED
    BY <1>1, InitFits, StepKeeps, PTL DEF Spec
=============================================================================
