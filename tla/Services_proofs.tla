---------------------------- MODULE Services_proofs ----------------------------
(***************************************************************************)
(* Proofs about the two services the engine's clients rely on: DaemonConn,  *)
(* for any requests and addresses and any number of messages, launches and *)
(* faults; LocTimer with its LocHeap, for any clients, delays and times and *)
(* any finite number of timers.                                            *)
(***************************************************************************)
EXTENDS DaemonConn, LocTimer, FiniteSetTheorems, WellFoundedInduction, TLAPS

-----------------------------------------------------------------------------
(* The connection from the daemons                                         *)

Written == Request \cup {Unblock, TooLong}

Parts == [part : {"header", "body"}, msg : Written]

Statuses == {"no", "granted", "lost"}

States == {"released", "pending", "acquired"}

(* The message task takes what it finds from the server, so that what is   *)
(* in the pipe must be followed to it                                      *)
ServerTypes ==
    /\ pipe \in Seq(Parts)
    /\ thread = "body" => header \in Request \cup {Unblock}
    /\ engine \in Seq(Request)

MachineTypes ==
    /\ machine \in [Nifs -> [state : States, subscribers : SUBSET Addresses]]
    /\ told \in [Nifs -> [Addresses -> Statuses]]
    /\ dropped \in [Nifs -> SUBSET Addresses]

IInv == ServerTypes /\ MachineTypes /\ ToldWhatHolds

-----------------------------------------------------------------------------
LEMMA Begins == Init => IInv
  <1> SUFFICES ASSUME Init PROVE IInv
    OBVIOUS
  <1>1. ServerTypes
    BY DEF Init, ServerTypes
  <1>2. MachineTypes
    <2>1. /\ [state |-> "released", subscribers |-> {}]
                \in [state : States, subscribers : SUBSET Addresses]
          /\ [a \in Addresses |-> "no"] \in [Addresses -> Statuses]
      BY DEF States, Statuses
    <2> QED
      BY <2>1 DEF Init, MachineTypes
  <1>3. ToldWhatHolds
    BY DEF Init, ToldWhatHolds
  <1> QED
    BY <1>1, <1>2, <1>3 DEF IInv

-----------------------------------------------------------------------------
(* The server and its owner: what is queued for the message task are       *)
(* requests that were read whole                                           *)

LEMMA WritingKeeps ==
    ASSUME ServerTypes, NEW m \in Written, msgsnd(m)
    PROVE  pipe' \in Seq(Parts)
  <1>1. [part |-> "header", msg |-> m] \in Parts /\ [part |-> "body", msg |-> m] \in Parts
    BY DEF Parts
  <1> QED
    BY <1>1 DEF msgsnd, ServerTypes

LEMMA StopKeeps ==
    ASSUME ServerTypes, Stop
    PROVE  ServerTypes'
  <1>1. Unblock \in Written
    BY DEF Written
  <1>2. CASE pipe' = pipe
    BY <1>2 DEF Stop, ServerTypes, readVars, engineVars
  <1>3. CASE msgsnd(Unblock)
    BY <1>1, <1>3, WritingKeeps DEF Stop, ServerTypes, readVars, engineVars
  <1> QED
    BY <1>2, <1>3 DEF Stop, server_unblock, unblock_proc

LEMMA SendKeeps ==
    ASSUME ServerTypes, ClientSends
    PROVE  ServerTypes'
  <1>1. PICK m \in Request \cup {TooLong} : msgsnd(m)
    BY DEF ClientSends
  <1>2. pipe' \in Seq(Parts)
    BY <1>1, WritingKeeps DEF Written
  <1> QED
    BY <1>2 DEF ClientSends, ServerTypes, readVars, engineVars

LEMMA ReadHeaderKeeps ==
    ASSUME ServerTypes, ReadHeader
    PROVE  ServerTypes'
  <1>1. UNCHANGED engine
    BY DEF ReadHeader, engineVars
  <1>2. CASE pipe # <<>> /\ pipe' = Tail(pipe)
    <2>1. /\ Head(pipe) \in Parts
          /\ pipe' \in Seq(Parts)
      BY <1>2 DEF ServerTypes
    <2>2. Head(pipe).msg \in Written
      BY <2>1 DEF Parts
    <2>3. thread' = "body" => header' \in Request \cup {Unblock}
      BY <2>2 DEF ReadHeader, Failed, Looped, Written
    <2> QED
      BY <1>1, <2>1, <2>3 DEF ServerTypes
  <1>3. CASE pipe' = pipe /\ Failed
    BY <1>1, <1>3 DEF Failed, Looped, ServerTypes
  <1> QED
    BY <1>2, <1>3 DEF ReadHeader

LEMMA ReadBodyKeeps ==
    ASSUME ServerTypes, ReadBody
    PROVE  ServerTypes'
  <1>1. thread' # "body"
    BY DEF ReadBody, Failed, Looped
  <1>2. header.ctrl # "UNBLOCK" => header \in Request
    <2>1. header \in Request \cup {Unblock}
      BY DEF ReadBody, ServerTypes
    <2>2. Unblock.ctrl = "UNBLOCK"
      BY DEF Unblock
    <2> QED
      BY <2>1, <2>2
  <1>3. engine' \in Seq(Request)
    <2>1. CASE engine' = engine
      BY <2>1 DEF ServerTypes
    <2>2. CASE header.ctrl # "UNBLOCK" /\ engine' = Append(engine, header)
      BY <1>2, <2>2 DEF ServerTypes
    <2> QED
      BY <2>1, <2>2 DEF ReadBody, if_request_handler
  <1>4. pipe' \in Seq(Parts)
    <2>1. CASE pipe # <<>> /\ pipe' = Tail(pipe)
      BY <2>1 DEF ServerTypes
    <2>2. CASE pipe' = pipe
      BY <2>2 DEF ServerTypes
    <2> QED
      BY <2>1, <2>2 DEF ReadBody
  <1> QED
    BY <1>1, <1>3, <1>4 DEF ServerTypes

-----------------------------------------------------------------------------
(* The interfaces.  Each step changes one, and tells those of whom it      *)
(* changes what holds                                                      *)

LEMMA BecomesIs ==
    ASSUME MachineTypes, NEW n \in Nifs, NEW s \in States, NEW all \in SUBSET Addresses,
           Becomes(n, s, all)
    PROVE  /\ machine' \in [Nifs -> [state : States, subscribers : SUBSET Addresses]]
           /\ machine'[n].state = s /\ machine'[n].subscribers = all
           /\ \A k \in Nifs \ {n} : machine'[k] = machine[k]
  <1>1. [state |-> s, subscribers |-> all]
            \in [state : States, subscribers : SUBSET Addresses]
    OBVIOUS
  <1> QED
    BY <1>1 DEF Becomes, MachineTypes

LEMMA ConnIs ==
    ASSUME NEW n \in Nifs, NEW S \in SUBSET Addresses, NEW status \in Statuses,
           MachineTypes, data_conn(n, S, status)
    PROVE  /\ told' \in [Nifs -> [Addresses -> Statuses]]
           /\ \A a \in S : told'[n][a] \in {status, "lost"}
           /\ \A k \in Nifs, a \in Addresses :
                k # n \/ a \notin S => told'[k][a] = told[k][a]
           /\ dropped' \in [Nifs -> SUBSET Addresses]
           /\ dropped'[n] = dropped[n] \ S
           /\ \A k \in Nifs \ {n} : dropped'[k] = dropped[k]
  <1> DEFINE row == [a \in Addresses |->
                        IF a \in S THEN IF open THEN status ELSE "lost" ELSE told[n][a]]
  <1>1. told' = [told EXCEPT ![n] = row]
    BY DEF data_conn
  <1>2. row \in [Addresses -> Statuses]
    BY DEF MachineTypes, Statuses
  <1>3. /\ told' \in [Nifs -> [Addresses -> Statuses]]
        /\ told'[n] = row
        /\ \A k \in Nifs \ {n} : told'[k] = told[k]
    <2> HIDE DEF row
    <2> QED
      BY <1>1, <1>2 DEF MachineTypes
  <1>4. /\ dropped' \in [Nifs -> SUBSET Addresses]
        /\ dropped'[n] = dropped[n] \ S
        /\ \A k \in Nifs \ {n} : dropped'[k] = dropped[k]
    BY DEF data_conn, MachineTypes
  <1> QED
    BY <1>3, <1>4

(* What there is to say of one interface                                   *)
Holds(n) ==
    /\ machine[n].state = "released" => machine[n].subscribers = {}
    /\ machine[n].state # "released" /\ machine[n].subscribers = {} => dropped[n] # {}
    /\ \A a \in Addresses :
         LET held == a \in machine[n].subscribers /\ machine[n].state = "acquired"
         IN /\ told[n][a] = "granted" => held \/ a \in dropped[n]
            /\ held => told[n][a] \in {"granted", "lost"}

LEMMA HoldsOfEach ==
    /\ ToldWhatHolds <=> \A n \in Nifs : Holds(n)
    /\ ToldWhatHolds' <=> \A n \in Nifs : Holds(n)'
  BY DEF ToldWhatHolds, Holds

LEMMA OthersKeep ==
    ASSUME ToldWhatHolds, NEW k \in Nifs, machine'[k] = machine[k], dropped'[k] = dropped[k],
           \A a \in Addresses : told'[k][a] = told[k][a]
    PROVE  Holds(k)'
  <1>1. Holds(k)
    BY HoldsOfEach
  <1> QED
    BY <1>1 DEF Holds

(* A grant, a denial or a loss: all the subscribers are told               *)
LEMMA EventKeeps ==
    ASSUME MachineTypes, ToldWhatHolds, NEW n \in Nifs,
           Granted(n) \/ Denied(n) \/ Released(n)
    PROVE  MachineTypes' /\ ToldWhatHolds'
  <1> DEFINE all == machine[n].subscribers
  <1>0. /\ all \in SUBSET Addresses /\ {} \in SUBSET Addresses
        /\ "acquired" \in States /\ "released" \in States
    BY DEF MachineTypes, States
  <1>1. PICK s \in {"acquired", "released"}, status \in {"granted", "no"} :
            /\ Becomes(n, s, IF s = "acquired" THEN all ELSE {})
            /\ data_conn(n, all, status)
            /\ s = "acquired" <=> status = "granted"
            /\ machine[n].state # "released"
    BY DEF Granted, Denied, Released
  <1>2. /\ machine' \in [Nifs -> [state : States, subscribers : SUBSET Addresses]]
        /\ machine'[n].state = s
        /\ machine'[n].subscribers = IF s = "acquired" THEN all ELSE {}
        /\ \A k \in Nifs \ {n} : machine'[k] = machine[k]
    BY <1>0, <1>1, BecomesIs
  <1>3. /\ told' \in [Nifs -> [Addresses -> Statuses]]
        /\ \A a \in all : told'[n][a] \in {status, "lost"}
        /\ \A k \in Nifs, a \in Addresses :
             k # n \/ a \notin all => told'[k][a] = told[k][a]
        /\ dropped' \in [Nifs -> SUBSET Addresses]
        /\ dropped'[n] = dropped[n] \ all
        /\ \A k \in Nifs \ {n} : dropped'[k] = dropped[k]
    BY <1>0, <1>1, ConnIs DEF Statuses
  <1>4. Holds(n)'
    <2>1. Holds(n)
      BY HoldsOfEach
    <2>2. ASSUME NEW a \in Addresses
          PROVE  /\ told'[n][a] = "granted" =>
                      \/ a \in machine'[n].subscribers /\ machine'[n].state = "acquired"
                      \/ a \in dropped'[n]
                 /\ a \in machine'[n].subscribers /\ machine'[n].state = "acquired" =>
                      told'[n][a] \in {"granted", "lost"}
      <3>1. CASE a \in all
        BY <1>1, <1>2, <1>3, <3>1
      <3>2. CASE a \notin all
        BY <1>1, <1>2, <1>3, <2>1, <3>2 DEF Holds
      <3> QED
        BY <3>1, <3>2
    <2>3. /\ machine'[n].state = "released" => machine'[n].subscribers = {}
          /\ machine'[n].state # "released" /\ machine'[n].subscribers = {} => dropped'[n] # {}
      BY <1>1, <1>2, <1>3, <2>1 DEF Holds
    <2> QED
      BY <2>2, <2>3 DEF Holds
  <1>5. ASSUME NEW k \in Nifs, k # n PROVE Holds(k)'
    BY <1>2, <1>3, <1>5, OthersKeep
  <1> QED
    <2>1. ToldWhatHolds'
      BY <1>4, <1>5, HoldsOfEach
    <2> QED
      BY <1>2, <1>3, <2>1 DEF MachineTypes

(* A new subscriber waits, or is told at once                              *)
LEMMA SubscribeKeeps ==
    ASSUME MachineTypes, ToldWhatHolds, NEW n \in Nifs, NEW a \in Addresses,
           subscribeRsrc(n, a)
    PROVE  MachineTypes' /\ ToldWhatHolds'
  <1> DEFINE all == machine[n].subscribers \cup {a}
  <1>0. /\ all \in SUBSET Addresses /\ {a} \in SUBSET Addresses
        /\ "acquired" \in States /\ "pending" \in States
        /\ machine[n].state \in States
    BY DEF MachineTypes, States
  <1>1. CASE machine[n].state = "acquired"
    <2>1. Becomes(n, "acquired", all) /\ data_conn(n, {a}, "granted")
      BY <1>1 DEF subscribeRsrc
    <2>2. /\ machine' \in [Nifs -> [state : States, subscribers : SUBSET Addresses]]
          /\ machine'[n].state = "acquired" /\ machine'[n].subscribers = all
          /\ \A k \in Nifs \ {n} : machine'[k] = machine[k]
      BY <1>0, <2>1, BecomesIs
    <2>3. /\ told' \in [Nifs -> [Addresses -> Statuses]]
          /\ told'[n][a] \in {"granted", "lost"}
          /\ \A k \in Nifs, b \in Addresses : k # n \/ b # a => told'[k][b] = told[k][b]
          /\ dropped' \in [Nifs -> SUBSET Addresses]
          /\ dropped'[n] = dropped[n] \ {a}
          /\ \A k \in Nifs \ {n} : dropped'[k] = dropped[k]
      BY <1>0, <2>1, ConnIs DEF Statuses
    <2>4. Holds(n)'
      BY <1>1, <2>2, <2>3 DEF Holds, ToldWhatHolds
    <2>5. ASSUME NEW k \in Nifs, k # n PROVE Holds(k)'
      BY <2>2, <2>3, <2>5, OthersKeep
    <2> QED
      <3>1. ToldWhatHolds'
        BY <2>4, <2>5, HoldsOfEach
      <3> QED
        BY <2>2, <2>3, <3>1 DEF MachineTypes
  <1>2. CASE machine[n].state # "acquired"
    <2>1. Becomes(n, "pending", all) /\ told' = told /\ dropped' = dropped
      BY <1>2 DEF subscribeRsrc, toldVars
    <2>2. /\ machine' \in [Nifs -> [state : States, subscribers : SUBSET Addresses]]
          /\ machine'[n].state = "pending" /\ machine'[n].subscribers = all
          /\ \A k \in Nifs \ {n} : machine'[k] = machine[k]
      BY <1>0, <2>1, BecomesIs
    <2>4. Holds(n)'
      BY <1>2, <2>1, <2>2 DEF Holds, ToldWhatHolds
    <2>5. ASSUME NEW k \in Nifs, k # n PROVE Holds(k)'
      BY <2>1, <2>2, <2>5, OthersKeep
    <2> QED
      <3>1. ToldWhatHolds'
        BY <2>4, <2>5, HoldsOfEach
      <3> QED
        BY <2>1, <2>2, <3>1 DEF MachineTypes
  <1> QED
    BY <1>1, <1>2

(* Who is none is not told, but did not believe to hold anything either,   *)
(* unless it was dropped                                                   *)
LEMMA UnsubscribeKeeps ==
    ASSUME MachineTypes, ToldWhatHolds, NEW n \in Nifs, NEW a \in Addresses,
           unsubscribeRsrc(n, a)
    PROVE  MachineTypes' /\ ToldWhatHolds'
  <1> DEFINE rest == machine[n].subscribers \ {a}
  <1> DEFINE s == IF rest = {} THEN "released" ELSE machine[n].state
  <1>0. /\ rest \in SUBSET Addresses /\ {a} \in SUBSET Addresses /\ s \in States
    BY DEF MachineTypes, States
  <1>1. CASE a \in machine[n].subscribers
    <2>1. Becomes(n, s, rest) /\ data_conn(n, {a}, "no")
      BY <1>1 DEF unsubscribeRsrc
    <2>2. /\ machine' \in [Nifs -> [state : States, subscribers : SUBSET Addresses]]
          /\ machine'[n].state = s /\ machine'[n].subscribers = rest
          /\ \A k \in Nifs \ {n} : machine'[k] = machine[k]
      <3> HIDE DEF s, rest
      <3> QED
        BY <1>0, <2>1, BecomesIs
    <2>3. /\ told' \in [Nifs -> [Addresses -> Statuses]]
          /\ told'[n][a] \in {"no", "lost"}
          /\ \A k \in Nifs, b \in Addresses : k # n \/ b # a => told'[k][b] = told[k][b]
          /\ dropped' \in [Nifs -> SUBSET Addresses]
          /\ dropped'[n] = dropped[n] \ {a}
          /\ \A k \in Nifs \ {n} : dropped'[k] = dropped[k]
      BY <1>0, <2>1, ConnIs DEF Statuses
    <2>4. Holds(n)'
      <3>1. Holds(n)
        BY HoldsOfEach
      <3>2. ASSUME NEW b \in Addresses
            PROVE  /\ told'[n][b] = "granted" =>
                        \/ b \in machine'[n].subscribers /\ machine'[n].state = "acquired"
                        \/ b \in dropped'[n]
                   /\ b \in machine'[n].subscribers /\ machine'[n].state = "acquired" =>
                        told'[n][b] \in {"granted", "lost"}
        <4>1. CASE b = a
          BY <1>1, <2>2, <2>3, <4>1
        <4>2. CASE b # a
          BY <1>1, <2>2, <2>3, <3>1, <4>2 DEF Holds
        <4> QED
          BY <4>1, <4>2
      <3>3. /\ machine'[n].state = "released" => machine'[n].subscribers = {}
            /\ machine'[n].state # "released" /\ machine'[n].subscribers = {} => dropped'[n] # {}
        BY <1>1, <2>2, <2>3, <3>1 DEF Holds
      <3> QED
        BY <3>2, <3>3 DEF Holds
    <2>5. ASSUME NEW k \in Nifs, k # n PROVE Holds(k)'
      BY <2>2, <2>3, <2>5, OthersKeep
    <2> QED
      <3>1. ToldWhatHolds'
        BY <2>4, <2>5, HoldsOfEach
      <3> QED
        BY <2>2, <2>3, <3>1 DEF MachineTypes
  <1>2. CASE a \notin machine[n].subscribers
    BY <1>2 DEF unsubscribeRsrc, MachineTypes, ToldWhatHolds, toldVars
  <1> QED
    BY <1>1, <1>2

(* A restart of the modem: whom it drops is remembered                     *)
LEMMA UpKeeps ==
    ASSUME MachineTypes, ToldWhatHolds, loc_eng_handle_engine_up
    PROVE  MachineTypes' /\ ToldWhatHolds'
  <1>1. /\ machine' \in [Nifs -> [state : States, subscribers : SUBSET Addresses]]
        /\ \A n \in Nifs : /\ machine'[n].state = machine[n].state
                           /\ machine'[n].subscribers = {}
    BY DEF loc_eng_handle_engine_up, MachineTypes
  <1>2. /\ told' = told
        /\ dropped' \in [Nifs -> SUBSET Addresses]
        /\ \A n \in Nifs : dropped'[n] = dropped[n] \cup machine[n].subscribers
    BY DEF loc_eng_handle_engine_up, MachineTypes
  <1>3. ASSUME NEW n \in Nifs PROVE Holds(n)'
    BY <1>1, <1>2, HoldsOfEach DEF Holds
  <1>4. ToldWhatHolds'
    BY <1>3, HoldsOfEach
  <1> QED
    BY <1>1, <1>2, <1>4 DEF MachineTypes

LEMMA ProcKeeps ==
    ASSUME IInv, Proc
    PROVE  IInv'
  <1> DEFINE m == Head(engine)
  <1>1. m \in Request /\ engine' \in Seq(Request)
    BY DEF IInv, ServerTypes, Proc
  <1>2. NifOf(m.type) \in Nifs /\ m.addr \in Addresses
    BY <1>1 DEF NifOf, Nifs, Addresses
  <1>3. MachineTypes' /\ ToldWhatHolds'
    <2>1. CASE LocEngReqRelWifi(m)
      BY <2>1 DEF LocEngReqRelWifi, IInv, MachineTypes, ToldWhatHolds, toldVars
    <2>2. CASE LocEngReqRelBIT(m)
      <3> HIDE DEF m
      <3> QED
        BY <1>2, <2>2, SubscribeKeeps, UnsubscribeKeeps DEF LocEngReqRelBIT, IInv
    <2> QED
      BY <2>1, <2>2 DEF Proc
  <1>4. ServerTypes'
    BY <1>1 DEF IInv, ServerTypes, Proc, serverVars, pipeVars, readVars
  <1> QED
    BY <1>3, <1>4 DEF IInv

-----------------------------------------------------------------------------
LEMMA StepKeeps ==
    ASSUME IInv, [Next]_vars
    PROVE  IInv'
  <1> USE DEF IInv
  <1>1. CASE Proc
    BY <1>1, ProcKeeps
  <1>2. CASE FrameworkAnswers
    <2>1. MachineTypes' /\ ToldWhatHolds'
      BY <1>2, EventKeeps DEF FrameworkAnswers
    <2>2. ServerTypes'
      BY <1>2 DEF FrameworkAnswers, ServerTypes, serverVars, pipeVars, readVars
    <2> QED
      BY <2>1, <2>2
  <1>3. ASSUME UNCHANGED <<machine, toldVars>>, ServerTypes'
        PROVE  IInv'
    BY <1>3 DEF MachineTypes, ToldWhatHolds, toldVars
  <1>4. CASE Stop
    BY <1>3, <1>4, StopKeeps DEF Stop, engineVars
  <1>5. CASE ClientSends
    BY <1>3, <1>5, SendKeeps DEF ClientSends, engineVars
  <1>6. CASE ReadHeader
    BY <1>3, <1>6, ReadHeaderKeeps DEF ReadHeader, engineVars
  <1>7. CASE ReadBody
    BY <1>3, <1>7, ReadBodyKeeps DEF ReadBody
  <1>8. CASE proc_post
    <2>1. ServerTypes'
      BY <1>8 DEF proc_post, ServerTypes, engineVars
    <2> QED
      BY <1>3, <1>8, <2>1 DEF proc_post, engineVars
  <1>9. CASE launch_thelper
    <2>1. ServerTypes'
      BY <1>9 DEF launch_thelper, ServerTypes, engineVars, pipeVars, readVars
    <2> QED
      BY <1>3, <1>9, <2>1 DEF launch_thelper, engineVars
  <1>10. CASE proc_init \/ thelper_signal_ready \/ join_thelper
    <2>1. ServerTypes'
      BY <1>10 DEF proc_init, thelper_signal_ready, join_thelper, ServerTypes,
                   engineVars, pipeVars, readVars
    <2> QED
      BY <1>3, <1>10, <2>1
         DEF proc_init, thelper_signal_ready, join_thelper, engineVars
  <1>11. CASE thelper_signal_wait \/ StrayWakeup \/ Launched
    <2>1. ServerTypes'
      BY <1>11 DEF thelper_signal_wait, StrayWakeup, Launched, ServerTypes,
                   engineVars, pipeVars, readVars
    <2> QED
      BY <1>3, <1>11, <2>1 DEF thelper_signal_wait, StrayWakeup, Launched, engineVars
  <1>12. CASE UNCHANGED vars
    BY <1>12 DEF vars, engineVars, toldVars, pipeVars, readVars, ServerTypes, MachineTypes,
                 ToldWhatHolds
  <1>13. CASE loc_eng_handle_engine_up
    <2>1. ServerTypes'
      BY <1>13 DEF loc_eng_handle_engine_up, ServerTypes, serverVars, pipeVars, readVars
    <2> QED
      BY <1>13, <2>1, UpKeeps
  <1> QED
    BY <1>1, <1>2, <1>4, <1>5, <1>6, <1>7, <1>8, <1>9, <1>10, <1>11, <1>12, <1>13 DEF Next

(* For any clients, and however long they, the framework and the restarts  *)
(* of the modem go on: the daemon believes it has a connection just while  *)
(* its interface is acquired for it, and an interface is held just while   *)
(* somebody needs it, but for the subscribers a restart dropped and that   *)
(* were told nothing since (BITSubscriber::notifyRsrcStatus(),              *)
(* AgpsStateMachine::onRsrcEvent(), dropAllSubscribers())                   *)
THEOREM DaemonToldWhatHolds == Spec => []ToldWhatHolds
  <1>1. IInv /\ [Next]_vars => IInv'
    BY StepKeeps
  <1>2. IInv => ToldWhatHolds
    BY DEF IInv
  <1> QED
    BY <1>1, <1>2, Begins, PTL DEF Spec

-----------------------------------------------------------------------------
(* The messages.  Until the thread has failed, the pipe holds the messages *)
(* it has not taken, each its header and its body, less the header the     *)
(* thread has in hand; once it has failed it reads no more, so that what   *)
(* it took stays a prefix however the rest is cut.  Prefixes are not       *)
(* inductive alone: the next header must be known to be the next message's. *)

HeaderOf(m) == [part |-> "header", msg |-> m]
BodyOf(m) == [part |-> "body", msg |-> m]

InHand == IF thread = "body" THEN 1 ELSE 0

Left == Len(sent) - Len(taken)

Prefix ==
    /\ Len(taken) <= Len(sent)
    /\ \A i \in 1..Len(taken) : taken[i] = sent[i]

Aligned ==
    thread # "post" =>
        /\ InHand <= Left
        /\ thread = "body" => header = sent[Len(taken) + 1]
        /\ Len(pipe) = 2 * Left - InHand
        /\ \A j \in 1..Left :
              /\ 2 * j - 1 > InHand =>
                    pipe[2 * j - 1 - InHand] = HeaderOf(sent[Len(taken) + j])
              /\ pipe[2 * j - InHand] = BodyOf(sent[Len(taken) + j])

(* The owner launches only when the last thread is joined.                 *)
Joined == owner = "idle" => thread = "none"

Order == ServerTypes /\ TypeOK /\ Joined /\ Prefix /\ Aligned

(* It implies the property the run checks.                                 *)
LEMMA OrderImplies == Order => HandledInOrder
  <1> SUFFICES ASSUME Order PROVE IsPrefix(taken, sent)
    BY DEF Order, HandledInOrder
  <1>1. SubSeq(taken, 1, Len(taken)) = SubSeq(sent, 1, Len(taken))
    BY DEF Order, TypeOK, Prefix
  <1> QED
    BY <1>1 DEF Order, Prefix, IsPrefix

(* It holds before the first launch.                                       *)
LEMMA OrderBegins == Init => Order
  <1> SUFFICES ASSUME Init PROVE Order
    OBVIOUS
  <1>1. ServerTypes
    BY Begins DEF IInv
  <1>2. TypeOK
    <2>1. taken \in Seq(Request \cup {Unblock}) /\ sent \in Seq(Request \cup {Unblock, TooLong})
      BY DEF Init
    <2> QED
      BY <1>1, <2>1 DEF Init, TypeOK, Steps, ServerTypes
  <1>3. Joined /\ Prefix /\ Aligned
    BY DEF Init, Joined, Prefix, Aligned, Left, InHand
  <1> QED
    BY <1>1, <1>2, <1>3 DEF Order

(* A message written is behind all the others, in the pipe and in sent.    *)
LEMMA WritingOrders ==
    ASSUME Order, NEW m \in Written, msgsnd(m), UNCHANGED <<thread, taken, header>>
    PROVE  /\ sent' \in Seq(Request \cup {Unblock, TooLong})
           /\ Prefix' /\ Aligned'
  <1> USE DEF Written
  <1>1. /\ pipe \in Seq(Parts) /\ HeaderOf(m) \in Parts /\ BodyOf(m) \in Parts
        /\ sent \in Seq(Written) /\ taken \in Seq(Request \cup {Unblock})
    BY DEF Order, ServerTypes, TypeOK, Parts, HeaderOf, BodyOf
  <1>2. /\ sent' \in Seq(Written)
        /\ Len(sent') = Len(sent) + 1
        /\ sent'[Len(sent) + 1] = m
        /\ \A i \in 1..Len(sent) : sent'[i] = sent[i]
    BY <1>1 DEF msgsnd
  <1>3. /\ Len(pipe') = Len(pipe) + 2
        /\ pipe'[Len(pipe) + 1] = HeaderOf(m)
        /\ pipe'[Len(pipe) + 2] = BodyOf(m)
        /\ \A i \in 1..Len(pipe) : pipe'[i] = pipe[i]
    <2> DEFINE h == HeaderOf(m)
               b == BodyOf(m)
    <2>1. pipe' = pipe \o <<h, b>>
      BY DEF msgsnd, HeaderOf, BodyOf
    <2>2. h \in Parts /\ b \in Parts
      BY <1>1
    <2> HIDE DEF h, b
    <2>3. /\ Len(pipe') = Len(pipe) + 2
          /\ pipe'[Len(pipe) + 1] = h
          /\ pipe'[Len(pipe) + 2] = b
          /\ \A i \in 1..Len(pipe) : pipe'[i] = pipe[i]
      BY <1>1, <2>1, <2>2
    <2> QED
      BY <2>3 DEF h, b
  <1>4. Prefix'
    BY <1>1, <1>2 DEF Order, Prefix
  <1>5. Aligned'
    <2> SUFFICES ASSUME thread # "post" PROVE Aligned'
      BY DEF Aligned
    <2>1. /\ Left' = Left + 1 /\ Left \in Nat /\ InHand' = InHand /\ InHand \in {0, 1}
          /\ Left + Len(taken) = Len(sent)
          /\ Len(pipe) = 2 * Left - InHand /\ InHand <= Left
          /\ Len(taken) \in Nat /\ Len(sent) \in Nat
      BY <1>1, <1>2 DEF Order, Prefix, Aligned, Left, InHand
    <2>2. ASSUME NEW j \in 1..Left'
          PROVE  /\ 2 * j - 1 > InHand =>
                       pipe'[2 * j - 1 - InHand] = HeaderOf(sent'[Len(taken) + j])
                 /\ pipe'[2 * j - InHand] = BodyOf(sent'[Len(taken) + j])
      <3>1. CASE j = Left + 1
        <4>1. /\ Len(taken) + j = Len(sent) + 1
              /\ 2 * j - 1 - InHand = Len(pipe) + 1 /\ 2 * j - InHand = Len(pipe) + 2
          BY <2>1, <3>1
        <4> QED
          BY <1>2, <1>3, <4>1
      <3>2. CASE j \in 1..Left
        <4>1. /\ Len(taken) + j \in 1..Len(sent)
              /\ 2 * j - InHand \in 1..Len(pipe)
              /\ 2 * j - 1 > InHand => 2 * j - 1 - InHand \in 1..Len(pipe)
          BY <2>1, <3>2
        <4> QED
          BY <1>2, <1>3, <3>2, <4>1 DEF Order, Aligned
      <3> QED
        BY <2>1, <3>1, <3>2
    <2>3. ASSUME thread = "body" PROVE header = sent'[Len(taken) + 1]
      <3>1. Len(taken) + 1 \in 1..Len(sent)
        BY <2>1, <2>3 DEF InHand
      <3> QED
        BY <1>2, <2>3, <3>1 DEF Order, Aligned
    <2>4. Len(pipe') = 2 * Left' - InHand' /\ InHand' <= Left'
      BY <1>3, <2>1
    <2> QED
      BY <2>1, <2>2, <2>3, <2>4 DEF Aligned
  <1> QED
    BY <1>2, <1>4, <1>5

(* The thread takes a header: what is left begins with the body of the     *)
(* same message.                                                           *)
LEMMA HeaderOrders ==
    ASSUME Order, ReadHeader
    PROVE  Order'
  <1> USE DEF Written
  <1>1. /\ pipe \in Seq(Parts) /\ thread = "header"
        /\ sent \in Seq(Written) /\ taken \in Seq(Request \cup {Unblock})
        /\ UNCHANGED <<taken, sent, engine, machine, refused, dropped, owner, thread_ready, open>>
    BY DEF Order, ServerTypes, TypeOK, ReadHeader, engineVars, toldVars, ownerVars
  <1>2. ServerTypes' /\ Prefix'
    BY <1>1, ReadHeaderKeeps DEF Order, Prefix
  <1>3. CASE pipe # <<>> /\ pipe' = Tail(pipe) /\ thread' = "body"
    <2>1. /\ Head(pipe).msg = header' /\ Head(pipe).part = "header"
          /\ UNCHANGED thread_exit
      BY <1>3 DEF ReadHeader, Failed, Looped
    <2>2. /\ Head(pipe) = pipe[1] /\ Len(pipe) >= 1
          /\ Len(pipe') = Len(pipe) - 1
          /\ \A i \in 1..Len(pipe') : pipe'[i] = pipe[i + 1]
      BY <1>1, <1>3
    <2>3. /\ InHand = 0 /\ InHand' = 1
          /\ Left' = Left /\ Left \in Nat /\ Left >= 1
          /\ Left + Len(taken) = Len(sent)
          /\ Len(pipe) = 2 * Left /\ Len(taken) \in Nat
      BY <1>1, <1>3, <2>2 DEF Order, Prefix, Aligned, Left, InHand
    <2>4. \A j \in 1..Left :
             /\ pipe[2 * j - 1] = HeaderOf(sent[Len(taken) + j])
             /\ pipe[2 * j] = BodyOf(sent[Len(taken) + j])
      <3>1. thread # "post"
        BY <1>1
      <3> QED
        BY <2>3, <3>1 DEF Order, Aligned
    <2>5. header' = sent[Len(taken) + 1]
      <3>1. 1 \in 1..Left /\ 2 * 1 - 1 = 1
        BY <2>3
      <3>2. pipe[1] = HeaderOf(sent[Len(taken) + 1])
        BY <2>4, <3>1
      <3> QED
        BY <2>1, <2>2, <3>2 DEF HeaderOf
    <2>6. ASSUME NEW j \in 1..Left
          PROVE  /\ 2 * j - 1 > 1 =>
                       pipe'[2 * j - 2] = HeaderOf(sent[Len(taken) + j])
                 /\ pipe'[2 * j - 1] = BodyOf(sent[Len(taken) + j])
      <3>1. /\ 2 * j - 1 \in 1..Len(pipe') /\ (2 * j - 1) + 1 = 2 * j
            /\ 2 * j - 1 > 1 => 2 * j - 2 \in 1..Len(pipe') /\ (2 * j - 2) + 1 = 2 * j - 1
        BY <2>2, <2>3
      <3> QED
        BY <2>2, <2>4, <3>1
    <2>7. ASSUME NEW j \in 1..Left
          PROVE  /\ 2 * j - 1 > InHand' =>
                       pipe'[2 * j - 1 - InHand'] = HeaderOf(sent[Len(taken) + j])
                 /\ pipe'[2 * j - InHand'] = BodyOf(sent[Len(taken) + j])
      <3>1. 2 * j - 1 - InHand' = 2 * j - 2 /\ 2 * j - InHand' = 2 * j - 1
        BY <2>3
      <3> QED
        BY <2>3, <2>6, <3>1
    <2>8. Len(pipe') = 2 * Left' - InHand' /\ InHand' <= Left'
      BY <2>2, <2>3
    <2>9. Aligned'
      BY <1>1, <2>3, <2>5, <2>7, <2>8 DEF Aligned
    <2>10. TypeOK' /\ Joined'
      BY <1>1, <1>2, <1>3, <2>1 DEF Order, TypeOK, Joined, ServerTypes, Steps
    <2> QED
      BY <1>2, <2>9, <2>10 DEF Order
  <1>4. CASE Failed /\ UNCHANGED header
    <2>1. thread' = "post" /\ thread_exit' = TRUE
      BY <1>4 DEF Failed, Looped
    <2>2. TypeOK' /\ Joined'
      BY <1>1, <1>4, <2>1 DEF Order, TypeOK, Joined, Steps
    <2>3. Aligned'
      BY <2>1 DEF Aligned
    <2> QED
      BY <1>2, <2>2, <2>3 DEF Order
  <1> QED
    BY <1>3, <1>4 DEF ReadHeader

(* The thread takes the body: the message it has in hand is the next one.  *)
LEMMA BodyOrders ==
    ASSUME Order, ReadBody
    PROVE  Order'
  <1> USE DEF Written
  <1>1. /\ pipe \in Seq(Parts) /\ thread = "body"
        /\ sent \in Seq(Written) /\ taken \in Seq(Request \cup {Unblock})
        /\ header' = None
        /\ header \in Request \cup {Unblock}
        /\ UNCHANGED <<sent, machine, refused, dropped, owner, thread_ready, open>>
    BY DEF Order, ServerTypes, TypeOK, ReadBody, ownerVars, toldVars
  <1>2. ServerTypes'
    BY ReadBodyKeeps DEF Order
  <1>3. /\ InHand = 1 /\ Left \in Nat /\ Left >= 1
        /\ Left + Len(taken) = Len(sent)
        /\ Len(pipe) = 2 * Left - 1 /\ Len(taken) \in Nat
        /\ header = sent[Len(taken) + 1]
    BY <1>1 DEF Order, Prefix, Aligned, Left, InHand
  <1>4. CASE pipe # <<>> /\ pipe' = Tail(pipe) /\ taken' = Append(taken, header)
             /\ thread' \in {"header", "post"} /\ thread_exit' \in BOOLEAN
    <2>1. /\ taken' \in Seq(Request \cup {Unblock})
          /\ Len(taken') = Len(taken) + 1
          /\ taken'[Len(taken) + 1] = header
          /\ \A i \in 1..Len(taken) : taken'[i] = taken[i]
      BY <1>1, <1>4
    <2>2. /\ Len(pipe') = Len(pipe) - 1
          /\ \A i \in 1..Len(pipe') : pipe'[i] = pipe[i + 1]
      BY <1>1, <1>4
    <2>3. Prefix'
      <3>1. Len(taken') <= Len(sent')
        BY <1>1, <1>3, <2>1
      <3>2. ASSUME NEW i \in 1..Len(taken') PROVE taken'[i] = sent[i]
        <4>1. i = Len(taken) + 1 \/ i \in 1..Len(taken)
          BY <1>3, <2>1
        <4> QED
          BY <1>3, <2>1, <4>1 DEF Order, Prefix
      <3> QED
        BY <1>1, <3>1, <3>2 DEF Prefix
    <2>4. /\ InHand' = 0 /\ Left' = Left - 1 /\ Left' \in Nat
      BY <1>1, <1>3, <1>4, <2>1 DEF InHand, Left
    <2>5. \A j \in 1..Left :
             /\ 2 * j - 1 > 1 => pipe[2 * j - 2] = HeaderOf(sent[Len(taken) + j])
             /\ pipe[2 * j - 1] = BodyOf(sent[Len(taken) + j])
      <3>1. \A j \in 1..Left :
              /\ 2 * j - 1 > InHand =>
                    pipe[2 * j - 1 - InHand] = HeaderOf(sent[Len(taken) + j])
              /\ pipe[2 * j - InHand] = BodyOf(sent[Len(taken) + j])
        BY <1>1 DEF Order, Aligned
      <3>2. \A j \in 1..Left :
               2 * j - 1 - InHand = 2 * j - 2 /\ 2 * j - InHand = 2 * j - 1
        BY <1>3
      <3> QED
        BY <1>3, <3>1, <3>2
    <2>6. ASSUME NEW j \in 1..Left'
          PROVE  /\ pipe'[2 * j - 1] = HeaderOf(sent[Len(taken') + j])
                 /\ pipe'[2 * j] = BodyOf(sent[Len(taken') + j])
      <3>1. /\ j + 1 \in 1..Left /\ 2 * (j + 1) - 1 > 1
            /\ 2 * (j + 1) - 2 = (2 * j - 1) + 1 /\ 2 * (j + 1) - 1 = 2 * j + 1
            /\ Len(taken) + (j + 1) = Len(taken') + j
            /\ 2 * j - 1 \in 1..Len(pipe') /\ 2 * j \in 1..Len(pipe')
        <4>1. Left \in Nat /\ Left' = Left - 1 /\ j \in Nat /\ 1 <= j /\ j <= Left - 1
          BY <1>3, <2>4
        <4>2. Len(pipe') = 2 * Left - 2
          BY <1>3, <2>2
        <4>3. Len(taken) \in Nat /\ Len(taken') = Len(taken) + 1
          BY <1>3, <2>1
        <4> HIDE DEF Left
        <4>4. 2 * j - 1 \in 1..2 * Left - 2 /\ 2 * j \in 1..2 * Left - 2 /\ j + 1 \in 1..Left
          BY <4>1
        <4> QED
          BY <4>1, <4>2, <4>3, <4>4
      <3>2. /\ pipe[2 * (j + 1) - 2] = HeaderOf(sent[Len(taken) + (j + 1)])
            /\ pipe[2 * (j + 1) - 1] = BodyOf(sent[Len(taken) + (j + 1)])
        BY <2>5, <3>1
      <3> QED
        BY <2>2, <3>1, <3>2
    <2>7. ASSUME NEW j \in 1..Left'
          PROVE  /\ 2 * j - 1 > InHand' =>
                       pipe'[2 * j - 1 - InHand'] = HeaderOf(sent[Len(taken') + j])
                 /\ pipe'[2 * j - InHand'] = BodyOf(sent[Len(taken') + j])
      <3>1. 2 * j - 1 - InHand' = 2 * j - 1 /\ 2 * j - InHand' = 2 * j
        BY <2>4
      <3> QED
        BY <2>6, <3>1
    <2>8. Len(pipe') = 2 * Left' - InHand' /\ InHand' <= Left'
      BY <1>3, <2>2, <2>4
    <2>9. Aligned'
      BY <1>1, <1>4, <2>7, <2>8 DEF Aligned
    <2>10. TypeOK' /\ Joined'
      BY <1>1, <1>2, <1>4, <2>1 DEF Order, TypeOK, Joined, ServerTypes, Steps
    <2> QED
      BY <1>2, <2>3, <2>9, <2>10 DEF Order
  <1>5. CASE Failed /\ UNCHANGED taken
    <2>1. thread' = "post" /\ thread_exit' = TRUE
      BY <1>5 DEF Failed, Looped
    <2>2. TypeOK' /\ Joined'
      BY <1>1, <1>2, <1>5, <2>1 DEF Order, TypeOK, Joined, ServerTypes, Steps
    <2>3. Aligned' /\ Prefix'
      BY <1>1, <1>5, <2>1 DEF Aligned, Order, Prefix
    <2> QED
      BY <1>2, <2>2, <2>3 DEF Order
  <1> QED
    BY <1>4, <1>5 DEF ReadBody, Looped, Order, TypeOK

(* The other steps of the owner and the thread write and take nothing, but *)
(* for the last, which closes the pipe and forgets what was in it.         *)
LEMMA OthersOrder ==
    ASSUME Order,
           \/ launch_thelper \/ thelper_signal_wait \/ StrayWakeup \/ Launched
           \/ join_thelper \/ proc_init \/ thelper_signal_ready \/ proc_post
    PROVE  Order'
  <1>1. CASE proc_post
    <2>1. /\ pipe' = <<>> /\ taken' = <<>> /\ sent' = <<>> /\ thread' = "done"
          /\ open' = FALSE
          /\ UNCHANGED <<header, engine, machine, refused, dropped, owner, thread_ready,
                       thread_exit>>
      BY <1>1 DEF proc_post, ownerVars, flagVars, engineVars, toldVars
    <2>2. pipe' \in Seq(Parts) /\ taken' \in Seq(Request \cup {Unblock})
             /\ sent' \in Seq(Request \cup {Unblock, TooLong})
      BY <2>1
    <2>3. ServerTypes' /\ TypeOK' /\ Joined'
      BY <1>1, <2>1, <2>2 DEF proc_post, Order, ServerTypes, TypeOK, Joined, Steps
    <2>4. Prefix' /\ Aligned'
      <3>1. Len(taken') = 0 /\ Len(sent') = 0 /\ Len(pipe') = 0
        BY <2>1
      <3> QED
        BY <2>1, <3>1 DEF Prefix, Aligned, Left, InHand
    <2> QED
      BY <2>3, <2>4 DEF Order
  <1>2. ASSUME UNCHANGED <<readVars, pipe, sent, engineVars>>,
               thread' = thread \/ (thread' # "body" /\ thread \notin {"body", "post"}),
               owner' \in {"idle", "wait", "waiting", "woken", "serving", "failed",
                           "unblock", "join"},
               thread_ready' \in BOOLEAN, thread_exit' \in BOOLEAN, open' \in BOOLEAN,
               thread' \in Steps, Joined'
        PROVE  Order'
    <2>1. ServerTypes' /\ TypeOK' /\ Prefix'
      BY <1>2 DEF Order, ServerTypes, TypeOK, Prefix, readVars, engineVars, toldVars
    <2>2. Aligned'
      BY <1>2 DEF Order, Aligned, Left, InHand, readVars
    <2> QED
      BY <1>2, <2>1, <2>2 DEF Order
  <1>3. TypeOK /\ Joined
    BY DEF Order
  <1>4. CASE thelper_signal_wait \/ StrayWakeup \/ Launched
    <2>1. /\ UNCHANGED <<readVars, pipe, sent, engineVars>>
          /\ UNCHANGED <<open, thread, thread_ready, thread_exit>>
          /\ owner # "idle" /\ owner' \in {"waiting", "woken", "failed", "serving"}
      BY <1>4 DEF thelper_signal_wait, StrayWakeup, Launched, flagVars, pipeVars
    <2>2. /\ owner' \in {"idle", "wait", "waiting", "woken", "serving", "failed",
                         "unblock", "join"}
          /\ thread_ready' \in BOOLEAN /\ thread_exit' \in BOOLEAN /\ open' \in BOOLEAN
          /\ thread' = thread
          /\ thread' \in Steps /\ Joined'
      BY <1>3, <2>1 DEF TypeOK, Joined
    <2> QED
      BY <1>2, <2>1, <2>2
  <1> USE DEF TypeOK, Joined, Steps, ownerVars, flagVars, pipeVars
  <1>5. CASE launch_thelper
    <2>1. /\ UNCHANGED <<readVars, pipe, sent, engineVars, open>>
          /\ thread_ready' = FALSE /\ thread_exit' = FALSE
          /\ thread = "none"
          /\ \/ owner' = "wait" /\ thread' = "init"
             \/ owner' \in {"idle", "wait"} /\ thread' = "none"
      BY <1>3, <1>5 DEF launch_thelper, thelper_signal_init
    <2> QED
      BY <1>2, <1>3, <2>1
  <1>6. CASE join_thelper
    BY <1>2, <1>3, <1>6 DEF join_thelper
  <1>7. CASE proc_init
    BY <1>2, <1>3, <1>7 DEF proc_init
  <1>8. CASE thelper_signal_ready
    BY <1>2, <1>3, <1>8 DEF thelper_signal_ready
  <1> QED
    BY <1>1, <1>4, <1>5, <1>6, <1>7, <1>8

(* Whoever writes to the pipe: the clients, and the owner that stops the   *)
(* server.                                                                 *)
LEMMA WritersOrder ==
    ASSUME Order, Stop \/ ClientSends
    PROVE  Order'
  <1>1. /\ UNCHANGED <<thread, taken, header, engine, machine, refused, dropped, open,
                     thread_ready>>
        /\ thread_exit' \in BOOLEAN
        /\ \/ owner' \in {"unblock", "join"} /\ owner # "idle"
           \/ owner' = owner
    BY DEF Stop, server_unblock, ClientSends, ownerVars, flagVars, readVars, engineVars,
           toldVars, Order, TypeOK
  <1>2. ServerTypes'
    BY StopKeeps, SendKeeps DEF Order
  <1>3. /\ sent' \in Seq(Request \cup {Unblock, TooLong})
        /\ Prefix' /\ Aligned'
    <2>1. CASE \E m \in Written : msgsnd(m)
      BY <1>1, <2>1, WritingOrders
    <2>2. CASE UNCHANGED <<pipe, sent>>
      BY <1>1, <2>2 DEF Order, TypeOK, Prefix, Aligned, Left, InHand
    <2> QED
      BY <2>1, <2>2 DEF Stop, server_unblock, unblock_proc, ClientSends, Written
  <1>4. TypeOK' /\ Joined'
    BY <1>1, <1>2, <1>3 DEF Order, TypeOK, Joined, ServerTypes
  <1> QED
    BY <1>2, <1>3, <1>4 DEF Order

(* The message task, the framework and the modem: nothing that was written *)
(* or taken changes.                                                       *)
LEMMA EngineOrders ==
    ASSUME Order, IInv', Proc \/ FrameworkAnswers \/ loc_eng_handle_engine_up
    PROVE  Order'
  <1>1. UNCHANGED serverVars
    BY DEF Proc, FrameworkAnswers, loc_eng_handle_engine_up
  <1>2. ServerTypes'
    BY DEF IInv
  <1>3. \A n \in Nifs : /\ machine'[n].state \in {"released", "pending", "acquired"}
                        /\ machine'[n].subscribers \subseteq Addresses
                        /\ dropped'[n] \subseteq Addresses
    BY DEF IInv, MachineTypes, States
  <1>4. refused' \subseteq Wifi
    BY DEF Order, TypeOK, Proc, LocEngReqRelWifi, LocEngReqRelBIT, FrameworkAnswers,
           loc_eng_handle_engine_up
  <1>5. TypeOK'
    BY <1>1, <1>2, <1>3, <1>4 DEF Order, TypeOK, ServerTypes, serverVars, ownerVars,
       flagVars, readVars, pipeVars
  <1> QED
    BY <1>1, <1>2, <1>5 DEF Order, Joined, Prefix, Aligned, Left, InHand, serverVars,
       ownerVars, readVars, pipeVars

(* Every step keeps the order.                                             *)
LEMMA StepOrders ==
    ASSUME Order, IInv, [Next]_vars
    PROVE  Order'
  <1>1. CASE UNCHANGED vars
    BY <1>1 DEF vars, ownerVars, flagVars, readVars, pipeVars, engineVars, toldVars, Order,
       ServerTypes, TypeOK, Joined, Prefix, Aligned, Left, InHand
  <1>2. IInv'
    BY StepKeeps
  <1> QED
    BY <1>1, <1>2, HeaderOrders, BodyOrders, OthersOrder, WritersOrder, EngineOrders
    DEF Next

(* For any clients, and wherever a read fails or the server is stopped:    *)
(* what the thread took is what was written first, in that order, and no   *)
(* part of one message is taken for another (msgrcv(), thelper_main()).     *)
THEOREM MessagesTakenInOrder == Spec => []HandledInOrder
  <1>1. IInv /\ Order /\ [Next]_vars => IInv' /\ Order'
    BY StepKeeps, StepOrders
  <1>2. Order => HandledInOrder
    BY OrderImplies
  <1> QED
    BY <1>1, <1>2, Begins, OrderBegins, PTL DEF Spec

-----------------------------------------------------------------------------
(* Induction over numbers, then over trees                                 *)

(* Every set of numbers that has any has a least.                          *)
LEMMA Least ==
    ASSUME NEW Good, Good \subseteq Nat, Good # {}
    PROVE  \E n \in Good : \A m \in Good : n <= m
  <1> DEFINE R == OpToRel(<, Nat)
  <1>1. IsWellFoundedOn(R, Nat)
    BY NatLessThanWellFounded
  <1>2. \E n \in Good : \A m \in Good : ~(<<m, n>> \in R)
    <2> HIDE DEF R
    <2> QED BY <1>1, WFMin
  <1>3. PICK n \in Good : \A m \in Good : ~(<<m, n>> \in R)
    BY <1>2
  <1>4. \A m \in Good : ~(m < n)
    BY <1>3 DEF OpToRel
  <1>5. \A m \in Good : m \in Nat /\ n \in Nat
    OBVIOUS
  <1>6. \A m \in Good : n <= m
    BY <1>4, <1>5
  <1> QED BY <1>6

(* What holds of 0 and of the next of each holds of all: induction over a   *)
(* set instead of a predicate, which a lemma could not take.               *)
LEMMA SetInduction ==
    ASSUME NEW Good, Good \subseteq Nat, 0 \in Good, \A n \in Good : n + 1 \in Good
    PROVE  Good = Nat
  <1> SUFFICES ASSUME Nat \ Good # {} PROVE FALSE
    OBVIOUS
  <1>1. PICK n \in Nat \ Good : \A m \in Nat \ Good : n <= m
    <2> DEFINE T == Nat \ Good
    <2>1. T \subseteq Nat /\ T # {}
      OBVIOUS
    <2> HIDE DEF T
    <2>2. \E n \in T : \A m \in T : n <= m
      BY <2>1, Least
    <2> QED BY <2>2 DEF T
  <1>2. n # 0 /\ n - 1 \in Nat /\ n - 1 \notin Nat \ Good
    BY <1>1
  <1> QED BY <1>1, <1>2

LEMMA MaxNodesNat == MaxNodes \in Nat
  BY HeapAssumption, FS_CardinalityType DEF MaxNodes

(* A recursive function is what its definition says once some function is: *)
(* one on the nodes of the next layer is made of one on those below it.    *)
LEMMA LayersDef == NodesOf = [n \in 0 .. MaxNodes |-> IF n = 0 THEN {} ELSE NodesOver(NodesOf[n - 1])]
  <1> DEFINE Good == {m \in Nat : \E f : f = [n \in 0 .. m |-> IF n = 0 THEN {} ELSE NodesOver(f[n - 1])]}
  <1>1. 0 \in Good
    <2> DEFINE f == [n \in 0 .. 0 |-> {}]
    <2>1. f = [n \in 0 .. 0 |-> IF n = 0 THEN {} ELSE NodesOver(f[n - 1])]
      OBVIOUS
    <2> QED BY <2>1
  <1>2. ASSUME NEW m \in Good PROVE m + 1 \in Good
    <2>1. PICK f : f = [n \in 0 .. m |-> IF n = 0 THEN {} ELSE NodesOver(f[n - 1])]
      OBVIOUS
    <2>a. m \in Nat
      OBVIOUS
    <2>b. \A n \in 0 .. m : f[n] = IF n = 0 THEN {} ELSE NodesOver(f[n - 1])
      BY <2>1
    <2> DEFINE g == [n \in 0 .. m + 1 |-> IF n = 0 THEN {} ELSE NodesOver(f[n - 1])]
    <2>2. \A n \in 0 .. m : g[n] = f[n]
      BY <2>a, <2>b
    <2>3. \A n \in 0 .. m + 1 : n # 0 => g[n - 1] = f[n - 1]
      <3> HIDE DEF g
      <3> QED BY <2>2, <2>a
    <2>4. g = [n \in 0 .. m + 1 |-> IF n = 0 THEN {} ELSE NodesOver(g[n - 1])]
      BY <2>3
    <2> HIDE DEF g
    <2> QED BY <2>4
  <1> HIDE DEF Good
  <1>3. Good \subseteq Nat
    BY DEF Good
  <1>4. Good = Nat
    BY <1>1, <1>2, <1>3, SetInduction
  <1>5. MaxNodes \in Good
    BY <1>4, MaxNodesNat
  <1>6. \E f : f = [n \in 0 .. MaxNodes |-> IF n = 0 THEN {} ELSE NodesOver(f[n - 1])]
    BY <1>5 DEF Good
  <1> QED BY <1>6 DEF NodesOf

LEMMA LayerZero == NodesOf[0] = {}
  BY LayersDef, MaxNodesNat

LEMMA LayerNext ==
    ASSUME NEW n \in 0 .. MaxNodes, n # MaxNodes
    PROVE  n + 1 \in 0 .. MaxNodes /\ NodesOf[n + 1] = NodesOver(NodesOf[n])
  <1>1. n + 1 \in 0 .. MaxNodes /\ n + 1 # 0 /\ n + 1 - 1 = n
    BY MaxNodesNat
  <1>2. \A k \in 0 .. MaxNodes : NodesOf[k] = IF k = 0 THEN {} ELSE NodesOver(NodesOf[k - 1])
    BY LayersDef, Zenon
  <1> QED BY <1>1, <1>2

LEMMA LayerInduction ==
    ASSUME NEW Good, 0 \in Good, \A n \in 0 .. MaxNodes : n # MaxNodes /\ n \in Good => n + 1 \in Good
    PROVE  0 .. MaxNodes \subseteq Good
  <1> DEFINE T == {n \in Nat : n \in 0 .. MaxNodes => n \in Good}
  <1>1. 0 \in T
    OBVIOUS
  <1>2. \A n \in T : n + 1 \in T
    BY MaxNodesNat
  <1>3. T \subseteq Nat
    OBVIOUS
  <1> HIDE DEF T
  <1>4. T = Nat
    BY <1>1, <1>2, <1>3, SetInduction
  <1>5. \A n \in 0 .. MaxNodes : n \in Nat
    BY MaxNodesNat
  <1> QED BY <1>4, <1>5 DEF T

LEMMA LayersGrow == \A n \in 0 .. MaxNodes : n # MaxNodes => NodesOf[n] \subseteq NodesOf[n + 1]
  <1> DEFINE Good == {n \in 0 .. MaxNodes : n # MaxNodes => NodesOf[n] \subseteq NodesOf[n + 1]}
  <1>1. 0 \in Good
    BY LayerZero, MaxNodesNat
  <1>2. ASSUME NEW n \in 0 .. MaxNodes, n # MaxNodes, n \in Good PROVE n + 1 \in Good
    <2>1. n + 1 \in 0 .. MaxNodes /\ NodesOf[n + 1] = NodesOver(NodesOf[n])
      BY <1>2, LayerNext
    <2>2. SUFFICES ASSUME n + 1 # MaxNodes PROVE NodesOf[n + 1] \subseteq NodesOf[n + 1 + 1]
      BY <2>1
    <2>3. NodesOf[n + 1 + 1] = NodesOver(NodesOf[n + 1])
      BY <2>1, <2>2, LayerNext
    <2>4. NodesOf[n] \subseteq NodesOf[n + 1]
      BY <1>2
    <2>5. NodesOver(NodesOf[n]) \subseteq NodesOver(NodesOf[n + 1])
      BY <2>4 DEF NodesOver
    <2> QED BY <2>1, <2>3, <2>5
  <1> HIDE DEF Good
  <1>3. 0 .. MaxNodes \subseteq Good
    BY <1>1, <1>2, LayerInduction
  <1> QED BY <1>3 DEF Good

LEMMA LayersOrdered ==
    ASSUME NEW m \in 0 .. MaxNodes, NEW n \in 0 .. MaxNodes, m <= n
    PROVE  NodesOf[m] \subseteq NodesOf[n]
  <1> DEFINE Good == {k \in 0 .. MaxNodes : m <= k => NodesOf[m] \subseteq NodesOf[k]}
  <1>1. 0 \in Good
    BY MaxNodesNat
  <1>2. ASSUME NEW k \in 0 .. MaxNodes, k # MaxNodes, k \in Good PROVE k + 1 \in Good
    <2>1. k + 1 \in 0 .. MaxNodes /\ NodesOf[k] \subseteq NodesOf[k + 1]
      BY <1>2, LayersGrow, LayerNext
    <2>2. CASE m <= k
      BY <2>1, <2>2, <1>2
    <2>3. CASE ~(m <= k)
      <3>1. m <= k + 1 => m = k + 1
        BY <2>3, MaxNodesNat
      <3> QED BY <3>1, <2>1
    <2> QED BY <2>2, <2>3
  <1> HIDE DEF Good
  <1>3. 0 .. MaxNodes \subseteq Good
    BY <1>1, <1>2, LayerInduction
  <1> QED BY <1>3 DEF Good

LEMMA LayerParts ==
    ASSUME NEW n \in 0 .. MaxNodes, NEW node \in NodesOf[n]
    PROVE  /\ n - 1 \in 0 .. MaxNodes /\ n # 0
           /\ node.mLeft \in NodesOf[n - 1] \cup {NULL}
           /\ node.mRight \in NodesOf[n - 1] \cup {NULL}
           /\ node.mData \in Rankables /\ node.mSize \in Nat
           /\ node = [mSize |-> node.mSize, mData |-> node.mData,
                      mLeft |-> node.mLeft, mRight |-> node.mRight]
  <1>1. n # 0
    BY LayerZero
  <1>2. n - 1 \in 0 .. MaxNodes /\ n - 1 # MaxNodes /\ n - 1 + 1 = n
    BY <1>1, MaxNodesNat
  <1>3. NodesOf[n - 1 + 1] = NodesOver(NodesOf[n - 1])
    BY <1>2, LayerNext
  <1>4. NodesOf[n] = NodesOver(NodesOf[n - 1])
    BY <1>2, <1>3
  <1> QED BY <1>1, <1>2, <1>4 DEF NodesOver

LEMMA NodeParts ==
    ASSUME NEW node \in Nodes
    PROVE  /\ node.mLeft \in Trees /\ node.mRight \in Trees
           /\ node.mData \in Rankables /\ node.mSize \in Nat
           /\ node = [mSize |-> node.mSize, mData |-> node.mData,
                      mLeft |-> node.mLeft, mRight |-> node.mRight]
           /\ node # NULL /\ node \in Trees
  <1>1. MaxNodes \in 0 .. MaxNodes /\ \A k \in 0 .. MaxNodes : k <= MaxNodes
    BY MaxNodesNat
  <1>2. node \in NodesOf[MaxNodes]
    BY DEF Nodes
  <1>3. MaxNodes - 1 \in 0 .. MaxNodes
    BY <1>1, <1>2, LayerParts
  <1>4. NodesOf[MaxNodes - 1] \subseteq NodesOf[MaxNodes]
    BY <1>1, <1>3, LayersOrdered
  <1>5. /\ node.mLeft \in NodesOf[MaxNodes - 1] \cup {NULL}
        /\ node.mRight \in NodesOf[MaxNodes - 1] \cup {NULL}
        /\ node.mData \in Rankables /\ node.mSize \in Nat
        /\ node = [mSize |-> node.mSize, mData |-> node.mData,
                   mLeft |-> node.mLeft, mRight |-> node.mRight]
    BY <1>1, <1>2, LayerParts
  <1> QED BY <1>4, <1>5, HeapAssumption DEF Nodes, Trees

(* What holds of no tree, and of a node when of its children, holds of all. *)
LEMMA TreeInduction ==
    ASSUME NEW Good, NULL \in Good,
           \A node \in Nodes : node.mLeft \in Good /\ node.mRight \in Good => node \in Good
    PROVE  Trees \subseteq Good
  <1> DEFINE T == {n \in 0 .. MaxNodes : NodesOf[n] \subseteq Good}
  <1>1. 0 \in T
    BY LayerZero, MaxNodesNat
  <1>2. ASSUME NEW n \in 0 .. MaxNodes, n # MaxNodes, n \in T PROVE n + 1 \in T
    <2>1. n + 1 \in 0 .. MaxNodes /\ n + 1 - 1 = n
      BY <1>2, LayerNext, MaxNodesNat
    <2>2. ASSUME NEW node \in NodesOf[n + 1] PROVE node \in Good
      <3>1. node \in Nodes
        <4>1. MaxNodes \in 0 .. MaxNodes /\ n + 1 <= MaxNodes
          BY <2>1, MaxNodesNat
        <4> QED BY <4>1, <2>1, LayersOrdered DEF Nodes
      <3>2. /\ node.mLeft \in NodesOf[n + 1 - 1] \cup {NULL}
            /\ node.mRight \in NodesOf[n + 1 - 1] \cup {NULL}
        BY <2>1, LayerParts
      <3>3. node.mLeft \in Good /\ node.mRight \in Good
        BY <3>2, <2>1, <1>2
      <3> QED BY <3>1, <3>3
    <2> QED BY <2>1, <2>2
  <1> HIDE DEF T
  <1>3. 0 .. MaxNodes \subseteq T
    BY <1>1, <1>2, LayerInduction
  <1>4. MaxNodes \in 0 .. MaxNodes
    BY MaxNodesNat
  <1> QED BY <1>3, <1>4 DEF T, Nodes, Trees

LEMMA LayerOfTrees ==
    /\ \A n \in 0 .. MaxNodes : n # MaxNodes => NodesOf[n] \subseteq NodesOf[n + 1]
    /\ \A n \in 0 .. MaxNodes : n # MaxNodes => \A node \in NodesOf[n + 1] :
          /\ node.mLeft \in NodesOf[n] \cup {NULL}
          /\ node.mRight \in NodesOf[n] \cup {NULL}
    /\ \A n \in 0 .. MaxNodes : n # MaxNodes => NULL \notin NodesOf[n + 1]
    /\ MaxNodes \in 0 .. MaxNodes
    /\ NodesOf[0] = {}
  <1>1. \A n \in 0 .. MaxNodes : n # MaxNodes => \A node \in NodesOf[n + 1] :
          /\ node.mLeft \in NodesOf[n] \cup {NULL}
          /\ node.mRight \in NodesOf[n] \cup {NULL}
    <2> SUFFICES ASSUME NEW n \in 0 .. MaxNodes, n # MaxNodes, NEW node \in NodesOf[n + 1]
                 PROVE  /\ node.mLeft \in NodesOf[n] \cup {NULL}
                        /\ node.mRight \in NodesOf[n] \cup {NULL}
      OBVIOUS
    <2>1. n + 1 \in 0 .. MaxNodes /\ n + 1 - 1 = n
      BY LayerNext, MaxNodesNat
    <2>2. /\ node.mLeft \in NodesOf[n + 1 - 1] \cup {NULL}
          /\ node.mRight \in NodesOf[n + 1 - 1] \cup {NULL}
      BY <2>1, LayerParts
    <2> QED BY <2>1, <2>2
  <1>2. \A n \in 0 .. MaxNodes : n # MaxNodes => NULL \notin NodesOf[n + 1]
    <2> SUFFICES ASSUME NEW n \in 0 .. MaxNodes, n # MaxNodes
                 PROVE  NULL \notin NodesOf[n + 1]
      OBVIOUS
    <2>1. n + 1 \in 0 .. MaxNodes /\ n + 1 <= MaxNodes /\ MaxNodes \in 0 .. MaxNodes
      BY LayerNext, MaxNodesNat
    <2> QED BY <2>1, LayersOrdered, HeapAssumption DEF Nodes
  <1> QED BY <1>1, <1>2, LayersGrow, LayerZero, MaxNodesNat

-----------------------------------------------------------------------------
SubtreesOf(f, tree) == IF tree = NULL THEN {} ELSE {tree} \cup f[tree.mLeft] \cup f[tree.mRight]

LEMMA SubtreesDef == Subtrees = [tree \in Trees |-> SubtreesOf(Subtrees, tree)]
  <1> DEFINE Good == {n \in 0 .. MaxNodes :
                     \E f : f = [tree \in NodesOf[n] \cup {NULL} |-> SubtreesOf(f, tree)]}
  <1>1. 0 \in Good
    <2> DEFINE f == [tree \in NodesOf[0] \cup {NULL} |-> {}]
    <2>1. f = [tree \in NodesOf[0] \cup {NULL} |-> SubtreesOf(f, tree)]
      BY LayerZero DEF SubtreesOf
    <2> HIDE DEF f
    <2> QED BY <2>1, MaxNodesNat
  <1>2. ASSUME NEW n \in 0 .. MaxNodes, n # MaxNodes, n \in Good PROVE n + 1 \in Good
    <2> DEFINE lower == NodesOf[n] \cup {NULL}
               upper == NodesOf[n + 1] \cup {NULL}
    <2>1. PICK f : f = [tree \in lower |-> SubtreesOf(f, tree)]
      BY <1>2
    <2>2. \A tree \in lower : f[tree] = SubtreesOf(f, tree)
      BY <2>1, Zenon
    <2>3. /\ lower \subseteq upper
          /\ \A tree \in upper : tree # NULL => tree.mLeft \in lower /\ tree.mRight \in lower
      BY <1>2, LayerOfTrees
    <2> DEFINE g == [tree \in upper |-> SubtreesOf(f, tree)]
    <2> HIDE DEF lower, upper
    <2>4. \A tree \in lower : g[tree] = f[tree]
      BY <2>2, <2>3
    <2>5. ASSUME NEW tree \in upper PROVE SubtreesOf(f, tree) = SubtreesOf(g, tree)
      <3> HIDE DEF g
      <3> QED BY <2>3, <2>4 DEF SubtreesOf
    <2>6. g = [tree \in upper |-> SubtreesOf(g, tree)]
      BY <2>5
    <2> HIDE DEF g
    <2> QED BY <2>6, <1>2, LayerNext DEF upper
  <1> HIDE DEF Good
  <1>3. 0 .. MaxNodes \subseteq Good
    BY <1>1, <1>2, LayerInduction
  <1>4. \E f : f = [tree \in Trees |-> SubtreesOf(f, tree)]
    BY <1>3, MaxNodesNat DEF Good, Trees, Nodes
  <1> QED BY <1>4 DEF Subtrees, SubtreesOf

FindsIn(rank, data, f, tree) ==
    /\ tree # NULL
    /\ \/ tree.mData = data
       \/ /\ ~OutRanks(rank, data, tree.mData)
          /\ f[tree.mLeft] \/ f[tree.mRight]

LEMMA FindsDef ==
    ASSUME NEW rank, NEW data
    PROVE  Finds(rank, data) = [tree \in Trees |-> FindsIn(rank, data, Finds(rank, data), tree)]
  <1> DEFINE Good == {n \in 0 .. MaxNodes : \E f : f = [tree \in NodesOf[n] \cup {NULL} |-> FindsIn(rank, data, f, tree)]}
  <1>1. 0 \in Good
    <2> DEFINE f == [tree \in NodesOf[0] \cup {NULL} |-> FALSE]
    <2>1. f = [tree \in NodesOf[0] \cup {NULL} |-> FindsIn(rank, data, f, tree)]
      BY LayerZero DEF FindsIn
    <2> HIDE DEF f
    <2> QED BY <2>1, MaxNodesNat
  <1>2. ASSUME NEW n \in 0 .. MaxNodes, n # MaxNodes, n \in Good PROVE n + 1 \in Good
    <2> DEFINE lower == NodesOf[n] \cup {NULL}
               upper == NodesOf[n + 1] \cup {NULL}
    <2>1. PICK f : f = [tree \in lower |-> FindsIn(rank, data, f, tree)]
      BY <1>2
    <2>2. \A tree \in lower : f[tree] = FindsIn(rank, data, f, tree)
      BY <2>1, Zenon
    <2>3. /\ lower \subseteq upper
          /\ \A tree \in upper : tree # NULL => tree.mLeft \in lower /\ tree.mRight \in lower
      BY <1>2, LayerOfTrees
    <2> DEFINE g == [tree \in upper |-> FindsIn(rank, data, f, tree)]
    <2> HIDE DEF lower, upper
    <2>4. \A tree \in lower : g[tree] = f[tree]
      BY <2>2, <2>3
    <2>5. ASSUME NEW tree \in upper PROVE FindsIn(rank, data, f, tree) = FindsIn(rank, data, g, tree)
      <3> HIDE DEF g
      <3> QED BY <2>3, <2>4 DEF FindsIn
    <2>6. g = [tree \in upper |-> FindsIn(rank, data, g, tree)]
      BY <2>5
    <2> HIDE DEF g
    <2> QED BY <2>6, <1>2, LayerNext DEF upper
  <1> HIDE DEF Good
  <1>3. 0 .. MaxNodes \subseteq Good
    BY <1>1, <1>2, LayerInduction
  <1>4. \E f : f = [tree \in Trees |-> FindsIn(rank, data, f, tree)]
    BY <1>3, MaxNodesNat DEF Good, Trees, Nodes
  <1> QED BY <1>4 DEF Finds, FindsIn

LEMMA FindsNothing == \A rank, data : Finds(rank, data)[NULL] = FALSE
  BY FindsDef DEF FindsIn, Trees

PushedOnto(rank, f, tree) ==
    [data \in Rankables |->
        LET first == OutRanks(rank, data, tree.mData)
            low == IF first THEN tree.mData ELSE data
            grown == [tree EXCEPT !.mData = IF first THEN data ELSE @, !.mSize = @ + 1]
        IN  IF tree.mLeft = NULL THEN [grown EXCEPT !.mLeft = Node(low)]
            ELSE IF tree.mRight = NULL THEN [grown EXCEPT !.mRight = Node(low)]
            ELSE IF tree.mLeft.mSize <= tree.mRight.mSize
                 THEN [grown EXCEPT !.mLeft = f[tree.mLeft][low]]
                 ELSE [grown EXCEPT !.mRight = f[tree.mRight][low]]]

LEMMA NodePushDef ==
    ASSUME NEW rank
    PROVE  NodePush(rank) = [tree \in Nodes |-> PushedOnto(rank, NodePush(rank), tree)]
  <1> DEFINE Good == {n \in 0 .. MaxNodes : \E f : f = [tree \in NodesOf[n] |-> PushedOnto(rank, f, tree)]}
  <1>1. 0 \in Good
    <2> DEFINE f == [tree \in {} |-> 0]
    <2>1. f = [tree \in NodesOf[0] |-> PushedOnto(rank, f, tree)]
      BY LayerZero
    <2> HIDE DEF f
    <2> QED BY <2>1, MaxNodesNat
  <1>2. ASSUME NEW n \in 0 .. MaxNodes, n # MaxNodes, n \in Good PROVE n + 1 \in Good
    <2> DEFINE lower == NodesOf[n]
               upper == NodesOf[n + 1]
    <2>1. PICK f : f = [tree \in lower |-> PushedOnto(rank, f, tree)]
      BY <1>2
    <2>2. \A tree \in lower : f[tree] = PushedOnto(rank, f, tree)
      BY <2>1, Zenon
    <2>3. /\ lower \subseteq upper /\ NULL \notin upper
          /\ \A tree \in upper : tree.mLeft \in lower \cup {NULL} /\ tree.mRight \in lower \cup {NULL}
      BY <1>2, LayerOfTrees
    <2> DEFINE g == [tree \in upper |-> PushedOnto(rank, f, tree)]
    <2> HIDE DEF lower, upper
    <2>4. \A tree \in lower : g[tree] = f[tree]
      BY <2>2, <2>3
    <2>5. ASSUME NEW tree \in upper PROVE PushedOnto(rank, f, tree) = PushedOnto(rank, g, tree)
      <3> HIDE DEF g
      <3> QED BY <2>3, <2>4 DEF PushedOnto
    <2>6. g = [tree \in upper |-> PushedOnto(rank, g, tree)]
      BY <2>5
    <2> HIDE DEF g
    <2> QED BY <2>6, <1>2, LayerNext DEF upper
  <1> HIDE DEF Good
  <1>3. 0 .. MaxNodes \subseteq Good
    BY <1>1, <1>2, LayerInduction
  <1>4. \E f : f = [tree \in Nodes |-> PushedOnto(rank, f, tree)]
    BY <1>3, MaxNodesNat DEF Good, Trees, Nodes
  <1> QED BY <1>4 DEF NodePush, PushedOnto

PoppedFrom(rank, f, tree) ==
    LET shrunk == [tree EXCEPT !.mSize = @ - 1]
    IN  IF tree.mLeft = NULL /\ tree.mRight = NULL THEN NULL
        ELSE IF UpperIsLeft(rank, tree)
             THEN [shrunk EXCEPT !.mData = tree.mLeft.mData, !.mLeft = f[tree.mLeft]]
             ELSE [shrunk EXCEPT !.mData = tree.mRight.mData, !.mRight = f[tree.mRight]]

LEMMA NodePopDef ==
    ASSUME NEW rank
    PROVE  NodePop(rank) = [tree \in Nodes |-> PoppedFrom(rank, NodePop(rank), tree)]
  <1> DEFINE Good == {n \in 0 .. MaxNodes : \E f : f = [tree \in NodesOf[n] |-> PoppedFrom(rank, f, tree)]}
  <1>1. 0 \in Good
    <2> DEFINE f == [tree \in {} |-> 0]
    <2>1. f = [tree \in NodesOf[0] |-> PoppedFrom(rank, f, tree)]
      BY LayerZero
    <2> HIDE DEF f
    <2> QED BY <2>1, MaxNodesNat
  <1>2. ASSUME NEW n \in 0 .. MaxNodes, n # MaxNodes, n \in Good PROVE n + 1 \in Good
    <2> DEFINE lower == NodesOf[n]
               upper == NodesOf[n + 1]
    <2>1. PICK f : f = [tree \in lower |-> PoppedFrom(rank, f, tree)]
      BY <1>2
    <2>2. \A tree \in lower : f[tree] = PoppedFrom(rank, f, tree)
      BY <2>1, Zenon
    <2>3. /\ lower \subseteq upper /\ NULL \notin upper
          /\ \A tree \in upper : tree.mLeft \in lower \cup {NULL} /\ tree.mRight \in lower \cup {NULL}
      BY <1>2, LayerOfTrees
    <2> DEFINE g == [tree \in upper |-> PoppedFrom(rank, f, tree)]
    <2> HIDE DEF lower, upper
    <2>4. \A tree \in lower : g[tree] = f[tree]
      BY <2>2, <2>3
    <2>5. ASSUME NEW tree \in upper PROVE PoppedFrom(rank, f, tree) = PoppedFrom(rank, g, tree)
      <3> HIDE DEF g
      <3> QED BY <2>3, <2>4 DEF PoppedFrom, UpperIsLeft
    <2>6. g = [tree \in upper |-> PoppedFrom(rank, g, tree)]
      BY <2>5
    <2> HIDE DEF g
    <2> QED BY <2>6, <1>2, LayerNext DEF upper
  <1> HIDE DEF Good
  <1>3. 0 .. MaxNodes \subseteq Good
    BY <1>1, <1>2, LayerInduction
  <1>4. \E f : f = [tree \in Nodes |-> PoppedFrom(rank, f, tree)]
    BY <1>3, MaxNodesNat DEF Good, Trees, Nodes
  <1> QED BY <1>4 DEF NodePop, PoppedFrom

RemovedFrom(rank, data, f, tree) ==
    IF ~Finds(rank, data)[tree] THEN tree
    ELSE IF tree.mData = data THEN NodePop(rank)[tree]
    ELSE IF Finds(rank, data)[tree.mLeft]
         THEN [tree EXCEPT !.mSize = @ - 1, !.mLeft = f[tree.mLeft]]
         ELSE [tree EXCEPT !.mSize = @ - 1, !.mRight = f[tree.mRight]]

LEMMA NodeRemoveDef ==
    ASSUME NEW rank, NEW data
    PROVE  NodeRemove(rank, data) = [tree \in Trees |-> RemovedFrom(rank, data, NodeRemove(rank, data), tree)]
  <1> DEFINE Good == {n \in 0 .. MaxNodes : \E f : f = [tree \in NodesOf[n] \cup {NULL} |-> RemovedFrom(rank, data, f, tree)]}
  <1>1. 0 \in Good
    <2> DEFINE f == [tree \in NodesOf[0] \cup {NULL} |-> NULL]
    <2>1. f = [tree \in NodesOf[0] \cup {NULL} |-> RemovedFrom(rank, data, f, tree)]
      BY LayerZero, FindsNothing DEF RemovedFrom
    <2> HIDE DEF f
    <2> QED BY <2>1, MaxNodesNat
  <1>2. ASSUME NEW n \in 0 .. MaxNodes, n # MaxNodes, n \in Good PROVE n + 1 \in Good
    <2> DEFINE lower == NodesOf[n] \cup {NULL}
               upper == NodesOf[n + 1] \cup {NULL}
    <2>1. PICK f : f = [tree \in lower |-> RemovedFrom(rank, data, f, tree)]
      BY <1>2
    <2>2. \A tree \in lower : f[tree] = RemovedFrom(rank, data, f, tree)
      BY <2>1, Zenon
    <2>3. /\ lower \subseteq upper
          /\ \A tree \in upper : tree # NULL => tree.mLeft \in lower /\ tree.mRight \in lower
      BY <1>2, LayerOfTrees
    <2> DEFINE g == [tree \in upper |-> RemovedFrom(rank, data, f, tree)]
    <2> HIDE DEF lower, upper
    <2>4. \A tree \in lower : g[tree] = f[tree]
      BY <2>2, <2>3
    <2>5. ASSUME NEW tree \in upper PROVE RemovedFrom(rank, data, f, tree) = RemovedFrom(rank, data, g, tree)
      <3> HIDE DEF g
      <3> QED BY <2>3, <2>4, FindsNothing DEF RemovedFrom
    <2>6. g = [tree \in upper |-> RemovedFrom(rank, data, g, tree)]
      BY <2>5
    <2> HIDE DEF g
    <2> QED BY <2>6, <1>2, LayerNext DEF upper
  <1> HIDE DEF Good
  <1>3. 0 .. MaxNodes \subseteq Good
    BY <1>1, <1>2, LayerInduction
  <1>4. \E f : f = [tree \in Trees |-> RemovedFrom(rank, data, f, tree)]
    BY <1>3, MaxNodesNat DEF Good, Trees, Nodes
  <1> QED BY <1>4 DEF NodeRemove, RemovedFrom

-----------------------------------------------------------------------------
(* What a node and a tree of nodes must be                                 *)

HeapNode(rank, node) ==
    /\ \A child \in {node.mLeft, node.mRight} \ {NULL} :
         ~OutRanks(rank, child.mData, node.mData)
    /\ node.mSize = SizeOf(node.mLeft) + SizeOf(node.mRight) + 1
    /\ node.mData \notin Data(node.mLeft) \cup Data(node.mRight)
    /\ Data(node.mLeft) \cap Data(node.mRight) = {}

Sound(rank, tree) == \A node \in Subtrees[tree] : HeapNode(rank, node)

LEMMA NothingIn == Subtrees[NULL] = {} /\ Data(NULL) = {} /\ \A rank : Sound(rank, NULL)
  <1>1. Subtrees[NULL] = {}
    BY SubtreesDef DEF SubtreesOf, Trees
  <1> QED BY <1>1 DEF Data, Sound

LEMMA SubtreesParts ==
    ASSUME NEW node \in Nodes
    PROVE  Subtrees[node] = {node} \cup Subtrees[node.mLeft] \cup Subtrees[node.mRight]
  <1>1. node \in Trees /\ node # NULL
    BY NodeParts
  <1>2. Subtrees[node] = SubtreesOf(Subtrees, node)
    BY <1>1, SubtreesDef, Zenon
  <1> QED BY <1>1, <1>2 DEF SubtreesOf

LEMMA DataParts ==
    ASSUME NEW node \in Nodes
    PROVE  Data(node) = {node.mData} \cup Data(node.mLeft) \cup Data(node.mRight)
  BY SubtreesParts DEF Data

LEMMA SoundParts ==
    ASSUME NEW node \in Nodes, NEW rank
    PROVE  Sound(rank, node) <=> /\ HeapNode(rank, node)
                                 /\ Sound(rank, node.mLeft)
                                 /\ Sound(rank, node.mRight)
  BY SubtreesParts DEF Sound

LEMMA DataType == \A tree \in Trees : Data(tree) \subseteq Rankables
  <1> DEFINE Good == {tree \in Trees : Data(tree) \subseteq Rankables}
  <1>1. NULL \in Good
    BY NothingIn DEF Trees
  <1>2. ASSUME NEW node \in Nodes, node.mLeft \in Good, node.mRight \in Good PROVE node \in Good
    BY <1>2, NodeParts, DataParts
  <1> HIDE DEF Good
  <1>3. Trees \subseteq Good
    BY <1>1, <1>2, TreeInduction
  <1> QED BY <1>3 DEF Good

LEMMA RootIn == \A node \in Nodes : node.mData \in Data(node)
  BY DataParts

LEMMA RootFirst ==
    ASSUME NEW rank \in [Rankables -> Int]
    PROVE  \A tree \in Trees : Sound(rank, tree) =>
              \A d \in Data(tree) : rank[tree.mData] <= rank[d]
  <1> DEFINE Good == {tree \in Trees : Sound(rank, tree) =>
                     \A d \in Data(tree) : rank[tree.mData] <= rank[d]}
  <1>1. NULL \in Good
    BY NothingIn DEF Trees
  <1>2. ASSUME NEW node \in Nodes, node.mLeft \in Good, node.mRight \in Good PROVE node \in Good
    <2>1. node \in Trees /\ node.mData \in Rankables
      BY NodeParts
    <2>2. SUFFICES ASSUME Sound(rank, node), NEW d \in Data(node)
                   PROVE  rank[node.mData] <= rank[d]
      BY <2>1
    <2>3. HeapNode(rank, node) /\ Sound(rank, node.mLeft) /\ Sound(rank, node.mRight)
      BY <2>2, SoundParts
    <2>4. d \in Rankables
      BY <2>1, DataType
    <2>5. ASSUME NEW child \in {node.mLeft, node.mRight}, d \in Data(child)
          PROVE  rank[node.mData] <= rank[d]
      <3>1. child # NULL
        BY <2>5, NothingIn
      <3>2. child \in Nodes /\ child.mData \in Rankables
        BY <3>1, NodeParts DEF Trees
      <3>3. rank[child.mData] <= rank[d]
        BY <2>5, <2>3, <1>2
      <3>4. ~(rank[child.mData] < rank[node.mData])
        BY <3>1, <2>3 DEF HeapNode, OutRanks
      <3> QED BY <3>2, <3>3, <3>4, <2>1, <2>4
    <2>6. d = node.mData \/ d \in Data(node.mLeft) \/ d \in Data(node.mRight)
      BY DataParts
    <2> QED BY <2>1, <2>5, <2>6
  <1> HIDE DEF Good
  <1>3. Trees \subseteq Good
    BY <1>1, <1>2, TreeInduction
  <1> QED BY <1>3 DEF Good

LEMMA DataFinite == \A tree \in Trees : IsFiniteSet(Data(tree)) /\ Cardinality(Data(tree)) \in 0 .. MaxNodes
  <1> SUFFICES ASSUME NEW tree \in Trees
               PROVE  IsFiniteSet(Data(tree)) /\ Cardinality(Data(tree)) \in 0 .. MaxNodes
    OBVIOUS
  <1>1. Data(tree) \subseteq Rankables /\ IsFiniteSet(Rankables)
    BY DataType, HeapAssumption
  <1>2. IsFiniteSet(Data(tree)) /\ Cardinality(Data(tree)) <= Cardinality(Rankables)
    BY <1>1, FS_Subset
  <1> QED BY <1>2, MaxNodesNat, FS_CardinalityType DEF MaxNodes

LEMMA OneMore ==
    ASSUME NEW A, NEW B, NEW d, IsFiniteSet(A), IsFiniteSet(B), A \cap B = {}, d \notin A \cup B
    PROVE  /\ IsFiniteSet({d} \cup A \cup B)
           /\ Cardinality({d} \cup A \cup B) = Cardinality(A) + Cardinality(B) + 1
  <1> DEFINE U == A \cup B
  <1>1. IsFiniteSet(U) /\ Cardinality(U) = Cardinality(A) + Cardinality(B) - Cardinality(A \cap B)
    BY FS_Union
  <1>2. Cardinality(A \cap B) = 0
    BY FS_EmptySet
  <1>3. Cardinality(A) \in Nat /\ Cardinality(B) \in Nat
    BY FS_CardinalityType
  <1>4. Cardinality(U) = Cardinality(A) + Cardinality(B)
    BY <1>1, <1>2, <1>3
  <1>5. d \notin U /\ {d} \cup A \cup B = U \cup {d}
    OBVIOUS
  <1> HIDE DEF U
  <1>6. IsFiniteSet(U \cup {d}) /\ Cardinality(U \cup {d}) = Cardinality(U) + 1
    BY <1>1, <1>5, FS_AddElement
  <1> QED BY <1>4, <1>5, <1>6

LEMMA SizeIsCardinality ==
    ASSUME NEW rank
    PROVE  \A tree \in Trees : Sound(rank, tree) => SizeOf(tree) = Cardinality(Data(tree))
  <1> DEFINE Good == {tree \in Trees : Sound(rank, tree) => SizeOf(tree) = Cardinality(Data(tree))}
  <1>1. NULL \in Good
    BY NothingIn, FS_EmptySet DEF Trees, SizeOf
  <1>2. ASSUME NEW node \in Nodes, node.mLeft \in Good, node.mRight \in Good PROVE node \in Good
    <2>1. node \in Trees /\ node # NULL /\ node.mLeft \in Trees /\ node.mRight \in Trees
      BY NodeParts
    <2>2. SUFFICES ASSUME Sound(rank, node) PROVE SizeOf(node) = Cardinality(Data(node))
      BY <2>1
    <2>3. HeapNode(rank, node) /\ Sound(rank, node.mLeft) /\ Sound(rank, node.mRight)
      BY <2>2, SoundParts
    <2>4. /\ SizeOf(node.mLeft) = Cardinality(Data(node.mLeft))
          /\ SizeOf(node.mRight) = Cardinality(Data(node.mRight))
      BY <2>3, <1>2
    <2>5. IsFiniteSet(Data(node.mLeft)) /\ IsFiniteSet(Data(node.mRight))
      BY <2>1, DataFinite
    <2>6. Data(node.mLeft) \cap Data(node.mRight) = {} /\ node.mData \notin Data(node.mLeft) \cup Data(node.mRight)
      BY <2>3 DEF HeapNode
    <2>7. Cardinality(Data(node)) = Cardinality(Data(node.mLeft)) + Cardinality(Data(node.mRight)) + 1
      <3> DEFINE A == Data(node.mLeft)
                 B == Data(node.mRight)
                 d == node.mData
      <3>1. Data(node) = {d} \cup A \cup B
        BY DataParts
      <3>2. IsFiniteSet(A) /\ IsFiniteSet(B) /\ A \cap B = {} /\ d \notin A \cup B
        BY <2>5, <2>6
      <3> HIDE DEF A, B, d
      <3>3. Cardinality({d} \cup A \cup B) = Cardinality(A) + Cardinality(B) + 1
        BY <3>2, OneMore
      <3> QED BY <3>1, <3>3 DEF A, B
    <2>8. SizeOf(node) = SizeOf(node.mLeft) + SizeOf(node.mRight) + 1
      BY <2>1, <2>3 DEF HeapNode, SizeOf
    <2> QED BY <2>4, <2>7, <2>8
  <1> HIDE DEF Good
  <1>3. Trees \subseteq Good
    BY <1>1, <1>2, TreeInduction
  <1> QED BY <1>3 DEF Good

(* A sound tree is no deeper than it has nodes.                            *)
LEMMA Shallow ==
    ASSUME NEW rank
    PROVE  \A node \in Nodes : Sound(rank, node) => node.mSize \in 1 .. MaxNodes /\ node \in NodesOf[node.mSize]
  <1> DEFINE Good == {tree \in Trees : Sound(rank, tree) /\ tree # NULL =>
                     tree.mSize \in 1 .. MaxNodes /\ tree \in NodesOf[tree.mSize]}
  <1>1. NULL \in Good
    BY DEF Trees
  <1>2. ASSUME NEW node \in Nodes, node.mLeft \in Good, node.mRight \in Good PROVE node \in Good
    <2>1. node \in Trees /\ node # NULL /\ node.mLeft \in Trees /\ node.mRight \in Trees
      BY NodeParts
    <2>2. SUFFICES ASSUME Sound(rank, node)
                   PROVE  node.mSize \in 1 .. MaxNodes /\ node \in NodesOf[node.mSize]
      BY <2>1
    <2> DEFINE size == node.mSize
               below == NodesOf[size - 1]
    <2>3. HeapNode(rank, node) /\ Sound(rank, node.mLeft) /\ Sound(rank, node.mRight)
      BY <2>2, SoundParts
    <2>4. size \in 1 .. MaxNodes
      <3>1. SizeOf(node) = Cardinality(Data(node)) /\ Cardinality(Data(node)) \in 0 .. MaxNodes
        BY <2>1, <2>2, SizeIsCardinality, DataFinite
      <3>2. /\ SizeOf(node.mLeft) = Cardinality(Data(node.mLeft))
            /\ SizeOf(node.mRight) = Cardinality(Data(node.mRight))
            /\ Cardinality(Data(node.mLeft)) \in 0 .. MaxNodes
            /\ Cardinality(Data(node.mRight)) \in 0 .. MaxNodes
        BY <2>1, <2>3, SizeIsCardinality, DataFinite
      <3>3. size = SizeOf(node.mLeft) + SizeOf(node.mRight) + 1
        BY <2>3 DEF HeapNode
      <3>4. size = SizeOf(node)
        BY <2>1 DEF SizeOf
      <3> HIDE DEF size
      <3> QED BY <3>1, <3>2, <3>3, <3>4, MaxNodesNat
    <2>5. ASSUME NEW child \in {node.mLeft, node.mRight} PROVE child \in below \cup {NULL}
      <3>1. CASE child = NULL
        BY <3>1
      <3>2. CASE child # NULL
        <4>1. child.mSize \in 1 .. MaxNodes /\ child \in NodesOf[child.mSize]
          BY <3>2, <2>3, <1>2
        <4>2. child.mSize <= size - 1
          <5>1. size = SizeOf(node.mLeft) + SizeOf(node.mRight) + 1
            BY <2>3 DEF HeapNode
          <5>2. SizeOf(node.mLeft) \in Nat /\ SizeOf(node.mRight) \in Nat
            BY <2>1, NodeParts DEF SizeOf, Trees
          <5>3. child.mSize = SizeOf(node.mLeft) \/ child.mSize = SizeOf(node.mRight)
            BY <3>2 DEF SizeOf
          <5> HIDE DEF size
          <5> QED BY <5>1, <5>2, <5>3
        <4>3. size - 1 \in 0 .. MaxNodes /\ child.mSize \in 0 .. MaxNodes
          BY <2>4, <4>1, MaxNodesNat
        <4>4. NodesOf[child.mSize] \subseteq NodesOf[size - 1]
          BY <4>2, <4>3, LayersOrdered
        <4> QED BY <4>1, <4>4
      <3> QED BY <3>1, <3>2
    <2>6. node \in NodesOver(below)
      BY <2>5, NodeParts DEF NodesOver
    <2>7. NodesOf[size] = NodesOver(below)
      <3>1. size - 1 \in 0 .. MaxNodes /\ size - 1 # MaxNodes /\ size - 1 + 1 = size
        BY <2>4, MaxNodesNat
      <3>2. NodesOf[size - 1 + 1] = NodesOver(NodesOf[size - 1])
        BY <3>1, LayerNext
      <3> QED BY <3>1, <3>2
    <2> QED BY <2>4, <2>6, <2>7
  <1> HIDE DEF Good
  <1>3. Trees \subseteq Good
    BY <1>1, <1>2, TreeInduction
  <1>4. \A node \in Nodes : node \in Trees /\ node # NULL
    BY NodeParts
  <1> QED BY <1>3, <1>4 DEF Good

(* A node put over two sound trees of other data, which it may outrank.    *)
LEMMA Build ==
    ASSUME NEW rank, NEW d \in Rankables, NEW left \in Trees, NEW right \in Trees,
           Sound(rank, left), Sound(rank, right),
           d \notin Data(left) \cup Data(right),
           Data(left) \cap Data(right) = {},
           left # NULL => ~OutRanks(rank, left.mData, d),
           right # NULL => ~OutRanks(rank, right.mData, d),
           NEW size, size = SizeOf(left) + SizeOf(right) + 1,
           NEW node, node = [mSize |-> size, mData |-> d, mLeft |-> left, mRight |-> right]
    PROVE  /\ node \in Nodes /\ Sound(rank, node)
           /\ Data(node) = {d} \cup Data(left) \cup Data(right)
           /\ node.mData = d /\ node.mSize = size
  <1>1. size \in 1 .. MaxNodes
    <2> DEFINE A == Data(left)
               B == Data(right)
    <2>1. /\ IsFiniteSet(A) /\ IsFiniteSet(B) /\ A \cap B = {} /\ d \notin A \cup B
          /\ A \subseteq Rankables /\ B \subseteq Rankables
      BY DataFinite, DataType
    <2>2. SizeOf(left) = Cardinality(A) /\ SizeOf(right) = Cardinality(B)
      BY SizeIsCardinality
    <2>a. SizeOf(left) \in 0 .. MaxNodes /\ SizeOf(right) \in 0 .. MaxNodes
      BY <2>2, DataFinite
    <2> HIDE DEF A, B
    <2>3. Cardinality({d} \cup A \cup B) = Cardinality(A) + Cardinality(B) + 1
      BY <2>1, OneMore
    <2>4. {d} \cup A \cup B \subseteq Rankables /\ IsFiniteSet(Rankables)
      BY <2>1, HeapAssumption
    <2>5. Cardinality({d} \cup A \cup B) <= MaxNodes
      BY <2>4, FS_Subset DEF MaxNodes
    <2> QED BY <2>2, <2>a, <2>3, <2>5, MaxNodesNat
  <1> DEFINE below == NodesOf[size - 1]
  <1>2. ASSUME NEW child \in {left, right} PROVE child \in below \cup {NULL}
    <2>1. CASE child = NULL
      BY <2>1
    <2>2. CASE child # NULL
      <3>1. child \in Nodes /\ Sound(rank, child)
        BY <2>2 DEF Trees
      <3>2. child.mSize \in 1 .. MaxNodes /\ child \in NodesOf[child.mSize]
        BY <3>1, Shallow
      <3>3. SizeOf(left) \in Nat /\ SizeOf(right) \in Nat
        BY NodeParts DEF SizeOf, Trees
      <3>4. child.mSize = SizeOf(left) \/ child.mSize = SizeOf(right)
        BY <2>2 DEF SizeOf
      <3>5. child.mSize <= size - 1 /\ size - 1 \in 0 .. MaxNodes /\ child.mSize \in 0 .. MaxNodes
        BY <1>1, <3>2, <3>3, <3>4, MaxNodesNat
      <3>6. NodesOf[child.mSize] \subseteq NodesOf[size - 1]
        BY <3>5, LayersOrdered
      <3> QED BY <3>2, <3>6
    <2> QED BY <2>1, <2>2
  <1>3. node \in NodesOver(below)
    BY <1>1, <1>2 DEF NodesOver
  <1>4. node \in Nodes
    <2>1. size - 1 \in 0 .. MaxNodes /\ size - 1 # MaxNodes /\ size - 1 + 1 = size
      BY <1>1, MaxNodesNat
    <2>2. NodesOf[size - 1 + 1] = NodesOver(NodesOf[size - 1])
      BY <2>1, LayerNext
    <2>3. size \in 0 .. MaxNodes /\ size <= MaxNodes /\ MaxNodes \in 0 .. MaxNodes
      BY <1>1, MaxNodesNat
    <2>4. NodesOf[size] \subseteq NodesOf[MaxNodes]
      BY <2>3, LayersOrdered
    <2> QED BY <1>3, <2>1, <2>2, <2>4 DEF Nodes
  <1>5. HeapNode(rank, node)
    BY DEF HeapNode
  <1>6. Sound(rank, node)
    BY <1>4, <1>5, SoundParts
  <1>7. Data(node) = {node.mData} \cup Data(node.mLeft) \cup Data(node.mRight)
    BY <1>4, DataParts
  <1> QED BY <1>4, <1>6, <1>7

LEMMA Single ==
    ASSUME NEW rank, NEW d \in Rankables
    PROVE  /\ Node(d) \in Nodes /\ Sound(rank, Node(d)) /\ Data(Node(d)) = {d}
           /\ Node(d).mData = d
  <1>1. Node(d) = [mSize |-> SizeOf(NULL) + SizeOf(NULL) + 1, mData |-> d,
                   mLeft |-> NULL, mRight |-> NULL]
    BY DEF Node, SizeOf
  <1>2. NULL \in Trees /\ Sound(rank, NULL) /\ Data(NULL) = {}
    BY NothingIn DEF Trees
  <1> QED BY <1>1, <1>2, Build

(* Only the ranks of what is in a tree say whether it is sound.            *)
LEMMA RanksAgree ==
    ASSUME NEW rank, NEW other
    PROVE  \A tree \in Trees :
              Sound(rank, tree) /\ (\A d \in Data(tree) : other[d] = rank[d]) => Sound(other, tree)
  <1> DEFINE Good == {tree \in Trees :
              Sound(rank, tree) /\ (\A d \in Data(tree) : other[d] = rank[d]) => Sound(other, tree)}
  <1>1. NULL \in Good
    BY NothingIn DEF Trees
  <1>2. ASSUME NEW node \in Nodes, node.mLeft \in Good, node.mRight \in Good PROVE node \in Good
    <2>1. node \in Trees /\ node.mLeft \in Trees /\ node.mRight \in Trees
      BY NodeParts
    <2>2. SUFFICES ASSUME Sound(rank, node), \A d \in Data(node) : other[d] = rank[d]
                   PROVE  Sound(other, node)
      BY <2>1
    <2>3. HeapNode(rank, node) /\ Sound(rank, node.mLeft) /\ Sound(rank, node.mRight)
      BY <2>2, SoundParts
    <2>4. Data(node) = {node.mData} \cup Data(node.mLeft) \cup Data(node.mRight)
      BY DataParts
    <2>5. Sound(other, node.mLeft) /\ Sound(other, node.mRight)
      BY <2>2, <2>3, <2>4, <1>2
    <2>6. \A child \in {node.mLeft, node.mRight} \ {NULL} : child.mData \in Data(node)
      BY <2>1, <2>4, RootIn DEF Trees
    <2>7. HeapNode(other, node)
      BY <2>2, <2>3, <2>4, <2>6 DEF HeapNode, OutRanks
    <2> QED BY <2>5, <2>7, SoundParts
  <1> HIDE DEF Good
  <1>3. Trees \subseteq Good
    BY <1>1, <1>2, TreeInduction
  <1> QED BY <1>3 DEF Good

LEMMA SoundNode ==
    ASSUME NEW rank \in [Rankables -> Int], NEW node \in Nodes, Sound(rank, node)
    PROVE  /\ node \in Trees /\ node # NULL
           /\ node.mLeft \in Trees /\ node.mRight \in Trees /\ node.mData \in Rankables
           /\ Sound(rank, node.mLeft) /\ Sound(rank, node.mRight)
           /\ node.mData \notin Data(node.mLeft) \cup Data(node.mRight)
           /\ Data(node.mLeft) \cap Data(node.mRight) = {}
           /\ node.mSize = SizeOf(node.mLeft) + SizeOf(node.mRight) + 1
           /\ node.mLeft # NULL => node.mLeft \in Nodes /\ ~OutRanks(rank, node.mLeft.mData, node.mData)
           /\ node.mRight # NULL => node.mRight \in Nodes /\ ~OutRanks(rank, node.mRight.mData, node.mData)
           /\ Data(node) = {node.mData} \cup Data(node.mLeft) \cup Data(node.mRight)
           /\ SizeOf(node.mLeft) \in Nat /\ SizeOf(node.mRight) \in Nat
  <1>1. /\ node \in Trees /\ node # NULL
        /\ node.mLeft \in Trees /\ node.mRight \in Trees /\ node.mData \in Rankables
    BY NodeParts
  <1>2. HeapNode(rank, node) /\ Sound(rank, node.mLeft) /\ Sound(rank, node.mRight)
    BY SoundParts
  <1>3. Data(node) = {node.mData} \cup Data(node.mLeft) \cup Data(node.mRight)
    BY DataParts
  <1>4. \A tree \in Trees : SizeOf(tree) \in Nat
    BY NodeParts DEF Trees, SizeOf
  <1> QED BY <1>1, <1>2, <1>3, <1>4 DEF HeapNode, Trees

LEMMA FindsData ==
    ASSUME NEW rank \in [Rankables -> Int], NEW data \in Rankables
    PROVE  \A tree \in Trees : Sound(rank, tree) => (Finds(rank, data)[tree] <=> data \in Data(tree))
  <1> DEFINE Good == {tree \in Trees : Sound(rank, tree) =>
                     (Finds(rank, data)[tree] <=> data \in Data(tree))}
  <1>1. NULL \in Good
    BY NothingIn, FindsNothing DEF Trees
  <1>2. ASSUME NEW node \in Nodes, node.mLeft \in Good, node.mRight \in Good PROVE node \in Good
    <2>1. node \in Trees /\ node # NULL
      BY NodeParts
    <2>2. SUFFICES ASSUME Sound(rank, node)
                   PROVE  Finds(rank, data)[node] <=> data \in Data(node)
      BY <2>1
    <2>3. /\ Sound(rank, node.mLeft) /\ Sound(rank, node.mRight)
          /\ Data(node) = {node.mData} \cup Data(node.mLeft) \cup Data(node.mRight)
      BY <2>2, SoundNode
    <2>4. Finds(rank, data)[node] = FindsIn(rank, data, Finds(rank, data), node)
      <3>1. Finds(rank, data) = [tree \in Trees |-> FindsIn(rank, data, Finds(rank, data), tree)]
        BY FindsDef
      <3> DEFINE found == Finds(rank, data)
      <3> HIDE DEF found
      <3>2. found = [tree \in Trees |-> FindsIn(rank, data, found, tree)]
        BY <3>1 DEF found
      <3>3. found[node] = FindsIn(rank, data, found, node)
        BY <2>1, <3>2, Zenon
      <3> QED BY <3>3 DEF found
    <2>5. FindsIn(rank, data, Finds(rank, data), node) <=>
              \/ node.mData = data
              \/ /\ ~OutRanks(rank, data, node.mData)
                 /\ data \in Data(node.mLeft) \cup Data(node.mRight)
      <3>1. /\ Finds(rank, data)[node.mLeft] <=> data \in Data(node.mLeft)
            /\ Finds(rank, data)[node.mRight] <=> data \in Data(node.mRight)
        BY <2>3, <1>2
      <3> QED BY <2>1, <3>1 DEF FindsIn
    <2>6. data \in Data(node) => ~OutRanks(rank, data, node.mData)
      <3>1. data \in Data(node) => rank[node.mData] <= rank[data]
        BY <2>1, <2>2, RootFirst
      <3>2. rank[node.mData] \in Int /\ rank[data] \in Int
        BY NodeParts
      <3> QED BY <3>1, <3>2 DEF OutRanks
    <2> QED BY <2>3, <2>4, <2>5, <2>6
  <1> HIDE DEF Good
  <1>3. Trees \subseteq Good
    BY <1>1, <1>2, TreeInduction
  <1> QED BY <1>3 DEF Good

LEMMA SizeAdds ==
    ASSUME NEW rank, NEW tree \in Trees, NEW other \in Trees, NEW d, d \notin Data(tree),
           Sound(rank, tree), Sound(rank, other), Data(other) = Data(tree) \cup {d}
    PROVE  SizeOf(other) = SizeOf(tree) + 1
  <1>1. IsFiniteSet(Data(tree))
    BY DataFinite
  <1>2. Cardinality(Data(tree) \cup {d}) = Cardinality(Data(tree)) + 1
    BY <1>1, FS_AddElement
  <1> QED BY <1>2, SizeIsCardinality

LEMMA PushesInto ==
    ASSUME NEW rank \in [Rankables -> Int]
    PROVE  \A tree \in Nodes : Sound(rank, tree) =>
             \A data \in Rankables \ Data(tree) :
                LET pushed == NodePush(rank)[tree][data]
                IN  /\ pushed \in Nodes /\ Sound(rank, pushed)
                    /\ Data(pushed) = Data(tree) \cup {data}
                    /\ pushed.mData = IF OutRanks(rank, data, tree.mData) THEN data ELSE tree.mData
  <1> DEFINE P(tree, data, pushed) ==
                /\ pushed \in Nodes /\ Sound(rank, pushed)
                /\ Data(pushed) = Data(tree) \cup {data}
                /\ pushed.mData = IF OutRanks(rank, data, tree.mData) THEN data ELSE tree.mData
             Good == {tree \in Trees : tree # NULL /\ Sound(rank, tree) =>
                     \A data \in Rankables \ Data(tree) : P(tree, data, NodePush(rank)[tree][data])}
  <1>1. NULL \in Good
    BY DEF Trees
  <1>2. ASSUME NEW node \in Nodes, node.mLeft \in Good, node.mRight \in Good PROVE node \in Good
    <2>1. node \in Trees /\ node # NULL
      BY NodeParts
    <2>2. SUFFICES ASSUME Sound(rank, node), NEW data \in Rankables \ Data(node)
                   PROVE  P(node, data, NodePush(rank)[node][data])
      BY <2>1
    <2> DEFINE first == OutRanks(rank, data, node.mData)
               low == IF first THEN node.mData ELSE data
               high == IF first THEN data ELSE node.mData
               left == node.mLeft
               right == node.mRight
               size == node.mSize + 1
               pushed == NodePush(rank)[node][data]
               onto(tree) == IF tree = NULL THEN Node(low) ELSE NodePush(rank)[tree][low]
    <2>3. /\ left \in Trees /\ right \in Trees /\ node.mData \in Rankables
          /\ Sound(rank, left) /\ Sound(rank, right)
          /\ node.mData \notin Data(left) \cup Data(right)
          /\ Data(left) \cap Data(right) = {}
          /\ node.mSize = SizeOf(left) + SizeOf(right) + 1
          /\ left # NULL => left \in Nodes /\ ~OutRanks(rank, left.mData, node.mData)
          /\ right # NULL => right \in Nodes /\ ~OutRanks(rank, right.mData, node.mData)
          /\ Data(node) = {node.mData} \cup Data(left) \cup Data(right)
          /\ SizeOf(left) \in Nat /\ SizeOf(right) \in Nat
      BY <2>2, SoundNode
    <2>4. /\ low \in Rankables /\ high \in Rankables /\ low # high
          /\ {low, high} = {node.mData, data}
          /\ low \notin Data(left) \cup Data(right) /\ high \notin Data(left) \cup Data(right)
      BY <2>3
    <2>5. /\ ~OutRanks(rank, low, high)
          /\ \A d \in Rankables : ~OutRanks(rank, d, node.mData) => ~OutRanks(rank, d, high)
      <3>1. \A d \in Rankables : rank[d] \in Int
        OBVIOUS
      <3> QED BY <2>3, <3>1 DEF OutRanks
    <2>6. pushed = IF left = NULL \/ (right # NULL /\ left.mSize <= right.mSize)
                   THEN [mSize |-> size, mData |-> high, mLeft |-> onto(left), mRight |-> right]
                   ELSE [mSize |-> size, mData |-> high, mLeft |-> left, mRight |-> onto(right)]
      <3>1. NodePush(rank)[node] = PushedOnto(rank, NodePush(rank), node)
        BY NodePushDef, Zenon
      <3>2. node = [mSize |-> node.mSize, mData |-> node.mData,
                    mLeft |-> node.mLeft, mRight |-> node.mRight]
        BY NodeParts
      <3> QED BY <3>1, <3>2 DEF PushedOnto
    <2>7. ASSUME NEW tree \in {left, right}
          PROVE  /\ onto(tree) \in Nodes /\ Sound(rank, onto(tree))
                 /\ Data(onto(tree)) = Data(tree) \cup {low}
                 /\ ~OutRanks(rank, onto(tree).mData, high)
                 /\ SizeOf(onto(tree)) = SizeOf(tree) + 1
      <3> HIDE DEF low, high
      <3>0. tree \in Trees /\ low \notin Data(tree) /\ Sound(rank, tree)
        BY <2>3, <2>4
      <3>1. CASE tree = NULL
        <4>2. Data(tree) = {}
          BY <3>1, NothingIn
        <4>3. /\ Node(low) \in Nodes /\ Sound(rank, Node(low)) /\ Data(Node(low)) = {low}
              /\ Node(low).mData = low
          BY <2>4, Single
        <4>4. onto(tree) = Node(low)
          BY <3>1
        <4>5. /\ onto(tree) \in Nodes /\ Sound(rank, onto(tree))
              /\ Data(onto(tree)) = Data(tree) \cup {low} /\ onto(tree).mData = low
          BY <3>1, <4>2, <4>3, <4>4
        <4> HIDE DEF onto
        <4> QED BY <3>0, <4>5, <2>5, SizeAdds DEF Trees
      <3>2. CASE tree # NULL
        <4>1. P(tree, low, NodePush(rank)[tree][low])
          BY <3>0, <3>2, <2>4, <1>2
        <4>2. onto(tree) = NodePush(rank)[tree][low]
          BY <3>2
        <4>3. /\ onto(tree) \in Nodes /\ Sound(rank, onto(tree))
              /\ Data(onto(tree)) = Data(tree) \cup {low}
              /\ onto(tree).mData = low \/ onto(tree).mData = tree.mData
          BY <4>1, <4>2
        <4>4. tree.mData \in Rankables /\ ~OutRanks(rank, tree.mData, node.mData)
          BY <3>2, <2>3, NodeParts
        <4> HIDE DEF onto
        <4> QED BY <3>0, <4>3, <4>4, <2>5, SizeAdds DEF Trees
      <3> QED BY <3>1, <3>2
    <2>8. /\ left # NULL => ~OutRanks(rank, left.mData, high)
          /\ right # NULL => ~OutRanks(rank, right.mData, high)
      BY <2>3, <2>5, NodeParts
    <2> HIDE DEF low, high, left, right, size, pushed, onto, first
    <2>9. CASE pushed = [mSize |-> size, mData |-> high, mLeft |-> onto(left), mRight |-> right]
      <3>1. size = SizeOf(onto(left)) + SizeOf(right) + 1
        BY <2>3, <2>7 DEF size
      <3>2. onto(left) \in Trees /\ onto(left) # NULL
        BY <2>7, NodeParts
      <3>3. /\ Data(onto(left)) \cap Data(right) = {}
            /\ high \notin Data(onto(left)) \cup Data(right)
        BY <2>3, <2>4, <2>7
      <3>4. /\ pushed \in Nodes /\ Sound(rank, pushed) /\ pushed.mData = high
            /\ Data(pushed) = {high} \cup Data(onto(left)) \cup Data(right)
        BY <3>1, <3>2, <3>3, <2>3, <2>4, <2>7, <2>8, <2>9, Build
      <3>5. Data(pushed) = Data(node) \cup {data}
        BY <3>4, <2>3, <2>4, <2>7
      <3> QED BY <3>4, <3>5 DEF pushed, high, first
    <2>10. CASE pushed = [mSize |-> size, mData |-> high, mLeft |-> left, mRight |-> onto(right)]
      <3>1. size = SizeOf(left) + SizeOf(onto(right)) + 1
        BY <2>3, <2>7 DEF size
      <3>2. onto(right) \in Trees /\ onto(right) # NULL
        BY <2>7, NodeParts
      <3>3. /\ Data(left) \cap Data(onto(right)) = {}
            /\ high \notin Data(left) \cup Data(onto(right))
        BY <2>3, <2>4, <2>7
      <3>4. /\ pushed \in Nodes /\ Sound(rank, pushed) /\ pushed.mData = high
            /\ Data(pushed) = {high} \cup Data(left) \cup Data(onto(right))
        BY <3>1, <3>2, <3>3, <2>3, <2>4, <2>7, <2>8, <2>10, Build
      <3>5. Data(pushed) = Data(node) \cup {data}
        BY <3>4, <2>3, <2>4, <2>7
      <3> QED BY <3>4, <3>5 DEF pushed, high, first
    <2> QED BY <2>6, <2>9, <2>10
  <1> HIDE DEF Good
  <1>3. Trees \subseteq Good
    BY <1>1, <1>2, TreeInduction
  <1>4. \A node \in Nodes : node \in Trees /\ node # NULL
    BY NodeParts
  <1> QED BY <1>3, <1>4 DEF Good

LEMMA SizeDrops ==
    ASSUME NEW rank, NEW tree \in Trees, NEW other \in Trees, NEW d \in Data(tree),
           Sound(rank, tree), Sound(rank, other), Data(other) = Data(tree) \ {d}
    PROVE  SizeOf(other) = SizeOf(tree) - 1
  <1>1. d \notin Data(other) /\ Data(tree) = Data(other) \cup {d}
    OBVIOUS
  <1>2. SizeOf(tree) = SizeOf(other) + 1
    BY <1>1, SizeAdds
  <1>3. SizeOf(other) \in Int
    BY NodeParts DEF SizeOf, Trees
  <1> QED BY <1>2, <1>3

(* A node whose subtree loses what it had: it keeps its data or takes that. *)
LEMMA PopsFrom ==
    ASSUME NEW rank \in [Rankables -> Int]
    PROVE  \A tree \in Nodes : Sound(rank, tree) =>
              LET after == NodePop(rank)[tree]
              IN  /\ after \in Trees /\ Sound(rank, after)
                  /\ Data(after) = Data(tree) \ {tree.mData}
  <1> DEFINE P(tree, after) == /\ after \in Trees /\ Sound(rank, after)
                                /\ Data(after) = Data(tree) \ {tree.mData}
             Good == {tree \in Trees : tree # NULL /\ Sound(rank, tree) => P(tree, NodePop(rank)[tree])}
  <1>1. NULL \in Good
    BY DEF Trees
  <1>2. ASSUME NEW node \in Nodes, node.mLeft \in Good, node.mRight \in Good PROVE node \in Good
    <2>1. node \in Trees /\ node # NULL
      BY NodeParts
    <2>2. SUFFICES ASSUME Sound(rank, node) PROVE P(node, NodePop(rank)[node])
      BY <2>1
    <2> DEFINE left == node.mLeft
               right == node.mRight
               size == node.mSize - 1
               after == NodePop(rank)[node]
    <2>3. /\ left \in Trees /\ right \in Trees /\ node.mData \in Rankables
          /\ Sound(rank, left) /\ Sound(rank, right)
          /\ node.mData \notin Data(left) \cup Data(right)
          /\ Data(left) \cap Data(right) = {}
          /\ node.mSize = SizeOf(left) + SizeOf(right) + 1
          /\ left # NULL => left \in Nodes /\ ~OutRanks(rank, left.mData, node.mData)
          /\ right # NULL => right \in Nodes /\ ~OutRanks(rank, right.mData, node.mData)
          /\ Data(node) = {node.mData} \cup Data(left) \cup Data(right)
          /\ SizeOf(left) \in Nat /\ SizeOf(right) \in Nat
      BY <2>2, SoundNode
    <2>4. after = IF left = NULL /\ right = NULL THEN NULL
                   ELSE IF UpperIsLeft(rank, node)
                        THEN [mSize |-> size, mData |-> left.mData, mLeft |-> NodePop(rank)[left], mRight |-> right]
                        ELSE [mSize |-> size, mData |-> right.mData, mLeft |-> left, mRight |-> NodePop(rank)[right]]
      <3>1. NodePop(rank)[node] = PoppedFrom(rank, NodePop(rank), node)
        BY NodePopDef, Zenon
      <3>2. node = [mSize |-> node.mSize, mData |-> node.mData,
                    mLeft |-> node.mLeft, mRight |-> node.mRight]
        BY NodeParts
      <3> QED BY <3>1, <3>2 DEF PoppedFrom
    <2>5. ASSUME NEW tree \in {left, right}, tree # NULL
          PROVE  /\ P(tree, NodePop(rank)[tree])
                 /\ tree.mData \in Rankables /\ tree.mData \in Data(tree)
                 /\ SizeOf(NodePop(rank)[tree]) = SizeOf(tree) - 1
                 /\ \A rest \in Trees : rest # NULL /\ Data(rest) \subseteq Data(tree) =>
                       ~OutRanks(rank, rest.mData, tree.mData)
      <3>1. tree \in Nodes /\ tree \in Trees /\ Sound(rank, tree)
        BY <2>3, <2>5
      <3>2. P(tree, NodePop(rank)[tree])
        BY <3>1, <2>5, <1>2
      <3>3. tree.mData \in Rankables /\ tree.mData \in Data(tree)
        BY <3>1, NodeParts, RootIn
      <3>4. SizeOf(NodePop(rank)[tree]) = SizeOf(tree) - 1
        BY <3>1, <3>2, <3>3, SizeDrops
      <3>5. ASSUME NEW rest \in Trees, rest # NULL, Data(rest) \subseteq Data(tree)
            PROVE  ~OutRanks(rank, rest.mData, tree.mData)
        <4>1. rest.mData \in Rankables /\ rest.mData \in Data(tree)
          BY <3>5, NodeParts, RootIn DEF Trees
        <4>2. rank[tree.mData] <= rank[rest.mData]
          BY <4>1, <3>1, RootFirst
        <4> QED BY <4>1, <4>2, <3>3 DEF OutRanks
      <3> QED BY <3>2, <3>3, <3>4, <3>5
    <2>6. /\ UpperIsLeft(rank, node) => left # NULL
          /\ UpperIsLeft(rank, node) /\ right # NULL => ~OutRanks(rank, right.mData, left.mData)
          /\ ~UpperIsLeft(rank, node) /\ ~(left = NULL /\ right = NULL) => right # NULL
          /\ ~UpperIsLeft(rank, node) /\ left # NULL => ~OutRanks(rank, left.mData, right.mData)
      <3>1. left # NULL /\ right # NULL => rank[left.mData] \in Int /\ rank[right.mData] \in Int
        BY <2>5
      <3> QED BY <3>1 DEF UpperIsLeft, OutRanks
    <2> HIDE DEF left, right, size, after
    <2>7. CASE left = NULL /\ right = NULL
      <3>1. after = NULL /\ Data(node) = {node.mData}
        BY <2>3, <2>4, <2>7, NothingIn
      <3> QED BY <3>1, NothingIn DEF after, Trees
    <2>8. CASE ~(left = NULL /\ right = NULL) /\ UpperIsLeft(rank, node)
      <3> DEFINE rest == NodePop(rank)[left]
      <3>1. left # NULL /\ (right # NULL => ~OutRanks(rank, right.mData, left.mData))
        BY <2>6, <2>8
      <3>2. /\ P(left, rest) /\ left.mData \in Rankables /\ left.mData \in Data(left)
            /\ SizeOf(rest) = SizeOf(left) - 1
            /\ \A t \in Trees : t # NULL /\ Data(t) \subseteq Data(left) =>
                  ~OutRanks(rank, t.mData, left.mData)
        BY <2>5, <3>1
      <3>3. after = [mSize |-> size, mData |-> left.mData, mLeft |-> rest, mRight |-> right]
        BY <2>4, <2>8
      <3> HIDE DEF rest
      <3>4. size = SizeOf(rest) + SizeOf(right) + 1
        BY <2>3, <3>2 DEF size
      <3>5. rest # NULL => ~OutRanks(rank, rest.mData, left.mData)
        BY <3>2
      <3>6. left.mData \notin Data(rest) \cup Data(right) /\ Data(rest) \cap Data(right) = {}
        BY <2>3, <3>2
      <3>7. /\ after \in Nodes /\ Sound(rank, after)
            /\ Data(after) = {left.mData} \cup Data(rest) \cup Data(right)
        BY <2>3, <3>1, <3>2, <3>3, <3>4, <3>5, <3>6, Build
      <3>8. Data(after) = Data(node) \ {node.mData}
        BY <3>7, <3>2, <2>3
      <3> QED BY <3>7, <3>8 DEF after, Trees
    <2>9. CASE ~(left = NULL /\ right = NULL) /\ ~UpperIsLeft(rank, node)
      <3> DEFINE rest == NodePop(rank)[right]
      <3>1. right # NULL /\ (left # NULL => ~OutRanks(rank, left.mData, right.mData))
        BY <2>6, <2>9
      <3>2. /\ P(right, rest) /\ right.mData \in Rankables /\ right.mData \in Data(right)
            /\ SizeOf(rest) = SizeOf(right) - 1
            /\ \A t \in Trees : t # NULL /\ Data(t) \subseteq Data(right) =>
                  ~OutRanks(rank, t.mData, right.mData)
        BY <2>5, <3>1
      <3>3. after = [mSize |-> size, mData |-> right.mData, mLeft |-> left, mRight |-> rest]
        BY <2>4, <2>9
      <3> HIDE DEF rest
      <3>4. size = SizeOf(left) + SizeOf(rest) + 1
        BY <2>3, <3>2 DEF size
      <3>5. rest # NULL => ~OutRanks(rank, rest.mData, right.mData)
        BY <3>2
      <3>6. right.mData \notin Data(left) \cup Data(rest) /\ Data(left) \cap Data(rest) = {}
        BY <2>3, <3>2
      <3>7. /\ after \in Nodes /\ Sound(rank, after)
            /\ Data(after) = {right.mData} \cup Data(left) \cup Data(rest)
        BY <2>3, <3>1, <3>2, <3>3, <3>4, <3>5, <3>6, Build
      <3>8. Data(after) = Data(node) \ {node.mData}
        BY <3>7, <3>2, <2>3
      <3> QED BY <3>7, <3>8 DEF after, Trees
    <2> QED BY <2>7, <2>8, <2>9 DEF after
  <1> HIDE DEF Good
  <1>3. Trees \subseteq Good
    BY <1>1, <1>2, TreeInduction
  <1>4. \A node \in Nodes : node \in Trees /\ node # NULL
    BY NodeParts
  <1> QED BY <1>3, <1>4 DEF Good

LEMMA RemoveStep ==
    ASSUME NEW rank \in [Rankables -> Int], NEW data \in Rankables, NEW tree \in Trees,
           Sound(rank, tree)
    PROVE  /\ data \notin Data(tree) => NodeRemove(rank, data)[tree] = tree
           /\ data \in Data(tree) /\ tree.mData = data =>
                 NodeRemove(rank, data)[tree] = NodePop(rank)[tree]
           /\ data \in Data(tree) /\ tree.mData # data /\ data \in Data(tree.mLeft) =>
                 NodeRemove(rank, data)[tree] = [mSize |-> tree.mSize - 1, mData |-> tree.mData,
                                 mLeft |-> NodeRemove(rank, data)[tree.mLeft], mRight |-> tree.mRight]
           /\ data \in Data(tree) /\ tree.mData # data /\ data \notin Data(tree.mLeft) =>
                 NodeRemove(rank, data)[tree] = [mSize |-> tree.mSize - 1, mData |-> tree.mData,
                                 mLeft |-> tree.mLeft, mRight |-> NodeRemove(rank, data)[tree.mRight]]
  <1> DEFINE removed == NodeRemove(rank, data)
             found == Finds(rank, data)
  <1>1. removed = [t \in Trees |-> RemovedFrom(rank, data, removed, t)]
    BY NodeRemoveDef
  <1>2. found[tree] <=> data \in Data(tree)
    BY FindsData
  <1>3. data \in Data(tree) => (found[tree.mLeft] <=> data \in Data(tree.mLeft))
    <2>1. data \in Data(tree) => tree \in Nodes
      BY NothingIn DEF Trees
    <2> QED BY <2>1, SoundNode, FindsData
  <1>4. RemovedFrom(rank, data, removed, tree) =
          IF ~found[tree] THEN tree
          ELSE IF tree.mData = data THEN NodePop(rank)[tree]
          ELSE IF found[tree.mLeft]
               THEN [tree EXCEPT !.mSize = @ - 1, !.mLeft = removed[tree.mLeft]]
               ELSE [tree EXCEPT !.mSize = @ - 1, !.mRight = removed[tree.mRight]]
    BY DEF RemovedFrom
  <1> HIDE DEF removed, found
  <1>5. removed[tree] = RemovedFrom(rank, data, removed, tree)
    BY <1>1, Zenon
  <1>6. /\ data \notin Data(tree) => removed[tree] = tree
        /\ data \in Data(tree) /\ tree.mData = data =>
              removed[tree] = NodePop(rank)[tree]
        /\ data \in Data(tree) /\ tree.mData # data /\ data \in Data(tree.mLeft) =>
              removed[tree] = [mSize |-> tree.mSize - 1, mData |-> tree.mData,
                              mLeft |-> removed[tree.mLeft], mRight |-> tree.mRight]
        /\ data \in Data(tree) /\ tree.mData # data /\ data \notin Data(tree.mLeft) =>
              removed[tree] = [mSize |-> tree.mSize - 1, mData |-> tree.mData,
                              mLeft |-> tree.mLeft, mRight |-> removed[tree.mRight]]
    <2>1. data \in Data(tree) =>
             tree = [mSize |-> tree.mSize, mData |-> tree.mData,
                     mLeft |-> tree.mLeft, mRight |-> tree.mRight]
      BY NothingIn, NodeParts DEF Trees
    <2> QED BY <1>2, <1>3, <1>4, <1>5, <2>1
  <1> QED BY <1>6 DEF removed

LEMMA RemovesFrom ==
    ASSUME NEW rank \in [Rankables -> Int], NEW data \in Rankables
    PROVE  \A tree \in Trees : Sound(rank, tree) =>
              LET removed == NodeRemove(rank, data)[tree]
              IN  /\ removed \in Trees /\ Sound(rank, removed)
                  /\ Data(removed) = Data(tree) \ {data}
                  /\ tree # NULL /\ tree.mData # data =>
                        removed # NULL /\ removed.mData = tree.mData
  <1> DEFINE P(tree, removed) == /\ removed \in Trees /\ Sound(rank, removed)
                                 /\ Data(removed) = Data(tree) \ {data}
                                 /\ tree # NULL /\ tree.mData # data =>
                                       removed # NULL /\ removed.mData = tree.mData
             Good == {tree \in Trees : Sound(rank, tree) => P(tree, NodeRemove(rank, data)[tree])}
  <1>2. NULL \in Good
    BY RemoveStep, NothingIn DEF Trees
  <1>3. ASSUME NEW node \in Nodes, node.mLeft \in Good, node.mRight \in Good PROVE node \in Good
    <2>1. node \in Trees /\ node # NULL
      BY NodeParts
    <2>2. SUFFICES ASSUME Sound(rank, node) PROVE P(node, NodeRemove(rank, data)[node])
      BY <2>1
    <2> DEFINE left == node.mLeft
               right == node.mRight
               size == node.mSize - 1
               removed == NodeRemove(rank, data)[node]
    <2>3. /\ left \in Trees /\ right \in Trees /\ node.mData \in Rankables
          /\ Sound(rank, left) /\ Sound(rank, right)
          /\ node.mData \notin Data(left) \cup Data(right)
          /\ Data(left) \cap Data(right) = {}
          /\ node.mSize = SizeOf(left) + SizeOf(right) + 1
          /\ left # NULL => left \in Nodes /\ ~OutRanks(rank, left.mData, node.mData)
          /\ right # NULL => right \in Nodes /\ ~OutRanks(rank, right.mData, node.mData)
          /\ Data(node) = {node.mData} \cup Data(left) \cup Data(right)
          /\ SizeOf(left) \in Nat /\ SizeOf(right) \in Nat
      BY <2>2, SoundNode
    <2>4. CASE data \notin Data(node)
      <3>2. removed = node
        BY <2>1, <2>2, <2>4, RemoveStep
      <3> QED BY <2>1, <2>2, <2>4, <3>2
    <2>5. CASE data \in Data(node) /\ node.mData = data
      <3>2. removed = NodePop(rank)[node]
        BY <2>1, <2>2, <2>5, RemoveStep
      <3> QED BY <2>2, <2>5, <3>2, PopsFrom
    <2>6. CASE data \in Data(node) /\ node.mData # data
      <3>3. removed = IF data \in Data(left)
                      THEN [mSize |-> size, mData |-> node.mData,
                            mLeft |-> NodeRemove(rank, data)[left], mRight |-> right]
                      ELSE [mSize |-> size, mData |-> node.mData,
                            mLeft |-> left, mRight |-> NodeRemove(rank, data)[right]]
        BY <2>1, <2>2, <2>6, RemoveStep
      <3>4. ASSUME NEW tree \in {left, right}, data \in Data(tree),
                   NEW rest, rest = NodeRemove(rank, data)[tree]
            PROVE  /\ rest \in Trees /\ Sound(rank, rest) /\ Data(rest) = Data(tree) \ {data}
                   /\ SizeOf(rest) = SizeOf(tree) - 1
                   /\ rest # NULL => ~OutRanks(rank, rest.mData, node.mData)
        <4>1. tree \in Nodes /\ tree \in Trees /\ Sound(rank, tree)
          BY <2>3, <3>4, NothingIn
        <4>2. P(tree, rest)
          BY <4>1, <3>4, <1>3
        <4>3. SizeOf(rest) = SizeOf(tree) - 1
          BY <4>1, <4>2, <3>4, SizeDrops
        <4>4. ASSUME rest # NULL PROVE ~OutRanks(rank, rest.mData, node.mData)
          <5>1. rest.mData \in Data(tree) /\ rest.mData \in Rankables
            BY <4>2, <4>4, RootIn, NodeParts DEF Trees
          <5>2. rest.mData \in Data(node)
            BY <5>1, <2>3
          <5>3. rank[node.mData] <= rank[rest.mData]
            BY <5>2, <2>1, <2>2, RootFirst
          <5> QED BY <5>1, <5>3, <2>3 DEF OutRanks
        <4> QED BY <4>2, <4>3, <4>4
      <3>5. CASE data \in Data(left)
        <4> DEFINE rest == NodeRemove(rank, data)[left]
        <4>1. removed = [mSize |-> size, mData |-> node.mData, mLeft |-> rest, mRight |-> right]
          BY <3>3, <3>5
        <4>2. /\ rest \in Trees /\ Sound(rank, rest) /\ Data(rest) = Data(left) \ {data}
              /\ SizeOf(rest) = SizeOf(left) - 1
              /\ rest # NULL => ~OutRanks(rank, rest.mData, node.mData)
          BY <3>4, <3>5
        <4> HIDE DEF rest, left, right, removed
        <4>3. size = SizeOf(rest) + SizeOf(right) + 1
          BY <2>3, <4>2
        <4>4. /\ node.mData \notin Data(rest) \cup Data(right)
              /\ Data(rest) \cap Data(right) = {}
          BY <2>3, <4>2
        <4>a. /\ right \in Trees /\ Sound(rank, right) /\ node.mData \in Rankables
              /\ right # NULL => ~OutRanks(rank, right.mData, node.mData)
          BY <2>3
        <4> HIDE DEF size
        <4>5. /\ removed \in Nodes /\ Sound(rank, removed) /\ removed.mData = node.mData
              /\ Data(removed) = {node.mData} \cup Data(rest) \cup Data(right)
          BY <4>1, <4>2, <4>3, <4>4, <4>a, Build
        <4>6. Data(removed) = Data(node) \ {data}
          BY <4>5, <4>2, <2>3, <2>6, <3>5
        <4> QED BY <4>5, <4>6, NodeParts DEF removed
      <3>6. CASE data \notin Data(left)
        <4> DEFINE rest == NodeRemove(rank, data)[right]
        <4>0. data \in Data(right)
          BY <2>3, <2>6, <3>6
        <4>1. removed = [mSize |-> size, mData |-> node.mData, mLeft |-> left, mRight |-> rest]
          BY <3>3, <3>6
        <4>2. /\ rest \in Trees /\ Sound(rank, rest) /\ Data(rest) = Data(right) \ {data}
              /\ SizeOf(rest) = SizeOf(right) - 1
              /\ rest # NULL => ~OutRanks(rank, rest.mData, node.mData)
          BY <3>4, <4>0
        <4> HIDE DEF rest, left, right, removed
        <4>3. size = SizeOf(left) + SizeOf(rest) + 1
          BY <2>3, <4>2
        <4>4. /\ node.mData \notin Data(left) \cup Data(rest)
              /\ Data(left) \cap Data(rest) = {}
          BY <2>3, <4>2
        <4>a. /\ left \in Trees /\ Sound(rank, left) /\ node.mData \in Rankables
              /\ left # NULL => ~OutRanks(rank, left.mData, node.mData)
          BY <2>3
        <4> HIDE DEF size
        <4>5. /\ removed \in Nodes /\ Sound(rank, removed) /\ removed.mData = node.mData
              /\ Data(removed) = {node.mData} \cup Data(left) \cup Data(rest)
          BY <4>1, <4>2, <4>3, <4>4, <4>a, Build
        <4>6. Data(removed) = Data(node) \ {data}
          BY <4>5, <4>2, <2>3, <2>6, <3>6
        <4> QED BY <4>5, <4>6, NodeParts DEF removed
      <3> QED BY <3>5, <3>6
    <2> QED BY <2>4, <2>5, <2>6
  <1> HIDE DEF Good
  <1>4. Trees \subseteq Good
    BY <1>2, <1>3, TreeInduction
  <1> QED BY <1>4 DEF Good

(* A sound tree passes the check that the code has for its tests.          *)
LEMMA SoundPasses ==
    ASSUME NEW rank, NEW tree \in Trees, Sound(rank, tree)
    PROVE  checkTree(rank, tree)
  BY DEF Sound, HeapNode, checkTree

(* The heap as its user sees it: the data in it, and the first of them     *)
(* A heap in order stays one, and gains the data that is pushed, which it   *)
(* had not: at the root if it was empty or its root is outranked           *)
(* (LocHeap::push()).                                                      *)
THEOREM HeapPush ==
    ASSUME NEW rank \in [Rankables -> Int], NEW tree \in Trees, Sound(rank, tree),
           NEW data \in Rankables \ Data(tree), NEW pushed, pushed = push(rank, tree, data)
    PROVE  /\ pushed \in Trees /\ Sound(rank, pushed)
           /\ Data(pushed) = Data(tree) \cup {data}
           /\ peek(pushed) = IF peek(tree) = NULL \/ OutRanks(rank, data, peek(tree))
                             THEN data ELSE peek(tree)
  <1>1. CASE tree = NULL
    <2>1. pushed = Node(data) /\ Data(tree) = {}
      BY <1>1, NothingIn DEF push
    <2>2. /\ pushed \in Nodes /\ Sound(rank, pushed) /\ Data(pushed) = {data}
          /\ pushed.mData = data
      BY <2>1, Single
    <2> QED BY <1>1, <2>1, <2>2, NodeParts DEF peek
  <1>2. CASE tree # NULL
    <2>1. tree \in Nodes /\ pushed = NodePush(rank)[tree][data]
      BY <1>2 DEF push, Trees
    <2>2. /\ pushed \in Nodes /\ Sound(rank, pushed)
          /\ Data(pushed) = Data(tree) \cup {data}
          /\ pushed.mData = IF OutRanks(rank, data, tree.mData) THEN data ELSE tree.mData
      BY <2>1, PushesInto
    <2>3. tree.mData # NULL
      BY <2>1, NodeParts, HeapAssumption
    <2> QED BY <1>2, <2>2, <2>3, NodeParts DEF peek
  <1> QED BY <1>1, <1>2

(* A heap in order stays one and loses what is at its root, and nothing     *)
(* else (LocHeap::pop()).                                                  *)
THEOREM HeapPop ==
    ASSUME NEW rank \in [Rankables -> Int], NEW tree \in Trees, Sound(rank, tree),
           NEW after, after = pop(rank, tree)
    PROVE  after \in Trees /\ Sound(rank, after) /\ Data(after) = Data(tree) \ {peek(tree)}
  <1>1. CASE tree = NULL
    BY <1>1, NothingIn DEF pop, peek, Trees
  <1>2. CASE tree # NULL
    <2>1. tree \in Nodes /\ after = NodePop(rank)[tree]
      BY <1>2 DEF pop, Trees
    <2> QED BY <1>2, <2>1, PopsFrom DEF peek
  <1> QED BY <1>1, <1>2

(* The search that leaves out whole subtrees misses nothing: a heap in     *)
(* order stays one and loses the data that is removed, if it has it, and   *)
(* the root stays if it is other data (LocHeap::remove()).                 *)
THEOREM HeapRemove ==
    ASSUME NEW rank \in [Rankables -> Int], NEW tree \in Trees, Sound(rank, tree),
           NEW data \in Rankables, NEW removed, removed = remove(rank, tree, data)
    PROVE  /\ removed \in Trees /\ Sound(rank, removed) /\ Data(removed) = Data(tree) \ {data}
           /\ peek(tree) # data => peek(removed) = peek(tree)
  <1>1. /\ removed \in Trees /\ Sound(rank, removed)
        /\ Data(removed) = Data(tree) \ {data}
        /\ tree # NULL /\ tree.mData # data =>
              removed # NULL /\ removed.mData = tree.mData
    BY RemovesFrom DEF remove
  <1>2. tree = NULL => removed = NULL
    <2>1. tree = NULL => data \notin Data(tree)
      BY NothingIn
    <2> QED BY <2>1, RemoveStep DEF remove
  <1> QED BY <1>1, <1>2 DEF peek

(* The root has what no other data in the heap outranks (LocHeap::peek()). *)
THEOREM HeapPeek ==
    ASSUME NEW rank \in [Rankables -> Int], NEW tree \in Trees, Sound(rank, tree)
    PROVE  /\ tree = NULL => Data(tree) = {} /\ peek(tree) = NULL
           /\ tree # NULL => peek(tree) \in Data(tree) /\ peek(tree) \in Rankables /\ peek(tree) # NULL
           /\ \A d \in Data(tree) : d \in Rankables /\ rank[peek(tree)] <= rank[d]
  <1>1. tree # NULL => tree \in Nodes
    BY DEF Trees
  <1>2. \A d \in Data(tree) : d \in Rankables /\ tree # NULL
    BY DataType, NothingIn
  <1> QED BY <1>1, <1>2, RootFirst, RootIn, NodeParts, NothingIn, HeapAssumption DEF peek

-----------------------------------------------------------------------------
(* The queue of the timers, as far as delegates are concerned              *)

Messages == {MsgTimerExpire} \cup {MsgTimerPush(d) : d \in Delegates} \cup {MsgTimerRemove(d) : d \in Delegates}

In(queue, m) == \E i \in 1 .. Len(queue) : queue[i] = m

(* Of the messages about a delegate its removal is the last, and it has    *)
(* been pushed once.                                                       *)
Orderly(queue) ==
    /\ \A d \in Delegates : \A i, j \in 1 .. Len(queue) :
          queue[i] = MsgTimerRemove(d) /\ queue[j] \in {MsgTimerPush(d), MsgTimerRemove(d)} => j <= i
    /\ \A d \in Delegates : \A i, j \in 1 .. Len(queue) :
          queue[i] = MsgTimerPush(d) /\ queue[j] = MsgTimerPush(d) => j <= i

LEMMA MessagesDiffer ==
    /\ MsgTimerExpire \in Messages
    /\ \A d \in Delegates : /\ MsgTimerPush(d) \in Messages /\ MsgTimerRemove(d) \in Messages
                            /\ d # NULL
                            /\ MsgTimerPush(d).type = "push" /\ MsgTimerRemove(d).type = "remove"
                            /\ MsgTimerPush(d).timer = d /\ MsgTimerRemove(d).timer = d
    /\ MsgTimerExpire.type = "expire" /\ MsgTimerExpire.timer = NULL
  BY HeapAssumption DEF Messages, MsgTimerPush, MsgTimerRemove, MsgTimerExpire, Delegates

LEMMA MessageKinds ==
    ASSUME NEW m \in Messages
    PROVE  /\ m.type = "push" => m.timer \in Delegates /\ m = MsgTimerPush(m.timer)
           /\ m.type = "remove" => m.timer \in Delegates /\ m = MsgTimerRemove(m.timer)
           /\ m.type = "expire" => m = MsgTimerExpire
           /\ m.timer \in Delegates => m \in {MsgTimerPush(m.timer), MsgTimerRemove(m.timer)}
           /\ m.type \in {"push", "remove", "expire"}
  BY MessagesDiffer DEF Messages

LEMMA Appended ==
    ASSUME NEW queue \in Seq(Messages), NEW m \in Messages, NEW longer, longer = Append(queue, m)
    PROVE  longer \in Seq(Messages) /\ \A x : In(longer, x) <=> In(queue, x) \/ x = m
  <1>1. /\ longer \in Seq(Messages) /\ Len(longer) = Len(queue) + 1 /\ Len(queue) \in Nat
        /\ \A i \in 1 .. Len(queue) : longer[i] = queue[i]
        /\ longer[Len(queue) + 1] = m
    OBVIOUS
  <1> QED BY <1>1 DEF In

LEMMA AppendedOrderly ==
    ASSUME NEW queue \in Seq(Messages), NEW m \in Messages, NEW longer, longer = Append(queue, m),
           Orderly(queue),
           \A d \in Delegates : m \in {MsgTimerPush(d), MsgTimerRemove(d)} => ~In(queue, MsgTimerRemove(d)),
           \A d \in Delegates : m = MsgTimerPush(d) => ~In(queue, MsgTimerPush(d))
    PROVE  Orderly(longer)
  <1>1. /\ longer \in Seq(Messages) /\ Len(longer) = Len(queue) + 1 /\ Len(queue) \in Nat
        /\ \A i \in 1 .. Len(queue) : longer[i] = queue[i]
        /\ longer[Len(queue) + 1] = m
    OBVIOUS
  <1>2. ASSUME NEW d \in Delegates, NEW i \in 1 .. Len(longer), NEW j \in 1 .. Len(longer),
               longer[i] = MsgTimerRemove(d), longer[j] \in {MsgTimerPush(d), MsgTimerRemove(d)}
        PROVE  j <= i
    <2>1. CASE i \in 1 .. Len(queue) /\ j \in 1 .. Len(queue)
      BY <1>1, <1>2, <2>1 DEF Orderly
    <2>2. CASE i = Len(queue) + 1
      BY <1>1, <2>2
    <2>3. CASE i \in 1 .. Len(queue) /\ j = Len(queue) + 1
      BY <1>1, <1>2, <2>3 DEF In
    <2> QED BY <1>1, <2>1, <2>2, <2>3
  <1>3. ASSUME NEW d \in Delegates, NEW i \in 1 .. Len(longer), NEW j \in 1 .. Len(longer),
               longer[i] = MsgTimerPush(d), longer[j] = MsgTimerPush(d)
        PROVE  j <= i
    <2>1. CASE i \in 1 .. Len(queue) /\ j \in 1 .. Len(queue)
      BY <1>1, <1>3, <2>1 DEF Orderly
    <2>2. CASE i = Len(queue) + 1
      BY <1>1, <2>2
    <2>3. CASE i \in 1 .. Len(queue) /\ j = Len(queue) + 1
      BY <1>1, <1>3, <2>3 DEF In
    <2> QED BY <1>1, <2>1, <2>2, <2>3
  <1> QED BY <1>2, <1>3 DEF Orderly

LEMMA Received ==
    ASSUME NEW queue \in Seq(Messages), queue # <<>>, NEW rest, rest = Tail(queue), Orderly(queue)
    PROVE  /\ rest \in Seq(Messages) /\ Head(queue) \in Messages
           /\ \A x : In(queue, x) <=> In(rest, x) \/ x = Head(queue)
           /\ Orderly(rest)
           /\ \A d \in Delegates : Head(queue) \in {MsgTimerPush(d), MsgTimerRemove(d)} => ~In(rest, MsgTimerPush(d))
           /\ \A d \in Delegates : Head(queue) = MsgTimerRemove(d) => ~In(rest, MsgTimerRemove(d))
  <1>1. /\ rest \in Seq(Messages) /\ Len(queue) = Len(rest) + 1 /\ Len(rest) \in Nat
        /\ \A i \in 1 .. Len(rest) : rest[i] = queue[i + 1]
        /\ Head(queue) = queue[1] /\ Head(queue) \in Messages
    OBVIOUS
  <1>2. \A x : In(queue, x) <=> In(rest, x) \/ x = Head(queue)
    <2>1. ASSUME NEW x, NEW i \in 1 .. Len(queue), queue[i] = x
          PROVE  In(rest, x) \/ x = Head(queue)
      <3>1. CASE i = 1
        BY <1>1, <2>1, <3>1
      <3>2. CASE i # 1
        <4>1. i - 1 \in 1 .. Len(rest) /\ i - 1 + 1 = i
          BY <1>1, <3>2
        <4> QED BY <1>1, <2>1, <4>1 DEF In
      <3> QED BY <3>1, <3>2
    <2>2. ASSUME NEW x, NEW i \in 1 .. Len(rest), rest[i] = x
          PROVE  In(queue, x)
      BY <1>1, <2>2 DEF In
    <2>3. In(queue, Head(queue))
      BY <1>1 DEF In
    <2> QED BY <2>1, <2>2, <2>3 DEF In
  <1>3. \A i \in 1 .. Len(rest) : i + 1 \in 1 .. Len(queue)
    BY <1>1
  <1>4. Orderly(rest)
    <2>1. ASSUME NEW d \in Delegates, NEW i \in 1 .. Len(rest), NEW j \in 1 .. Len(rest),
                 rest[i] = MsgTimerRemove(d), rest[j] \in {MsgTimerPush(d), MsgTimerRemove(d)}
          PROVE  j <= i
      <3>1. j + 1 <= i + 1
        BY <1>1, <1>3, <2>1 DEF Orderly
      <3> QED BY <3>1
    <2>2. ASSUME NEW d \in Delegates, NEW i \in 1 .. Len(rest), NEW j \in 1 .. Len(rest),
                 rest[i] = MsgTimerPush(d), rest[j] = MsgTimerPush(d)
          PROVE  j <= i
      <3>1. j + 1 <= i + 1
        BY <1>1, <1>3, <2>2 DEF Orderly
      <3> QED BY <3>1
    <2> QED BY <2>1, <2>2 DEF Orderly
  <1>5. ASSUME NEW d \in Delegates, NEW i \in 1 .. Len(rest), rest[i] \in {MsgTimerPush(d), MsgTimerRemove(d)}
        PROVE  ~(Head(queue) = MsgTimerRemove(d)) /\ ~(Head(queue) = MsgTimerPush(d) /\ rest[i] = MsgTimerPush(d))
    <2>1. 1 \in 1 .. Len(queue) /\ i + 1 \in 1 .. Len(queue) /\ ~(i + 1 <= 1)
      BY <1>1, <1>3
    <2> QED BY <1>1, <1>5, <2>1 DEF Orderly
  <1> QED BY <1>1, <1>2, <1>4, <1>5 DEF In

-----------------------------------------------------------------------------
TimerTypes ==
    /\ now \in Times /\ timerOfNow \in Times /\ fd \in Times \cup {Never}
    /\ exists \subseteq Clients
    /\ mTimer \in [Clients -> Delegates \cup {NULL}]
    /\ life \in [Delegates -> {"unborn", "live", "deleted"}]
    /\ mClient \in [Delegates -> Clients \cup {NULL}]
    /\ mFutureTime \in [Delegates -> Times]
    /\ msgs \in Seq(Messages)
    /\ mTree \in Trees /\ Sound(mFutureTime, mTree)
    /\ popped \in Delegates \cup {NULL}
    /\ client \in Clients \cup {NULL}
    /\ polled \in BOOLEAN
    /\ poll \in {"wait", "disarm", "remove", "send"}

(* Where the task is says what it has in its hands.                        *)
Stands ==
    /\ task \in Places
    /\ task \in {"addpoll", "settime"} => mTree # NULL
    /\ task \in {"stop", "callback"} => client \in Clients
    /\ task = "read" => popped \in Delegates /\ life[popped] = "live"

(* A delegate lives while it is a client's timer, and then until its       *)
(* removal is handled; its push comes before, once, and while it lives.    *)
Lives ==
    /\ Orderly(msgs)
    /\ \A d \in Delegates :
          life[d] = "live" <=> (\E c \in Clients : mTimer[c] = d) \/ In(msgs, MsgTimerRemove(d))
    /\ \A c \in Clients : mTimer[c] # NULL =>
          c \in exists /\ mClient[mTimer[c]] = c /\ ~In(msgs, MsgTimerRemove(mTimer[c]))
    /\ \A d \in Data(mTree) : life[d] = "live"
    /\ \A d \in Delegates : In(msgs, MsgTimerPush(d)) => life[d] = "live" /\ d \notin Data(mTree)

(* The task is about to arm the timerfd only while it is in the epoll set  *)
(* or a report is certain to come after                                    *)
Watched ==
    /\ top # NULL => \/ task # "idle" \/ poll # "wait" \/ In(msgs, MsgTimerExpire)
                     \/ polled /\ fd <= mFutureTime[top]
    /\ task = "settime" => polled \/ poll = "send" \/ In(msgs, MsgTimerExpire)

TimerInv == TimerTypes /\ Stands /\ Lives /\ Watched

LEMMA RanksType == \A f \in [Delegates -> Times] : f \in [Rankables -> Int]
  BY TimerAssumption DEF Delegates, Times

LEMMA TopType ==
    ASSUME TimerTypes
    PROVE  /\ mTree = NULL => top = NULL /\ Data(mTree) = {}
           /\ mTree # NULL => top \in Data(mTree) /\ top \in Delegates /\ top # NULL
           /\ Data(mTree) \subseteq Delegates
  <1>1. mFutureTime \in [Rankables -> Int] /\ mTree \in Trees /\ Sound(mFutureTime, mTree)
    BY RanksType DEF TimerTypes
  <1> QED BY <1>1, HeapPeek, DataType DEF top, Delegates

LEMMA InitTimerInv == TimerInit => TimerInv
  <1> SUFFICES ASSUME TimerInit PROVE TimerInv
    OBVIOUS
  <1> USE DEF TimerInit
  <1>1. msgs = <<>> /\ mTree = NULL /\ Data(NULL) = {} /\ NULL \in Trees
        /\ \A rank : Sound(rank, NULL)
    BY NothingIn DEF Trees
  <1>2. TimerTypes
    <2>1. 0 \in Times
      BY TimerAssumption DEF Times
    <2>2. <<>> \in Seq(Messages)
      OBVIOUS
    <2> QED BY <1>1, <2>1, <2>2 DEF TimerTypes
  <1>3. Stands
    BY DEF Stands, Places
  <1>4. \A x : ~In(<<>>, x)
    BY DEF In
  <1>5. Lives
    <2>1. Orderly(<<>>)
      BY DEF Orderly
    <2>2. \A d \in Delegates : d # NULL
      BY HeapAssumption DEF Delegates
    <2> QED BY <1>1, <1>4, <2>1, <2>2 DEF Lives
  <1>6. Watched
    BY <1>1 DEF Watched, top, peek
  <1> QED BY <1>2, <1>3, <1>5, <1>6 DEF TimerInv

LEMMA StartKeeps ==
    ASSUME TimerInv, NEW c \in Clients, NEW delay \in Delays, start(c, delay)
    PROVE  TimerInv'
  <1> DEFINE unborn == {d \in Delegates : life[d] = "unborn"}
             d == CHOOSE e \in unborn : TRUE
  <1>1. /\ c \in exists /\ mTimer[c] = NULL /\ now + delay <= MaxTime
        /\ d \in Delegates /\ life[d] = "unborn"
        /\ life' = [life EXCEPT ![d] = "live"]
        /\ mClient' = [mClient EXCEPT ![d] = c]
        /\ mFutureTime' = [mFutureTime EXCEPT ![d] = now + delay]
        /\ mTimer' = [mTimer EXCEPT ![c] = d]
        /\ msgs' = Append(msgs, MsgTimerPush(d))
        /\ UNCHANGED <<now, exists, mTree, task, popped, client, timerOfNow, fd, polled, poll>>
    BY DEF start, taskVars, fdVars, Send
  <1> HIDE DEF d
  <1>2. /\ ~(\E e \in Clients : mTimer[e] = d) /\ ~In(msgs, MsgTimerRemove(d)) /\ ~In(msgs, MsgTimerPush(d))
        /\ d \notin Data(mTree) /\ d # NULL
    BY <1>1, MessagesDiffer DEF TimerInv, Lives
  <1>3. MsgTimerPush(d) \in Messages /\ msgs \in Seq(Messages) /\ Orderly(msgs)
    BY <1>1, MessagesDiffer DEF TimerInv, TimerTypes, Lives
  <1>4. msgs' \in Seq(Messages) /\ \A x : In(msgs', x) <=> In(msgs, x) \/ x = MsgTimerPush(d)
    BY <1>1, <1>3, Appended
  <1>5. Orderly(msgs')
    <2>1. \A e \in Delegates : MsgTimerPush(d) \in {MsgTimerPush(e), MsgTimerRemove(e)} => e = d
      BY <1>1, MessagesDiffer
    <2>2. /\ \A e \in Delegates : MsgTimerPush(d) \in {MsgTimerPush(e), MsgTimerRemove(e)} => ~In(msgs, MsgTimerRemove(e))
          /\ \A e \in Delegates : MsgTimerPush(d) = MsgTimerPush(e) => ~In(msgs, MsgTimerPush(e))
      BY <2>1, <1>2
    <2> QED BY <1>1, <1>3, <2>2, AppendedOrderly
  <1>6. now + delay \in Times
    BY <1>1, TimerAssumption DEF TimerInv, TimerTypes, Times
  <1>7. mFutureTime' \in [Delegates -> Times] /\ \A e \in Delegates : e # d => mFutureTime'[e] = mFutureTime[e]
    BY <1>1, <1>6 DEF TimerInv, TimerTypes
  <1>8. Sound(mFutureTime', mTree')
    <2>1. \A e \in Data(mTree) : mFutureTime'[e] = mFutureTime[e]
      BY <1>2, <1>7, TopType DEF TimerInv
    <2>2. mTree \in Trees /\ Sound(mFutureTime, mTree) /\ mTree' = mTree
      BY <1>1 DEF TimerInv, TimerTypes
    <2> QED BY <2>1, <2>2, RanksAgree
  <1>9. TimerTypes'
    BY <1>1, <1>4, <1>7, <1>8 DEF TimerInv, TimerTypes
  <1>10. Stands'
    BY <1>1 DEF TimerInv, TimerTypes, Stands
  <1>11. Lives'
    <2>1. \A e \in Delegates : life'[e] = IF e = d THEN "live" ELSE life[e]
      BY <1>1 DEF TimerInv, TimerTypes
    <2>2. \A e \in Clients : mTimer'[e] = IF e = c THEN d ELSE mTimer[e]
      BY <1>1 DEF TimerInv, TimerTypes
    <2>3. \A e \in Delegates : mClient'[e] = IF e = d THEN c ELSE mClient[e]
      BY <1>1 DEF TimerInv, TimerTypes
    <2>4. \A e \in Delegates : MsgTimerRemove(e) # MsgTimerPush(d) /\ (MsgTimerPush(e) = MsgTimerPush(d) => e = d)
      BY <1>1, MessagesDiffer
    <2>5. \A e \in Delegates :
            life'[e] = "live" <=> (\E b \in Clients : mTimer'[b] = e) \/ In(msgs', MsgTimerRemove(e))
      <3> SUFFICES ASSUME NEW e \in Delegates
                   PROVE  life'[e] = "live" <=> \/ \E b \in Clients : mTimer'[b] = e
                                                \/ In(msgs', MsgTimerRemove(e))
        OBVIOUS
      <3>1. CASE e = d
        BY <3>1, <2>1, <2>2
      <3>2. CASE e # d
        <4>1. (\E b \in Clients : mTimer'[b] = e) <=> (\E b \in Clients : mTimer[b] = e)
          BY <3>2, <1>1, <2>2, MessagesDiffer
        <4>2. In(msgs', MsgTimerRemove(e)) <=> In(msgs, MsgTimerRemove(e))
          BY <1>4, <2>4
        <4> QED BY <3>2, <4>1, <4>2, <2>1 DEF TimerInv, Lives
      <3> QED BY <3>1, <3>2
    <2>6. \A e \in Clients : mTimer'[e] # NULL =>
            e \in exists' /\ mClient'[mTimer'[e]] = e /\ ~In(msgs', MsgTimerRemove(mTimer'[e]))
      <3> SUFFICES ASSUME NEW e \in Clients, mTimer'[e] # NULL
                   PROVE  e \in exists' /\ mClient'[mTimer'[e]] = e /\ ~In(msgs', MsgTimerRemove(mTimer'[e]))
        OBVIOUS
      <3>1. CASE e = c
        BY <3>1, <1>1, <1>2, <1>4, <2>2, <2>3, <2>4
      <3>2. CASE e # c
        <4>1. mTimer'[e] = mTimer[e] /\ mTimer[e] \in Delegates /\ mTimer[e] # d
          BY <3>2, <2>2, <1>2 DEF TimerInv, TimerTypes
        <4> QED BY <4>1, <1>1, <1>4, <2>3, <2>4 DEF TimerInv, Lives
      <3> QED BY <3>1, <3>2
    <2>7. \A e \in Data(mTree') : life'[e] = "live"
      BY <1>1, <2>1, TopType DEF TimerInv, Lives
    <2>8. \A e \in Delegates : In(msgs', MsgTimerPush(e)) => life'[e] = "live" /\ e \notin Data(mTree')
      BY <1>1, <1>2, <1>4, <2>1, <2>4 DEF TimerInv, Lives
    <2> QED BY <1>5, <2>5, <2>6, <2>7, <2>8 DEF Lives
  <1>12. Watched'
    <2>1. top' = top
      BY <1>1 DEF top
    <2>2. top # NULL => mFutureTime'[top] = mFutureTime[top]
      BY <1>2, <1>7, TopType DEF TimerInv
    <2> QED BY <1>1, <1>4, <2>1, <2>2 DEF TimerInv, Watched
  <1> QED BY <1>9, <1>10, <1>11, <1>12 DEF TimerInv

(* stop(), whoever calls it: the delegate is not in a client's hands any   *)
(* more and its removal is on the way.                                     *)
LEMMA StopTimerKeeps ==
    ASSUME TimerInv, NEW c \in Clients, StopTimer(c),
           UNCHANGED <<now, life, mFutureTime, mTree, popped, timerOfNow, fdVars, poll>>,
           exists' \in {exists, exists \ {c}},
           Stands', client' \in Clients \cup {NULL},
           task # "idle" => task' # "idle", task' = "settime" => task = "settime"
    PROVE  TimerInv'
  <1> DEFINE d == mTimer[c]
  <1>1. /\ d # NULL /\ d \in Delegates
        /\ mTimer' = [mTimer EXCEPT ![c] = NULL]
        /\ mClient' = [mClient EXCEPT ![d] = NULL]
        /\ msgs' = Append(msgs, MsgTimerRemove(d))
    BY DEF StopTimer, Send, TimerInv, TimerTypes
  <1>u. UNCHANGED <<now, life, mFutureTime, mTree, popped, timerOfNow, fd, polled, poll>>
    BY DEF fdVars
  <1>2. ~In(msgs, MsgTimerRemove(d)) /\ mClient[d] = c
    BY <1>1 DEF TimerInv, Lives
  <1>3. \A e \in Clients : e # c => mTimer[e] # d
    BY <1>1, <1>2 DEF TimerInv, Lives
  <1> HIDE DEF d
  <1>4. MsgTimerRemove(d) \in Messages /\ msgs \in Seq(Messages) /\ Orderly(msgs)
    BY <1>1, MessagesDiffer DEF TimerInv, TimerTypes, Lives
  <1>5. msgs' \in Seq(Messages) /\ \A x : In(msgs', x) <=> In(msgs, x) \/ x = MsgTimerRemove(d)
    BY <1>1, <1>4, Appended
  <1>6. \A e \in Delegates : MsgTimerPush(e) # MsgTimerRemove(d) /\ (MsgTimerRemove(e) = MsgTimerRemove(d) => e = d)
    BY <1>1, MessagesDiffer
  <1>7. Orderly(msgs')
    <2>1. \A e \in Delegates : MsgTimerRemove(d) \in {MsgTimerPush(e), MsgTimerRemove(e)} => ~In(msgs, MsgTimerRemove(e))
      BY <1>2, <1>6
    <2>2. \A e \in Delegates : MsgTimerRemove(d) = MsgTimerPush(e) => ~In(msgs, MsgTimerPush(e))
      BY <1>6
    <2> QED BY <1>1, <1>4, <2>1, <2>2, AppendedOrderly
  <1>8. TimerTypes'
    BY <1>1, <1>5, <1>u DEF TimerInv, TimerTypes
  <1>9. Lives'
    <2>1. \A e \in Clients : mTimer'[e] = IF e = c THEN NULL ELSE mTimer[e]
      BY <1>1 DEF TimerInv, TimerTypes
    <2>2. \A e \in Delegates : mClient'[e] = IF e = d THEN NULL ELSE mClient[e]
      BY <1>1 DEF TimerInv, TimerTypes
    <2>3. ASSUME NEW e \in Delegates
          PROVE  life'[e] = "live" <=> \/ \E b \in Clients : mTimer'[b] = e
                                       \/ In(msgs', MsgTimerRemove(e))
      <3>1. CASE e = d
        BY <3>1, <1>1, <1>5, <1>u DEF TimerInv, Lives, d
      <3>2. CASE e # d
        <4>1. (\E b \in Clients : mTimer'[b] = e) <=> (\E b \in Clients : mTimer[b] = e)
          BY <3>2, <2>1, MessagesDiffer DEF d
        <4>2. In(msgs', MsgTimerRemove(e)) <=> In(msgs, MsgTimerRemove(e))
          BY <3>2, <1>5, <1>6
        <4> QED BY <4>1, <4>2, <1>u DEF TimerInv, Lives
      <3> QED BY <3>1, <3>2
    <2>4. ASSUME NEW e \in Clients, mTimer'[e] # NULL
          PROVE  e \in exists' /\ mClient'[mTimer'[e]] = e /\ ~In(msgs', MsgTimerRemove(mTimer'[e]))
      <3>1. e # c /\ mTimer'[e] = mTimer[e] /\ mTimer[e] \in Delegates /\ mTimer[e] # d
        BY <2>1, <2>4, <1>3 DEF TimerInv, TimerTypes
      <3> QED BY <3>1, <2>2, <2>4, <1>5, <1>6 DEF TimerInv, Lives
    <2>5. \A e \in Data(mTree') : life'[e] = "live"
      BY <1>u DEF TimerInv, Lives
    <2>6. \A e \in Delegates : In(msgs', MsgTimerPush(e)) => life'[e] = "live" /\ e \notin Data(mTree')
      BY <1>u, <1>5, <1>6 DEF TimerInv, Lives
    <2> QED BY <1>7, <2>3, <2>4, <2>5, <2>6 DEF Lives
  <1>10. Watched'
    <2>1. top' = top
      BY <1>u DEF top
    <2> QED BY <1>u, <1>5, <2>1 DEF TimerInv, Watched
  <1> QED BY <1>8, <1>9, <1>10 DEF TimerInv

LEMMA ClientsKeep ==
    ASSUME TimerInv, NEW c \in Clients, stop(c) \/ Delete(c)
    PROVE  TimerInv'
  <1>1. /\ UNCHANGED <<now, life, mFutureTime, mTree, popped, client, timerOfNow, fdVars, poll>>
        /\ task' = task /\ exists' \in {exists, exists \ {c}}
        /\ StopTimer(c) \/ (mTimer[c] = NULL /\ UNCHANGED <<mTimer, mClient, msgs>>)
    BY DEF stop, Delete, taskVars
  <1>2. Stands' /\ client' \in Clients \cup {NULL}
    BY <1>1 DEF TimerInv, TimerTypes, Stands
  <1>3. CASE StopTimer(c)
    BY <1>1, <1>2, <1>3, StopTimerKeeps
  <1>4. CASE mTimer[c] = NULL /\ UNCHANGED <<mTimer, mClient, msgs>>
    <2>1. TimerTypes'
      BY <1>1, <1>4 DEF TimerInv, TimerTypes, fdVars
    <2>2. Lives'
      BY <1>1, <1>4 DEF TimerInv, Lives
    <2>3. Watched'
      BY <1>1, <1>4 DEF TimerInv, Watched, top, fdVars
    <2> QED BY <1>2, <2>1, <2>2, <2>3 DEF TimerInv
  <1> QED BY <1>1, <1>3, <1>4

LEMMA StopClientKeeps ==
    ASSUME TimerInv, StopClient
    PROVE  TimerInv'
  <1>1. /\ UNCHANGED <<now, exists, life, mFutureTime, mTree, popped, timerOfNow, fdVars, poll>>
        /\ task = "stop" /\ client \in Clients
    BY DEF StopClient, TimerInv, Stands
  <1>2. CASE StopTimer(client) /\ task' = "callback" /\ UNCHANGED client
    <2>1. Stands' /\ client' \in Clients \cup {NULL}
      BY <1>1, <1>2 DEF TimerInv, TimerTypes, Stands, Places
    <2> QED BY <1>1, <1>2, <2>1, StopTimerKeeps
  <1>3. CASE task' = "next" /\ client' = NULL /\ UNCHANGED <<mTimer, mClient, msgs>>
    <2>1. TimerTypes'
      BY <1>1, <1>3 DEF TimerInv, TimerTypes, fdVars
    <2>2. Stands'
      BY <1>3 DEF Stands, Places
    <2>3. Lives'
      BY <1>1, <1>3 DEF TimerInv, Lives
    <2>4. Watched'
      BY <1>1, <1>3 DEF Watched
    <2> QED BY <2>1, <2>2, <2>3, <2>4 DEF TimerInv
  <1> QED BY <1>2, <1>3 DEF StopClient

(* What is left of the queue when the task has taken the first message     *)
LEMMA Taken ==
    ASSUME TimerInv, NEW type, Receive(type)
    PROVE  /\ task = "idle" /\ Head(msgs).type = type
           /\ msgs' \in Seq(Messages) /\ Head(msgs) \in Messages /\ Orderly(msgs')
           /\ \A x : In(msgs, x) <=> In(msgs', x) \/ x = Head(msgs)
           /\ \A d \in Delegates : Head(msgs) \in {MsgTimerPush(d), MsgTimerRemove(d)} => ~In(msgs', MsgTimerPush(d))
           /\ \A d \in Delegates : Head(msgs) = MsgTimerRemove(d) => ~In(msgs', MsgTimerRemove(d))
  <1>1. task = "idle" /\ Head(msgs).type = type /\ msgs # <<>> /\ msgs' = Tail(msgs)
    BY DEF Receive
  <1>2. msgs \in Seq(Messages) /\ Orderly(msgs)
    BY DEF TimerInv, TimerTypes, Lives
  <1> QED BY <1>1, <1>2, Received

LEMMA PushProcKeeps ==
    ASSUME TimerInv, PushProc
    PROVE  TimerInv'
  <1> DEFINE d == Head(msgs).timer
             soonest == top = NULL \/ Sooner(d, top)
  <1>1. /\ Receive("push") /\ mTree' = push(mFutureTime, mTree, d) /\ Update(soonest)
        /\ UNCHANGED <<now, exists, mTimer, mClient, life, mFutureTime, popped, client,
                       timerOfNow, fd, polled, poll>>
    BY DEF PushProc, clientVars, fdVars
  <1>2. /\ task = "idle" /\ Head(msgs).type = "push"
        /\ msgs' \in Seq(Messages) /\ Head(msgs) \in Messages /\ Orderly(msgs')
        /\ \A x : In(msgs, x) <=> In(msgs', x) \/ x = Head(msgs)
        /\ \A e \in Delegates : Head(msgs) \in {MsgTimerPush(e), MsgTimerRemove(e)} => ~In(msgs', MsgTimerPush(e))
    BY <1>1, Taken
  <1>3. d \in Delegates /\ Head(msgs) = MsgTimerPush(d)
    BY <1>2, MessageKinds
  <1> HIDE DEF d, soonest
  <1>4. life[d] = "live" /\ d \notin Data(mTree) /\ ~In(msgs', MsgTimerPush(d))
    BY <1>2, <1>3 DEF TimerInv, Lives
  <1>5. \A e \in Delegates : MsgTimerRemove(e) # MsgTimerPush(d) /\ (MsgTimerPush(e) = MsgTimerPush(d) => e = d) /\ MsgTimerPush(d) # MsgTimerExpire
    BY <1>3, MessagesDiffer
  <1>6. /\ mTree' \in Trees /\ Sound(mFutureTime, mTree')
        /\ Data(mTree') = Data(mTree) \cup {d}
        /\ top' = IF soonest THEN d ELSE top
    <2>1. mFutureTime \in [Rankables -> Int] /\ mTree \in Trees /\ Sound(mFutureTime, mTree)
      BY RanksType DEF TimerInv, TimerTypes
    <2>2. d \in Rankables \ Data(mTree)
      BY <1>3, <1>4 DEF Delegates
    <2> QED BY <2>1, <2>2, <1>1, HeapPush DEF top, soonest, Sooner
  <1>7. TimerTypes'
    BY <1>1, <1>2, <1>6 DEF TimerInv, TimerTypes
  <1>8. mTree' # NULL
    BY <1>6, NothingIn
  <1>9. task' = IF soonest THEN "addpoll" ELSE "idle"
    BY <1>1, <1>8 DEF Update
  <1>10. Stands'
    BY <1>8, <1>9 DEF Stands, Places
  <1>11. Lives'
    <2>1. \A e \in Delegates : In(msgs', MsgTimerRemove(e)) <=> In(msgs, MsgTimerRemove(e))
      BY <1>2, <1>3, <1>5
    <2>2. \A e \in Delegates :
            life'[e] = "live" <=> (\E c \in Clients : mTimer'[c] = e) \/ In(msgs', MsgTimerRemove(e))
      BY <1>1, <2>1 DEF TimerInv, Lives
    <2>3. \A c \in Clients : mTimer'[c] # NULL =>
            c \in exists' /\ mClient'[mTimer'[c]] = c /\ ~In(msgs', MsgTimerRemove(mTimer'[c]))
      BY <1>1, <2>1 DEF TimerInv, TimerTypes, Lives
    <2>4. \A e \in Data(mTree') : life'[e] = "live"
      BY <1>1, <1>4, <1>6 DEF TimerInv, Lives
    <2>5. \A e \in Delegates : In(msgs', MsgTimerPush(e)) => life'[e] = "live" /\ e \notin Data(mTree')
      BY <1>1, <1>2, <1>4, <1>6 DEF TimerInv, Lives
    <2> QED BY <1>2, <2>2, <2>3, <2>4, <2>5 DEF Lives
  <1>12. Watched'
    <2>1. In(msgs, MsgTimerExpire) => In(msgs', MsgTimerExpire)
      BY <1>2, <1>3, <1>5
    <2> QED BY <1>1, <1>2, <1>6, <1>9, <2>1 DEF TimerInv, Watched
  <1> QED BY <1>7, <1>10, <1>11, <1>12 DEF TimerInv

LEMMA RemoveProcKeeps ==
    ASSUME TimerInv, RemoveProc
    PROVE  TimerInv'
  <1> DEFINE d == Head(msgs).timer
  <1>1. /\ Receive("remove") /\ mTree' = remove(mFutureTime, mTree, d) /\ Update(d = top)
        /\ life' = [life EXCEPT ![d] = "deleted"]
        /\ mFutureTime' = [mFutureTime EXCEPT ![d] = 0]
        /\ UNCHANGED <<now, exists, mTimer, mClient, popped, client, timerOfNow, fd, polled, poll>>
    BY DEF RemoveProc, clientVars, fdVars
  <1>2. /\ task = "idle" /\ Head(msgs).type = "remove"
        /\ msgs' \in Seq(Messages) /\ Head(msgs) \in Messages /\ Orderly(msgs')
        /\ \A x : In(msgs, x) <=> In(msgs', x) \/ x = Head(msgs)
        /\ \A e \in Delegates : Head(msgs) \in {MsgTimerPush(e), MsgTimerRemove(e)} => ~In(msgs', MsgTimerPush(e))
        /\ \A e \in Delegates : Head(msgs) = MsgTimerRemove(e) => ~In(msgs', MsgTimerRemove(e))
    BY <1>1, Taken
  <1>3. d \in Delegates /\ Head(msgs) = MsgTimerRemove(d)
    BY <1>2, MessageKinds
  <1> HIDE DEF d
  <1>4. /\ ~In(msgs', MsgTimerRemove(d)) /\ ~In(msgs', MsgTimerPush(d)) /\ In(msgs, MsgTimerRemove(d))
        /\ \A c \in Clients : mTimer[c] # d
    BY <1>2, <1>3, MessagesDiffer DEF TimerInv, Lives
  <1>5. \A e \in Delegates : MsgTimerPush(e) # MsgTimerRemove(d) /\ (MsgTimerRemove(e) = MsgTimerRemove(d) => e = d) /\ MsgTimerRemove(d) # MsgTimerExpire
    BY <1>3, MessagesDiffer
  <1>6. /\ mTree' \in Trees /\ Sound(mFutureTime, mTree')
        /\ Data(mTree') = Data(mTree) \ {d}
        /\ top # d => top' = top
    <2>1. mFutureTime \in [Rankables -> Int] /\ mTree \in Trees /\ Sound(mFutureTime, mTree)
      BY RanksType DEF TimerInv, TimerTypes
    <2>2. d \in Rankables
      BY <1>3 DEF Delegates
    <2> QED BY <2>1, <2>2, <1>1, HeapRemove DEF top
  <1>7. /\ mFutureTime' \in [Delegates -> Times]
        /\ \A e \in Delegates : e # d => mFutureTime'[e] = mFutureTime[e]
    <2>1. 0 \in Times
      BY TimerAssumption DEF Times
    <2> QED BY <1>1, <2>1 DEF TimerInv, TimerTypes
  <1>8. Data(mTree') \subseteq Delegates
    BY <1>6, DataType DEF Delegates
  <1>9. Sound(mFutureTime', mTree')
    <2>1. \A e \in Data(mTree') : mFutureTime'[e] = mFutureTime[e]
      BY <1>6, <1>7, <1>8
    <2> QED BY <2>1, <1>6, RanksAgree
  <1>10. TimerTypes'
    BY <1>1, <1>2, <1>6, <1>7, <1>9 DEF TimerInv, TimerTypes
  <1>11. task' = (IF d = top /\ mTree' # NULL THEN "addpoll" ELSE "idle")
    BY <1>1 DEF Update
  <1>12. Stands'
    BY <1>11 DEF Stands, Places
  <1>13. \A e \in Delegates : life'[e] = IF e = d THEN "deleted" ELSE life[e]
    BY <1>1 DEF TimerInv, TimerTypes
  <1>14. Lives'
    <2>1. \A e \in Delegates : e # d => (In(msgs', MsgTimerRemove(e)) <=> In(msgs, MsgTimerRemove(e)))
      BY <1>2, <1>3, <1>5
    <2>2. \A e \in Delegates :
            life'[e] = "live" <=> (\E c \in Clients : mTimer'[c] = e) \/ In(msgs', MsgTimerRemove(e))
      BY <1>1, <1>4, <1>13, <2>1 DEF TimerInv, Lives
    <2>3. \A c \in Clients : mTimer'[c] # NULL =>
            c \in exists' /\ mClient'[mTimer'[c]] = c /\ ~In(msgs', MsgTimerRemove(mTimer'[c]))
      BY <1>1, <1>4, <2>1 DEF TimerInv, TimerTypes, Lives
    <2>4. \A e \in Data(mTree') : life'[e] = "live"
      BY <1>6, <1>8, <1>13 DEF TimerInv, Lives
    <2>5. \A e \in Delegates : In(msgs', MsgTimerPush(e)) => life'[e] = "live" /\ e \notin Data(mTree')
      BY <1>2, <1>4, <1>6, <1>13 DEF TimerInv, Lives
    <2> QED BY <1>2, <2>2, <2>3, <2>4, <2>5 DEF Lives
  <1>15. Watched'
    <2>1. In(msgs, MsgTimerExpire) => In(msgs', MsgTimerExpire)
      BY <1>2, <1>3, <1>5
    <2>2. mTree' = NULL => top' = NULL
      BY DEF top, peek
    <2>3. d # top /\ top # NULL => mFutureTime'[top] = mFutureTime[top]
      BY <1>7, TopType DEF TimerInv
    <2>4. task' = "settime" => FALSE
      BY <1>11
    <2>5. top' # NULL => \/ task' # "idle" \/ poll' # "wait" \/ In(msgs', MsgTimerExpire)
                         \/ polled' /\ fd' <= mFutureTime'[top']
      <3>1. CASE d = top
        BY <3>1, <1>11, <2>2
      <3>2. CASE d # top
        BY <3>2, <1>1, <1>2, <1>6, <2>1, <2>3 DEF TimerInv, Watched
      <3> QED BY <3>1, <3>2
    <2> QED BY <2>4, <2>5 DEF Watched
  <1> QED BY <1>10, <1>12, <1>14, <1>15 DEF TimerInv

LEMMA PopFacts ==
    ASSUME TimerInv, Pop
    PROVE  /\ mTree' \in Trees /\ Sound(mFutureTime, mTree') /\ Data(mTree') \subseteq Data(mTree)
           /\ popped' \in Delegates /\ life[popped'] = "live" /\ task' = "read"
  <1>1. mFutureTime \in [Rankables -> Int] /\ mTree \in Trees /\ Sound(mFutureTime, mTree)
    BY RanksType DEF TimerInv, TimerTypes
  <1>2. mTree' = pop(mFutureTime, mTree) /\ top # NULL /\ popped' = top /\ task' = "read"
    BY DEF Pop
  <1>3. mTree' \in Trees /\ Sound(mFutureTime, mTree') /\ Data(mTree') \subseteq Data(mTree)
    BY <1>1, <1>2, HeapPop
  <1>4. top \in Data(mTree) /\ top \in Delegates
    BY <1>2, TopType DEF TimerInv
  <1> QED BY <1>2, <1>3, <1>4 DEF TimerInv, Lives

LEMMA ExpireProcKeeps ==
    ASSUME TimerInv, ExpireProc
    PROVE  TimerInv'
  <1>1. /\ Receive("expire")
        /\ UNCHANGED <<now, exists, mTimer, mClient, life, mFutureTime, client, fd, polled, poll>>
    BY DEF ExpireProc, clientVars, fdVars
  <1>2. /\ task = "idle" /\ Head(msgs).type = "expire"
        /\ msgs' \in Seq(Messages) /\ Head(msgs) \in Messages /\ Orderly(msgs')
        /\ \A x : In(msgs, x) <=> In(msgs', x) \/ x = Head(msgs)
    BY <1>1, Taken
  <1>3. Head(msgs) = MsgTimerExpire /\ \A d \in Delegates : MsgTimerPush(d) # MsgTimerExpire /\ MsgTimerRemove(d) # MsgTimerExpire
    BY <1>2, MessageKinds, MessagesDiffer
  <1>4. \A d \in Delegates : /\ In(msgs', MsgTimerPush(d)) <=> In(msgs, MsgTimerPush(d))
                             /\ In(msgs', MsgTimerRemove(d)) <=> In(msgs, MsgTimerRemove(d))
    BY <1>2, <1>3
  <1>5. \/ /\ Pop /\ timerOfNow' = now
        \/ /\ top = NULL /\ mTree' = mTree /\ popped' = popped /\ task' = task /\ timerOfNow' = timerOfNow
    BY DEF ExpireProc
  <1>6. /\ mTree' \in Trees /\ Sound(mFutureTime, mTree') /\ Data(mTree') \subseteq Data(mTree)
        /\ popped' \in Delegates \cup {NULL} /\ timerOfNow' \in Times
    BY <1>5, PopFacts DEF TimerInv, TimerTypes
  <1>7. TimerTypes'
    BY <1>1, <1>2, <1>6 DEF TimerInv, TimerTypes
  <1>8. Stands'
    BY <1>1, <1>2, <1>5, PopFacts DEF Stands, Places
  <1>9. Lives'
    <2>1. \A d \in Delegates :
            life'[d] = "live" <=> (\E c \in Clients : mTimer'[c] = d) \/ In(msgs', MsgTimerRemove(d))
      BY <1>1, <1>4 DEF TimerInv, Lives
    <2>2. \A c \in Clients : mTimer'[c] # NULL =>
            c \in exists' /\ mClient'[mTimer'[c]] = c /\ ~In(msgs', MsgTimerRemove(mTimer'[c]))
      BY <1>1, <1>4 DEF TimerInv, TimerTypes, Lives
    <2>3. \A d \in Data(mTree') : life'[d] = "live"
      BY <1>1, <1>6 DEF TimerInv, Lives
    <2>4. \A d \in Delegates : In(msgs', MsgTimerPush(d)) => life'[d] = "live" /\ d \notin Data(mTree')
      BY <1>1, <1>4, <1>6 DEF TimerInv, Lives
    <2> QED BY <1>2, <2>1, <2>2, <2>3, <2>4 DEF Lives
  <1>10. Watched'
    BY <1>2, <1>5, PopFacts DEF Watched, top
  <1> QED BY <1>7, <1>8, <1>9, <1>10 DEF TimerInv

LEMMA PopNextKeeps ==
    ASSUME TimerInv, PopNext
    PROVE  TimerInv'
  <1>1. UNCHANGED <<now, exists, mTimer, mClient, life, mFutureTime, msgs, client, fd, polled, poll>>
    BY DEF PopNext, clientVars, fdVars
  <1>2. \/ Pop /\ timerOfNow' = timerOfNow
        \/ /\ mTree' = mTree /\ popped' = NULL /\ timerOfNow' = 0
           /\ task' = IF mTree' # NULL THEN "addpoll" ELSE "idle"
    BY DEF PopNext, Update
  <1>3. /\ mTree' \in Trees /\ Sound(mFutureTime, mTree') /\ Data(mTree') \subseteq Data(mTree)
        /\ popped' \in Delegates \cup {NULL} /\ timerOfNow' \in Times
    BY <1>2, PopFacts, TimerAssumption DEF TimerInv, TimerTypes, Times
  <1>4. TimerTypes'
    BY <1>1, <1>3 DEF TimerInv, TimerTypes
  <1>5. Stands'
    BY <1>1, <1>2, PopFacts DEF Stands, Places
  <1>6. Lives'
    BY <1>1, <1>3 DEF TimerInv, Lives
  <1>7. Watched'
    <2>1. mTree' = NULL => top' = NULL
      BY DEF top, peek
    <2>2. task' \in {"read", "addpoll"} \/ (task' = "idle" /\ mTree' = NULL)
      BY <1>2, PopFacts
    <2> QED BY <2>1, <2>2 DEF Watched
  <1> QED BY <1>4, <1>5, <1>6, <1>7 DEF TimerInv

(* Steps that leave the heap, the queue and the lives of delegates alone   *)
LEMMA OtherKeeps ==
    ASSUME TimerInv,
           UNCHANGED <<exists, mTimer, mClient, life, mFutureTime, msgs, mTree, popped>>,
           now' \in Times /\ timerOfNow' \in Times /\ fd' \in Times \cup {Never}
             /\ client' \in Clients \cup {NULL} /\ polled' \in BOOLEAN
             /\ poll' \in {"wait", "disarm", "remove", "send"},
           Stands', Watched'
    PROVE  TimerInv'
  <1>1. TimerTypes'
    BY DEF TimerInv, TimerTypes
  <1>2. Lives'
    BY DEF TimerInv, Lives
  <1> QED BY <1>1, <1>2 DEF TimerInv

LEMMA TaskKeeps ==
    ASSUME TimerInv, ReadClient \/ CallbackReturns \/ AddPoll \/ SetTime
    PROVE  TimerInv'
  <1>1. /\ UNCHANGED <<now, exists, mTimer, mClient, life, mFutureTime, msgs, mTree, popped,
                       timerOfNow, poll>>
        /\ top' = top
    BY DEF ReadClient, CallbackReturns, AddPoll, SetTime, clientVars, top
  <1>2. CASE ReadClient
    <2>1. task = "read" /\ popped \in Delegates /\ client' = mClient[popped] /\ fd' = fd /\ polled' = polled
          /\ task' = IF mClient[popped] = NULL THEN "next" ELSE "stop"
      BY <1>2 DEF ReadClient, TimerInv, Stands, fdVars
    <2>2. client' \in Clients \cup {NULL} /\ (task' = "stop" => client' \in Clients)
      BY <2>1 DEF TimerInv, TimerTypes
    <2>3. Stands'
      BY <1>1, <2>1, <2>2 DEF Stands, Places
    <2>4. Watched'
      BY <2>1 DEF Watched
    <2> QED BY <1>1, <2>1, <2>2, <2>3, <2>4, OtherKeeps DEF TimerInv, TimerTypes
  <1>3. CASE CallbackReturns
    <2>1. task' = "next" /\ client' = NULL /\ fd' = fd /\ polled' = polled
      BY <1>3 DEF CallbackReturns, fdVars
    <2>2. Stands' /\ Watched'
      BY <2>1 DEF Stands, Places, Watched
    <2> QED BY <1>1, <2>1, <2>2, OtherKeeps DEF TimerInv, TimerTypes
  <1>4. CASE AddPoll
    <2>1. task = "addpoll" /\ task' = "settime" /\ polled' = TRUE /\ fd' = fd /\ client' = client
      BY <1>4 DEF AddPoll
    <2>2. Stands' /\ Watched'
      BY <1>1, <2>1 DEF TimerInv, Stands, Places, Watched
    <2> QED BY <1>1, <2>1, <2>2, OtherKeeps DEF TimerInv, TimerTypes
  <1>5. CASE SetTime
    <2>1. task = "settime" /\ task' = "idle" /\ fd' = mFutureTime[top] /\ polled' = polled /\ client' = client
      BY <1>5 DEF SetTime
    <2>2. top \in Delegates
      BY <2>1, TopType DEF TimerInv, Stands
    <2>3. fd' \in Times /\ fd' <= mFutureTime'[top']
      BY <1>1, <2>1, <2>2 DEF TimerInv, TimerTypes, Times
    <2>4. Stands'
      BY <2>1 DEF Stands, Places
    <2>5. polled \/ poll = "send" \/ In(msgs, MsgTimerExpire)
      BY <2>1 DEF TimerInv, Watched
    <2>6. Watched'
      BY <1>1, <2>1, <2>3, <2>5 DEF Watched
    <2> QED BY <1>1, <2>1, <2>3, <2>4, <2>6, OtherKeeps DEF TimerInv, TimerTypes
  <1> QED BY <1>2, <1>3, <1>4, <1>5

LEMMA PollKeeps ==
    ASSUME TimerInv, PollStep
    PROVE  TimerInv'
  <1>1. /\ UNCHANGED <<now, exists, mTimer, mClient, life, mFutureTime, mTree, task, popped, client,
                       timerOfNow>>
        /\ top' = top
    BY DEF PollStep, PollUnchanged, clientVars, taskVars, top
  <1>2. Stands'
    BY <1>1 DEF TimerInv, Stands
  <1>3. CASE EpollWait("disarm") \/ Disarm("remove") \/ RemovePoll("send")
    <2>1. /\ poll' \in {"disarm", "remove", "send"} /\ msgs' = msgs
          /\ fd' \in Times \cup {Never} /\ polled' \in BOOLEAN
          /\ polled' = polled \/ poll' = "send"
          /\ poll # "send"
      BY <1>3 DEF EpollWait, Disarm, RemovePoll, fdVars, TimerInv, TimerTypes
    <2>2. Watched'
      BY <1>1, <2>1 DEF TimerInv, Watched
    <2> QED BY <1>1, <1>2, <2>1, <2>2, OtherKeeps DEF TimerInv, TimerTypes
  <1>4. CASE SendExpire("wait")
    <2>1. msgs' = Append(msgs, MsgTimerExpire) /\ poll' = "wait" /\ fd' = fd /\ polled' = polled
      BY <1>4 DEF SendExpire, Send, fdVars
    <2>2. MsgTimerExpire \in Messages /\ msgs \in Seq(Messages) /\ Orderly(msgs)
          /\ \A d \in Delegates : MsgTimerPush(d) # MsgTimerExpire /\ MsgTimerRemove(d) # MsgTimerExpire
      BY MessagesDiffer DEF TimerInv, TimerTypes, Lives
    <2>3. msgs' \in Seq(Messages) /\ \A x : In(msgs', x) <=> In(msgs, x) \/ x = MsgTimerExpire
      BY <2>1, <2>2, Appended
    <2>4. Orderly(msgs')
      <3>1. \A d \in Delegates : MsgTimerExpire \in {MsgTimerPush(d), MsgTimerRemove(d)} => ~In(msgs, MsgTimerRemove(d))
        BY <2>2
      <3>2. \A d \in Delegates : MsgTimerExpire = MsgTimerPush(d) => ~In(msgs, MsgTimerPush(d))
        BY <2>2
      <3> QED BY <2>1, <2>2, <3>1, <3>2, AppendedOrderly
    <2>5. \A d \in Delegates : /\ In(msgs', MsgTimerPush(d)) <=> In(msgs, MsgTimerPush(d))
                               /\ In(msgs', MsgTimerRemove(d)) <=> In(msgs, MsgTimerRemove(d))
      BY <2>2, <2>3
    <2>6. TimerTypes'
      BY <1>1, <2>1, <2>3 DEF TimerInv, TimerTypes
    <2>7. Lives'
      BY <1>1, <2>4, <2>5 DEF TimerInv, TimerTypes, Lives
    <2>8. Watched'
      BY <2>3 DEF Watched
    <2> QED BY <1>2, <2>6, <2>7, <2>8 DEF TimerInv
  <1> QED BY <1>3, <1>4 DEF PollStep

LEMMA TickKeeps ==
    ASSUME TimerInv, Tick
    PROVE  TimerInv'
  <1>1. /\ UNCHANGED <<exists, mTimer, mClient, life, mFutureTime, msgs, mTree, task, popped, client,
                       timerOfNow, fd, polled, poll>>
        /\ now' \in Times /\ top' = top
    BY TimerAssumption DEF Tick, clientVars, taskVars, fdVars, top, TimerInv, TimerTypes, Times
  <1>2. Stands' /\ Watched'
    BY <1>1 DEF TimerInv, Stands, Watched
  <1> QED BY <1>1, <1>2, OtherKeeps DEF TimerInv, TimerTypes

LEMMA StutterKeeps ==
    ASSUME TimerInv, UNCHANGED timerVars
    PROVE  TimerInv'
  <1>1. /\ UNCHANGED <<now, exists, mTimer, mClient, life, mFutureTime, msgs, mTree, task, popped,
                       client, timerOfNow, fd, polled, poll>>
        /\ top' = top
    BY DEF timerVars, clientVars, taskVars, fdVars, top
  <1>2. Stands' /\ Watched'
    BY <1>1 DEF TimerInv, Stands, Watched
  <1> QED BY <1>1, <1>2, OtherKeeps DEF TimerInv, TimerTypes

LEMMA TimersKeep == TimerInv /\ [TimerNext]_timerVars => TimerInv'
  <1> SUFFICES ASSUME TimerInv, [TimerNext]_timerVars PROVE TimerInv'
    OBVIOUS
  <1>1. ASSUME NEW c \in Clients, NEW delay \in Delays, start(c, delay) PROVE TimerInv'
    BY <1>1, StartKeeps
  <1>2. ASSUME NEW c \in Clients, stop(c) \/ Delete(c) PROVE TimerInv'
    BY <1>2, ClientsKeep
  <1>3. CASE TaskStep
    BY <1>3, PushProcKeeps, RemoveProcKeeps, ExpireProcKeeps, StopClientKeeps, PopNextKeeps,
       TaskKeeps DEF TaskStep
  <1>4. CASE PollStep
    BY <1>4, PollKeeps
  <1>5. CASE Tick
    BY <1>5, TickKeeps
  <1>6. CASE UNCHANGED timerVars
    BY <1>6, StutterKeeps
  <1> QED BY <1>1, <1>2, <1>3, <1>4, <1>5, <1>6 DEF TimerNext

(* Types, places, lives and the watch of the timerfd hold in every state   *)
(* (LocTimer.cpp).                                                         *)
THEOREM TimerInvariance == TimerSpec => []TimerInv
  BY InitTimerInv, TimersKeep, PTL DEF TimerSpec

(* No delegate is leaked, and none is used after MsgTimerRemove::proc() has *)
(* deleted it, for any clients, delays and times.                          *)
THEOREM DelegatesLive == TimerSpec => []DelegateLifetime
  <1>1. TimerInv => DelegateLifetime
    <2> SUFFICES ASSUME TimerInv PROVE DelegateLifetime
      OBVIOUS
    <2>1. \A i \in 1 .. Len(msgs) : msgs[i] \in Messages
      BY DEF TimerInv, TimerTypes
    <2>2. TimerTypeOK
      <3>1. checkTree(mFutureTime, mTree)
        BY SoundPasses DEF TimerInv, TimerTypes
      <3>2. \A m \in Messages : m = MsgTimerExpire \/ \E d \in Delegates : m \in {MsgTimerPush(d), MsgTimerRemove(d)}
        BY DEF Messages
      <3> QED BY <2>1, <3>1, <3>2 DEF TimerInv, TimerTypes, Stands, TimerTypeOK
    <2>3. \A m : Queued(m) <=> In(msgs, m)
      BY DEF Queued, In
    <2>4. ASSUME NEW i \in 1 .. Len(msgs), NEW j \in 1 .. Len(msgs),
                 msgs[i].type = "remove", msgs[i].timer = msgs[j].timer
          PROVE  j <= i
      <3>1. msgs[i].timer \in Delegates /\ msgs[i] = MsgTimerRemove(msgs[i].timer)
        BY <2>1, <2>4, MessageKinds
      <3>2. msgs[j] \in {MsgTimerPush(msgs[i].timer), MsgTimerRemove(msgs[i].timer)}
        BY <2>1, <2>4, <3>1, MessageKinds
      <3> QED BY <3>1, <3>2 DEF TimerInv, Lives, Orderly
    <2> QED BY <2>2, <2>3, <2>4 DEF TimerInv, Lives, Stands, DelegateLifetime
  <1> QED BY <1>1, TimerInvariance, PTL

(* A timer in the heap is never forgotten, although the poll thread and the *)
(* task share the timerfd and its place in the epoll set without a lock    *)
(* (LocTimerContainer::expire(), updateSoonestTime()).                     *)
THEOREM TimersRemembered == TimerSpec => []NeverForgotten
  <1>1. TimerInv => NeverForgotten
    BY DEF TimerInv, Watched, NeverForgotten, Attended, Queued, In
  <1> QED BY <1>1, TimerInvariance, PTL

-----------------------------------------------------------------------------
(* What the clients see of the timers                                      *)
Deadline == [c \in Clients |-> IF mTimer[c] = NULL THEN Never ELSE mFutureTime[mTimer[c]]]
Calling == IF task = "callback" THEN client ELSE NULL

LEMMA ServiceInit == TimerInit => Service!Init
  BY DEF TimerInit, Service!Init

LEMMA SameService ==
    ASSUME TimerTypes,
           UNCHANGED <<now, mTimer>>,
           \A c \in Clients : mTimer[c] # NULL => mFutureTime'[mTimer[c]] = mFutureTime[mTimer[c]],
           Calling' = Calling
    PROVE  UNCHANGED Service!vars
  BY DEF Calling, Service!vars

LEMMA ServiceStops ==
    ASSUME TimerInv, NEW c \in Clients, StopTimer(c), UNCHANGED <<now, mFutureTime>>
    PROVE  /\ Deadline' = [Deadline EXCEPT ![c] = Never]
           /\ Deadline[c] # Never
  <1>1. mTimer' = [mTimer EXCEPT ![c] = NULL] /\ mTimer[c] \in Delegates /\ mTimer[c] # NULL
    BY DEF StopTimer, TimerInv, TimerTypes
  <1>2. mFutureTime[mTimer[c]] \in Times
    BY <1>1 DEF TimerInv, TimerTypes
  <1>3. Deadline[c] \in Times /\ Never \notin Times
    BY <1>1, <1>2, TimerAssumption DEF Deadline, Times, Never
  <1>4. \A b \in Clients : mTimer'[b] = IF b = c THEN NULL ELSE mTimer[b]
    BY <1>1 DEF TimerInv, TimerTypes
  <1>5. \A b \in Clients : Deadline'[b] = IF b = c THEN Never ELSE Deadline[b]
    BY <1>4 DEF Deadline
  <1>6. Deadline = [b \in Clients |-> Deadline[b]] /\ Deadline' = [b \in Clients |-> Deadline'[b]]
    BY DEF Deadline
  <1> HIDE DEF Deadline
  <1> QED BY <1>3, <1>5, <1>6

LEMMA ServiceMoves ==
    /\ \A b \in Clients : (Service!Stop(b) => Service!Next) /\ (Service!Fire(b) => Service!Next)
    /\ \A b \in Clients, t \in 0 .. Never - 1 : Service!Start(b, t) => Service!Next
    /\ (Service!Return => Service!Next) /\ (Service!Tick => Service!Next)
  BY DEF Service!Next

LEMMA ServiceNext == TimerInv /\ [TimerNext]_timerVars => [Service!Next]_(Service!vars)
  <1> SUFFICES ASSUME TimerInv, [TimerNext]_timerVars PROVE [Service!Next]_(Service!vars)
    OBVIOUS
  <1>t. TimerTypes
    BY DEF TimerInv
  <1>1. ASSUME NEW c \in Clients, NEW delay \in Delays, start(c, delay) PROVE Service!Next
    <2> DEFINE unborn == {d \in Delegates : life[d] = "unborn"}
               d == CHOOSE e \in unborn : TRUE
               time == now + delay
    <2>1. /\ mTimer[c] = NULL /\ time <= MaxTime /\ d \in Delegates /\ life[d] = "unborn"
          /\ mFutureTime' = [mFutureTime EXCEPT ![d] = time]
          /\ mTimer' = [mTimer EXCEPT ![c] = d]
          /\ now' = now /\ task' = task /\ client' = client
      BY <1>1 DEF start, taskVars
    <2>2. \A e \in Clients : mTimer[e] # d
      BY <2>1 DEF TimerInv, Lives
    <2>3. time \in now .. Never - 1 /\ time \in 0 .. Never - 1
      BY <2>1, <1>t, TimerAssumption DEF TimerTypes, Times, Never
    <2>4. d # NULL
      BY <2>1, MessagesDiffer
    <2> HIDE DEF d, time
    <2>5. \A e \in Clients : Deadline'[e] = IF e = c THEN time ELSE Deadline[e]
      BY <1>t, <2>1, <2>2, <2>4 DEF TimerTypes, Deadline
    <2>d. Deadline = [b \in Clients |-> Deadline[b]] /\ Deadline' = [b \in Clients |-> Deadline'[b]]
      BY DEF Deadline
    <2>6. Deadline' = [Deadline EXCEPT ![c] = time] /\ Deadline[c] = Never
      <3>1. Deadline[c] = Never
        BY <2>1 DEF Deadline
      <3> QED BY <2>5, <2>d, <3>1
    <2>7. PICK t \in 0 .. Never - 1 : t = time
      BY <2>3
    <2>8. Service!Start(c, t)
      BY <2>1, <2>3, <2>6, <2>7 DEF Service!Start, Deadline
    <2> QED BY <2>8, ServiceMoves
  <1>2. ASSUME NEW c \in Clients, stop(c) \/ Delete(c) PROVE [Service!Next]_(Service!vars)
    <2>1. /\ UNCHANGED <<now, mFutureTime, task, client>>
          /\ StopTimer(c) \/ UNCHANGED mTimer
      BY <1>2 DEF stop, Delete, taskVars
    <2>2. CASE StopTimer(c)
      <3>1. Deadline' = [Deadline EXCEPT ![c] = Never]
        BY <2>1, <2>2, ServiceStops
      <3>2. Service!Stop(c)
        BY <2>1, <3>1 DEF Service!Stop, Deadline
      <3> QED BY <3>2, ServiceMoves
    <2>3. CASE UNCHANGED mTimer
      BY <2>1, <2>3, <1>t, SameService DEF Calling
    <2> QED BY <2>1, <2>2, <2>3
  <1>3. CASE StopClient
    <2>1. /\ UNCHANGED <<now, mFutureTime>> /\ task = "stop" /\ client \in Clients
      BY <1>3 DEF StopClient, TimerInv, Stands
    <2>2. CASE StopTimer(client) /\ task' = "callback" /\ UNCHANGED client
      <3>1. Deadline' = [Deadline EXCEPT ![client] = Never] /\ Deadline[client] # Never
        BY <2>1, <2>2, ServiceStops
      <3>2. PICK c \in Clients : c = client
        BY <2>1
      <3>3. Service!Fire(c)
        BY <2>1, <2>2, <3>1, <3>2 DEF Service!Fire, Deadline
      <3> QED BY <3>3, ServiceMoves
    <2>3. CASE task' = "next" /\ UNCHANGED mTimer
      BY <2>1, <2>3, <1>t, SameService DEF Calling
    <2> QED BY <1>3, <2>2, <2>3 DEF StopClient
  <1>4. CASE CallbackReturns
    <2>1. /\ UNCHANGED <<now, mFutureTime, mTimer>> /\ task = "callback" /\ task' = "next"
          /\ client # NULL
      BY <1>4, TimerAssumption DEF CallbackReturns, clientVars, TimerInv, Stands
    <2>2. Service!Return
      BY <2>1 DEF Service!Return
    <2> QED BY <2>2, ServiceMoves
  <1>5. CASE RemoveProc
    <2> DEFINE d == Head(msgs).timer
    <2>1. /\ UNCHANGED <<now, mTimer>> /\ Receive("remove")
          /\ mFutureTime' = [mFutureTime EXCEPT ![d] = 0]
          /\ task' # "callback"
      BY <1>5 DEF RemoveProc, clientVars, Update
    <2>2. /\ task = "idle" /\ Head(msgs).type = "remove" /\ Head(msgs) \in Messages
          /\ \A x : In(msgs, x) <=> In(msgs', x) \/ x = Head(msgs)
      BY <2>1, Taken
    <2>3. d \in Delegates /\ In(msgs, MsgTimerRemove(d))
      BY <2>2, MessageKinds
    <2> HIDE DEF d
    <2>4. \A c \in Clients : mTimer[c] # NULL => mTimer[c] # d /\ mTimer[c] \in Delegates
      BY <2>3, <1>t DEF TimerInv, TimerTypes, Lives
    <2>5. \A c \in Clients : mTimer[c] # NULL => mFutureTime'[mTimer[c]] = mFutureTime[mTimer[c]]
      BY <2>1, <2>4, <1>t DEF TimerTypes
    <2>6. Calling' = Calling
      BY <2>1, <2>2 DEF Calling
    <2> QED BY <2>1, <2>5, <2>6, <1>t, SameService
  <1>6. CASE PushProc \/ ExpireProc \/ ReadClient \/ PopNext \/ AddPoll \/ SetTime
    <2>1. UNCHANGED <<now, mTimer, mFutureTime>>
      BY <1>6 DEF PushProc, ExpireProc, ReadClient, PopNext, AddPoll, SetTime, clientVars
    <2>2. task # "callback" /\ task' # "callback"
      BY <1>6 DEF PushProc, ExpireProc, ReadClient, PopNext, AddPoll, SetTime, Receive, Update, Pop
    <2> QED BY <2>1, <2>2, <1>t, SameService DEF Calling
  <1>7. CASE PollStep \/ UNCHANGED timerVars
    BY <1>7, <1>t, SameService DEF PollStep, PollUnchanged, timerVars, clientVars, taskVars, Calling
  <1>8. CASE Tick
    <2>1. Service!Tick
      BY <1>8 DEF Tick, clientVars, taskVars, Service!Tick
    <2> QED BY <2>1, ServiceMoves
  <1> QED BY <1>1, <1>2, <1>3, <1>4, <1>5, <1>6, <1>7, <1>8 DEF TimerNext, TaskStep

(* The timers do what TimerService promises of each step: a running timer  *)
(* ends by one stop() or one callback, never both, and callbacks are made  *)
(* one at a time.                                                          *)
THEOREM ServiceImplemented == TimerSpec => Service!Safe
  BY InitTimerInv, TimersKeep, ServiceInit, ServiceNext, PTL DEF TimerSpec, Service!Safe
=============================================================================
