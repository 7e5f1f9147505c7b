------------------------------ MODULE DaemonConn -------------------------------
(***************************************************************************)
(* The server through which other processes ask the HAL for a data         *)
(* connection (loc_eng_dmn_conn.cpp, its handler, the two glue layers over  *)
(* named pipes and the thread helper).  Whoever launches the server waits   *)
(* until its thread has opened the pipes; the thread reads a header, then   *)
(* the body it announces, and queues the request for the message task.     *)
(* There the GPSone daemon becomes a subscriber of an AGPS interface, and   *)
(* is answered on its pipe as the interface is granted or lost; a request   *)
(* of a wifi client is refused to the modem.  To stop the server, the owner *)
(* raises thread_exit, writes a message to wake the thread, and joins it.   *)
(*                                                                         *)
(* External are the owner, the framework, and the clients, whose writes are *)
(* no longer than PIPE_BUF and so are never interleaved.  The interfaces    *)
(* exist before the server, and the modem, whose requests LocEngAgps        *)
(* models, uses none of them; but it may restart, and then every interface *)
(* drops its subscribers.                                                  *)
(***************************************************************************)
EXTENDS Naturals, Sequences, SequencesExt

CONSTANTS
    Request,        \* the requests and releases clients may write
    MaxSends,       \* bound: messages of the clients, in one launch
    MaxLaunches,    \* bound: launches of the server
    MaxFaults       \* bound: reads, opens, threads that fail, stray wake-ups

Wifi == {"QUIPC", "MSAPM", "MSAPU"}
KnownSenders == Wifi \cup {"GPSONE_DAEMON"}
Senders == KnownSenders \cup {"MODEM"}
KnownTypes == {"SUPL", "WIFI", "ANY"}

ASSUME DaemonConnAssumption ==
    /\ \A m \in Request : m.ctrl \in {"REQUEST", "RELEASE"} /\ m.sender \in Senders
    /\ MaxSends \in Nat /\ MaxLaunches \in Nat /\ MaxFaults \in Nat

VARIABLES
    owner,          \* what the owner of the server does next
    thread_ready,
    thread_exit,
    thread,         \* what the thread of the server does next
    open,           \* the pipes are open, and clients find them
    pipe,           \* the headers and bodies in the pipe of the server
    header,         \* the message whose header the thread has read
    sent,           \* history: the messages written to the pipe
    taken,          \* history: the messages the thread has read
    engine,         \* the requests queued for the message task
    machine,        \* of each interface, its state and its subscribers
    refused,        \* external: the senders the modem was told were refused
    told,           \* external: the last response about an interface and address:
                    \* granted, no (none yet, failed or released), or lost
    dropped,        \* history: the addresses an interface dropped since that
    launches,
    stray,          \* history: a launch was woken by nothing
    faults

ownerVars == <<owner, launches, stray>>
flagVars == <<thread_ready, thread_exit>>
readVars == <<header, taken>>
pipeVars == <<open, pipe, sent>>
toldVars == <<told, dropped>>
engineVars == <<engine, machine, refused, toldVars>>
vars == <<ownerVars, flagVars, thread, readVars, pipeVars, engineVars, faults>>

None == [ctrl |-> "NONE"]
Unblock == [ctrl |-> "UNBLOCK"]
TooLong == [ctrl |-> "TOO LONG"]        \* announces more than the buffer holds
Addresses == {m.addr : m \in Request}

(* getAgpsStateMachine(): the interface of a type                          *)
Nifs == {"agnss", "internet"}
NifOf(type) == IF type = "SUPL" THEN "agnss" ELSE "internet"

Init ==
    /\ owner = "idle" /\ launches = 0 /\ stray = FALSE
    /\ thread_ready = FALSE /\ thread_exit = FALSE
    /\ thread = "none"
    /\ header = None /\ taken = <<>>
    /\ open = FALSE /\ pipe = <<>> /\ sent = <<>>
    /\ engine = <<>> /\ refused = {}
    /\ machine = [n \in Nifs |-> [state |-> "released", subscribers |-> {}]]
    /\ told = [n \in Nifs |-> [a \in Addresses |-> "no"]]
    /\ dropped = [n \in Nifs |-> {}]
    /\ faults = 0

Fault == faults < MaxFaults /\ faults' = faults + 1

(* loc_eng_dmn_conn_glue_msgsnd(): one write *)
msgsnd(m) ==
    /\ pipe' = pipe \o <<[part |-> "header", msg |-> m], [part |-> "body", msg |-> m]>>
    /\ sent' = Append(sent, m)

-----------------------------------------------------------------------------
(* The owner: launch, unblock, join                                        *)

thelper_signal_init == thread_exit' = FALSE /\ thread_ready' = FALSE

(* There may be no thread: pthread_create() says so, create_thread_cb()     *)
(* does not, and the launch goes on to wait                                *)
launch_thelper ==
    /\ owner = "idle" /\ launches < MaxLaunches
    /\ launches' = launches + 1
    /\ thelper_signal_init
    /\ \/ owner' = "wait" /\ thread' = "init" /\ UNCHANGED faults
       \/ Fault /\ owner' \in {"idle", "wait"} /\ UNCHANGED thread
    /\ UNCHANGED <<stray, readVars, pipeVars, engineVars>>

(* An if, not a loop *)
thelper_signal_wait ==
    /\ owner = "wait"
    /\ owner' = IF ~thread_ready /\ ~thread_exit THEN "waiting" ELSE "woken"
    /\ UNCHANGED <<launches, stray, flagVars, thread, readVars, pipeVars, engineVars, faults>>

StrayWakeup ==
    /\ owner = "waiting" /\ Fault
    /\ owner' = "woken" /\ stray' = TRUE
    /\ UNCHANGED <<launches, flagVars, thread, readVars, pipeVars, engineVars>>

(* The launch has failed if the thread has given up by now *)
Launched ==
    /\ owner = "woken"
    /\ owner' = IF thread_exit THEN "failed" ELSE "serving"
    /\ UNCHANGED <<launches, stray, flagVars, thread, readVars, pipeVars, engineVars, faults>>

unblock_proc == IF open THEN msgsnd(Unblock) ELSE UNCHANGED <<pipe, sent>>

UnblockMessageFirst ==
    \/ /\ owner = "serving"
       /\ owner' = "unblock"
       /\ unblock_proc
       /\ UNCHANGED thread_exit
    \/ /\ owner = "unblock"
       /\ owner' = "join"
       /\ thread_exit' = TRUE
       /\ UNCHANGED <<pipe, sent>>

(* The flag first: the thread that reads the message must find it raised *)
server_unblock ==
    \/ /\ owner = "serving"
       /\ owner' = "unblock"
       /\ thread_exit' = TRUE
       /\ UNCHANGED <<pipe, sent>>
    \/ /\ owner = "unblock"
       /\ owner' = "join"
       /\ unblock_proc
       /\ UNCHANGED thread_exit

Stop ==
    /\ server_unblock
    /\ UNCHANGED <<launches, stray, thread_ready, thread, readVars, open, engineVars, faults>>

(* The join of a thread that is not there returns at once                  *)
join_thelper ==
    /\ owner = "join" /\ thread \in {"none", "done"}
    /\ owner' = "idle" /\ thread' = "none"
    /\ UNCHANGED <<launches, stray, flagVars, readVars, pipeVars, engineVars, faults>>

-----------------------------------------------------------------------------
(* The thread: thelper_main()                                              *)

(* loc_api_server_proc_init() succeeds whether the pipes open or not *)
proc_init ==
    /\ thread = "init"
    /\ thread' = "ready"
    /\ \/ open' = TRUE /\ UNCHANGED faults
       \/ Fault /\ UNCHANGED open
    /\ UNCHANGED <<ownerVars, flagVars, readVars, pipe, sent, engineVars>>

thelper_signal_ready ==
    /\ thread = "ready"
    /\ thread_ready' = TRUE
    /\ owner' = IF owner = "waiting" THEN "woken" ELSE owner
    /\ thread' = "header"
    /\ UNCHANGED <<launches, stray, thread_exit, readVars, pipeVars, engineVars, faults>>

(* The loop looks at thread_exit after every call of the procedure *)
Looped(exit) == thread' = IF exit THEN "post" ELSE "header"

FailedGoesOn == Looped(thread_exit) /\ UNCHANGED thread_exit

(* The procedure failed: no part of a message can be told from another     *)
Failed == thread_exit' = TRUE /\ Looped(TRUE)

(* loc_eng_dmn_conn_glue_msgrcv(): the announced size *)
ReadHeader ==
    /\ thread = "header"
    /\ \/ /\ open /\ pipe # <<>>
          /\ pipe' = Tail(pipe)
          /\ IF Head(pipe).part = "header" /\ Head(pipe).msg # TooLong
               THEN /\ header' = Head(pipe).msg
                    /\ thread' = "body"
                    /\ UNCHANGED thread_exit
               ELSE Failed /\ UNCHANGED header
          /\ UNCHANGED faults
       \/ /\ open /\ Fault
          /\ Failed
          /\ UNCHANGED <<pipe, header>>
       \/ /\ ~open
          /\ Failed
          /\ UNCHANGED <<pipe, header, faults>>
    /\ UNCHANGED <<ownerVars, thread_ready, taken, open, sent, engineVars>>

(* The handlers give the engine what they know; the rest is ignored *)
if_request_handler(m) ==
    IF m.type \in KnownTypes /\ m.sender \in KnownSenders
    THEN engine' = Append(engine, m)
    ELSE UNCHANGED engine

ReadBody ==
    /\ thread = "body"
    /\ \/ /\ pipe # <<>> /\ pipe' = Tail(pipe)
          /\ taken' = Append(taken, header)
          /\ IF header.ctrl = "UNBLOCK" THEN UNCHANGED engine
             ELSE if_request_handler(header)
          /\ Looped(thread_exit) /\ UNCHANGED thread_exit
          /\ UNCHANGED faults
       \/ /\ Fault
          /\ Failed
          /\ UNCHANGED <<pipe, taken, engine>>
    /\ header' = None
    /\ UNCHANGED <<ownerVars, thread_ready, open, sent, machine, refused, toldVars>>

(* The pipes are closed and removed, and what is in them is lost *)
proc_post ==
    /\ thread = "post"
    /\ thread' = "done"
    /\ open' = FALSE /\ pipe' = <<>>
    /\ taken' = <<>> /\ sent' = <<>>
    /\ UNCHANGED <<ownerVars, flagVars, header, engineVars, faults>>

-----------------------------------------------------------------------------
(* The message task: the interfaces and their subscribers                  *)

serverVars == <<ownerVars, flagVars, thread, readVars, pipeVars, faults>>

(* loc_eng_dmn_conn_loc_api_server_data_conn(), for each of the addresses: *)
(* a response to the daemon, lost when its pipe is not open                *)
data_conn(n, addresses, status) ==
    /\ told' = [told EXCEPT ![n] = [a \in Addresses |->
                   IF a \in addresses THEN IF open THEN status ELSE "lost"
                   ELSE told[n][a]]]
    /\ dropped' = [dropped EXCEPT ![n] = @ \ addresses]

Becomes(n, state, subscribers) ==
    machine' = [machine EXCEPT ![n] = [state |-> state, subscribers |-> subscribers]]

(* A subscriber of an interface that is there is answered at once          *)
subscribeRsrc(n, a) ==
    LET all == machine[n].subscribers \cup {a}
    IN IF machine[n].state = "acquired"
       THEN Becomes(n, "acquired", all) /\ data_conn(n, {a}, "granted")
       ELSE Becomes(n, "pending", all) /\ UNCHANGED toldVars

(* The last subscriber releases the interface; whoever is none gets no     *)
(* response                                                                *)
unsubscribeRsrc(n, a) ==
    LET rest == machine[n].subscribers \ {a}
    IN IF a \in machine[n].subscribers
       THEN /\ Becomes(n, IF rest = {} THEN "released" ELSE machine[n].state, rest)
            /\ data_conn(n, {a}, "no")
       ELSE UNCHANGED <<machine, toldVars>>

LocEngReqRelBIT(m) ==
    /\ IF m.ctrl = "REQUEST" THEN subscribeRsrc(NifOf(m.type), m.addr)
       ELSE unsubscribeRsrc(NifOf(m.type), m.addr)
    /\ UNCHANGED refused

(* A release is refused like a request                                     *)
LocEngReqRelWifi(m) ==
    /\ refused' = refused \cup {m.sender}
    /\ UNCHANGED <<machine, toldVars>>

Proc ==
    /\ engine # <<>>
    /\ engine' = Tail(engine)
    /\ IF Head(engine).sender \in Wifi THEN LocEngReqRelWifi(Head(engine))
       ELSE LocEngReqRelBIT(Head(engine))
    /\ UNCHANGED serverVars

(* onRsrcEvent(): what the framework says counts in some states only       *)
Granted(n) ==
    /\ machine[n].state = "pending"
    /\ Becomes(n, "acquired", machine[n].subscribers)
    /\ data_conn(n, machine[n].subscribers, "granted")

DeniedKeepsSubscribers(n) ==
    /\ machine[n].state = "pending"
    /\ Becomes(n, "released", machine[n].subscribers)
    /\ data_conn(n, machine[n].subscribers, "no")

Denied(n) ==
    /\ machine[n].state = "pending"
    /\ Becomes(n, "released", {})
    /\ data_conn(n, machine[n].subscribers, "no")

Released(n) ==
    /\ machine[n].state = "acquired"
    /\ Becomes(n, "released", {})
    /\ data_conn(n, machine[n].subscribers, "no")

FrameworkAnswers ==
    /\ \E n \in Nifs : Granted(n) \/ Denied(n) \/ Released(n)
    /\ UNCHANGED <<serverVars, engine, refused>>

(* The modem is back.  The interfaces keep their states, and nobody is told *)
loc_eng_handle_engine_up ==
    /\ machine' = [n \in Nifs |-> [machine[n] EXCEPT !.subscribers = {}]]
    /\ dropped' = [n \in Nifs |-> dropped[n] \cup machine[n].subscribers]
    /\ UNCHANGED <<serverVars, engine, refused, told>>

-----------------------------------------------------------------------------
(* External: the clients                                                   *)

ClientSends ==
    /\ open /\ Len(sent) < MaxSends
    /\ \E m \in Request \cup {TooLong} : msgsnd(m)
    /\ UNCHANGED <<ownerVars, flagVars, thread, readVars, open, engineVars, faults>>

Owner == thelper_signal_wait \/ Launched \/ join_thelper
Server == proc_init \/ thelper_signal_ready \/ ReadHeader \/ ReadBody \/ proc_post

Next ==
    \/ launch_thelper \/ thelper_signal_wait \/ StrayWakeup \/ Launched \/ Stop
    \/ join_thelper
    \/ proc_init \/ thelper_signal_ready \/ ReadHeader \/ ReadBody \/ proc_post
    \/ ClientSends \/ Proc \/ FrameworkAnswers \/ loc_eng_handle_engine_up

(* Threads run, and the owner that began to stop the server goes on *)
Spec ==
    /\ Init /\ [][Next]_vars
    /\ WF_vars(Owner) /\ WF_vars(Server) /\ WF_vars(Stop /\ owner = "unblock")

-----------------------------------------------------------------------------
Steps == {"none", "init", "ready", "header", "body", "post", "done"}

TypeOK ==
    /\ owner \in {"idle", "wait", "waiting", "woken", "serving", "failed", "unblock", "join"}
    /\ thread_ready \in BOOLEAN /\ thread_exit \in BOOLEAN /\ open \in BOOLEAN
    /\ thread \in Steps
    /\ header \in Request \cup {None, Unblock}
    /\ taken \in Seq(Request \cup {Unblock})
    /\ sent \in Seq(Request \cup {Unblock, TooLong})
    /\ engine \in Seq(Request)
    /\ \A n \in Nifs : /\ machine[n].state \in {"released", "pending", "acquired"}
                       /\ machine[n].subscribers \subseteq Addresses
                       /\ dropped[n] \subseteq Addresses
    /\ refused \subseteq Wifi

(* The server reads the messages in the order they were written and skips *)
(* none: it gives up at the first it cannot read whole, and never takes a  *)
(* part of one message for another (msgrcv(), and thelper_main() that ends *)
(* its loop)                                                               *)
HandledInOrder == TypeOK /\ IsPrefix(taken, sent)

(* What the daemon was last told of an address is so: granted just while    *)
(* its interface is acquired for it, however requests, releases, denials   *)
(* and a connection that is lost cross each other, and an interface is held *)
(* or asked for just while it has subscribers.  Excepted are an answer that *)
(* was lost because the server was down, and subscribers that a restart of  *)
(* the modem dropped, whom nothing tells: until it is next told something, *)
(* such a one may take a connection for granted that is nobody's           *)
(* (BITSubscriber::notifyRsrcStatus(), AgpsStateMachine::onRsrcEvent(),     *)
(* dropAllSubscribers())                                                   *)
ToldWhatHolds ==
    \A n \in Nifs :
        /\ machine[n].state = "released" => machine[n].subscribers = {}
        /\ machine[n].state # "released" /\ machine[n].subscribers = {} => dropped[n] # {}
        /\ \A a \in Addresses :
             LET held == a \in machine[n].subscribers /\ machine[n].state = "acquired"
             IN /\ told[n][a] = "granted" => held \/ a \in dropped[n]
                /\ held => told[n][a] \in {"granted", "lost"}

(* A call to launch or to stop the server returns: the owner misses        *)
(* neither the signal that the thread is ready nor its end, although the    *)
(* thread may be ready before the wait, fail at any read, or sit in a read  *)
(* of an empty pipe when it is to stop.  Two things break this: a wake-up   *)
(* that nobody signalled, and a thread that create_thread_cb() did not      *)
(* create, for which the launch waits for good (thelper_signal_wait())     *)
CallsReturn ==
    []<>(\/ owner \in {"idle", "serving", "failed"} \/ stray
         \/ owner = "waiting" /\ thread = "none")
=============================================================================
