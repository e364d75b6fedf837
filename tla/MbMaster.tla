------------------------------- MODULE MbMaster -------------------------------
(***************************************************************************)
(* The serial master: the poll task (mb_master.c:617-785), the event       *)
(* object (port_event.c), the timer and its callback (port_timer.c,        *)
(* rtu_master.c:238-271; ascii_master.c has the same), the UART task       *)
(* (port_serial.c:136-204), and the calling task in mbm_rq_xxx             *)
(* (mbfuncother.c:62-82 and its like).  The callers are serialised by      *)
(* mbm_sema, so one calling task stands for all of them.                   *)
(*                                                                         *)
(* A transaction is named by the number of its request; the code names it  *)
(* by the time stamp of its EV_TRANS_START, with 0 for none.  A frame is   *)
(* the number of the request it answers, or Bad for one that is damaged,   *)
(* from another slave or of another function.                              *)
(***************************************************************************)
EXTENDS Integers, Sequences

CONSTANTS MaxReq,       (* bound: the requests issued                       *)
          MaxStops,     (* bound: how often the master is stopped           *)
          MaxFaults,    (* bound: bad frames on the wire and stops together *)
          LongTimeout,  (* the response time exceeds the 3000 ms of         *)
                        (* MB_EVENT_QUEUE_TIMEOUT_MAX                       *)
          Race,         (* frames may come at or after the response timeout *)
                        (* and more than one per request                    *)
          SlowT35       (* a request may be sent while the callback of the  *)
                        (* T35 timer of the start is under way              *)

ASSUME MasterAssumption ==
    /\ MaxReq \in Nat /\ MaxStops \in Nat /\ MaxFaults \in Nat
    /\ {LongTimeout, Race, SlowT35} \subseteq BOOLEAN

Bad == 0

VARIABLES enabled,   (* cur_state is STATE_ENABLED                          *)
          queue,     (* event_hdl                                           *)
          errType,   (* curr_err_type                                       *)
          flags,     (* the bits of event_group_hdl                         *)
          resFree,   (* the semaphore resource_hdl                          *)
          evTrans,   (* curr_trans_id of the event object                   *)
          curTrans,  (* curr_trans_id of the master object                  *)
          frameBcast,(* frame_is_broadcast of the transport                 *)
          rcvFrame,  (* what is in the receive buffer                       *)
          armed,     (* the timer runs                                      *)
          mode,      (* timer_mode                                          *)
          cb,        (* where the timer callback is                         *)
          cbMode,    (* the timer mode it has read                          *)
          pollPc,    (* where the poll task is                              *)
          reqPc,     (* where the calling task is                           *)
          n,         (* the request it has made last                        *)
          bcast,     (* whether this one is a broadcast                     *)
          outcome,   (* what its last call returned                         *)
          done,      (* history: the requests executed with their own data  *)
          wire       (* the wire: requests sent and answered, bad frames;   *)
                     (* and how often the master was stopped                *)

core == <<errType, flags, resFree, evTrans, curTrans>>
timer == <<armed, mode, cb, cbMode>>
caller == <<reqPc, n, bcast, outcome>>
vars == <<enabled, queue, core, frameBcast, rcvFrame, timer, pollPc, caller, done, wire>>

ErrTypes == {"OK", "TIMEOUT", "RECV", "EXEC"}
Event(e) == [ev |-> e, frame |-> Bad]
Has(q, e) == \E i \in DOMAIN q : q[i].ev = e
Queued(e) == Has(queue, e)

-------------------------------------------------------------------------------
(* mb_port_event_post on a queue that has room: within the bounds fewer    *)
(* events are under way than CONFIG_FMB_QUEUE_LENGTH, which is 10 or more. *)

PostTo(q, e) == Append(q, e)

-------------------------------------------------------------------------------
(* The poll task.  One step is the handling of one event, up to the places *)
(* where another task's step between two accesses makes a difference.      *)

PollFrame == <<enabled, evTrans, mode, cb, cbMode, caller>>

\* The task goes on to wait for the next event while the master runs.  A stop
\* finds it in the wait, or makes it stay out of it.
Loop == IF enabled THEN "get" ELSE "idle"

\* mbm_poll is entered; mb_port_event_get waits for an event.
PollEnter == /\ pollPc = "idle" /\ enabled
             /\ pollPc' = "get"
             /\ UNCHANGED <<enabled, queue, core, frameBcast, rcvFrame, timer, caller, done, wire>>

\* No event for 3000 ms, and meanwhile the master was stopped.
PollIdle == /\ pollPc = "get" /\ queue = <<>> /\ ~enabled
            /\ pollPc' = "idle"
            /\ UNCHANGED <<enabled, queue, core, frameBcast, rcvFrame, timer, caller, done, wire>>

Get(e) == pollPc = "get" /\ queue # <<>> /\ Head(queue).ev = e

\* EV_READY
PollReady == /\ Get("READY")
             /\ queue' = Tail(queue)
             /\ resFree' = TRUE
             /\ pollPc' = Loop
             /\ UNCHANGED <<errType, flags, curTrans, frameBcast, rcvFrame, armed, done, wire, PollFrame>>

\* EV_FRAME_TRANSMIT.  Sending flushes what was received and not yet read, so
\* that the events queued for it find nothing.  A port that is disabled sends and
\* flushes nothing, and reports success all the same.
Flushed(q) == [i \in DOMAIN q |-> [q[i] EXCEPT !.frame = Bad]]

SendData(q) == IF enabled THEN Flushed(q) ELSE q

StartTimer(m) == mode' = m /\ armed' = TRUE

\* A broadcast starts the timer of the convert delay, any other request that of
\* the response.
SendFrame == /\ frameBcast' = bcast
             /\ StartTimer(IF bcast THEN "CONV" ELSE "RESP")
             /\ wire' = [wire EXCEPT !.sent = IF bcast \/ ~enabled THEN @ ELSE @ \cup {n}]

PollTransmitSent ==
    /\ Get("TRANSMIT")
    /\ SlowT35 \/ ~(cb = "read" /\ cbMode = "T35")
    /\ SendFrame
    /\ queue' = PostTo(SendData(Tail(queue)), Event("SENT"))
    /\ curTrans' = evTrans
    /\ pollPc' = Loop
    /\ UNCHANGED <<enabled, errType, flags, resFree, evTrans, rcvFrame, cb, cbMode, caller, done>>

\* A mutant of PollTransmitFailed: the error of frm_send is only logged.
PollTransmitFailedIgnored ==
    /\ Get("TRANSMIT")
    /\ queue' = Tail(queue)
    /\ curTrans' = evTrans
    /\ pollPc' = Loop
    /\ UNCHANGED <<errType, flags, resFree, frameBcast, rcvFrame, armed, done, wire, PollFrame>>

PollTransmitFailed ==
    /\ Get("TRANSMIT")
    /\ queue' = PostTo(Tail(queue), Event("ERROR"))
    /\ errType' = "TIMEOUT"
    /\ curTrans' = evTrans
    /\ pollPc' = Loop
    /\ UNCHANGED <<flags, resFree, frameBcast, rcvFrame, armed, done, wire, PollFrame>>

\* EV_FRAME_SENT
PollSent == /\ Get("SENT")
            /\ queue' = Tail(queue)
            /\ pollPc' = Loop
            /\ UNCHANGED <<errType, flags, resFree, curTrans, frameBcast, rcvFrame, armed, done, wire, PollFrame>>

\* A mutant of PollReceived: the status of frm_rcv is not looked at.
PollReceivedUnchecked ==
    /\ Get("RECEIVED")
    /\ rcvFrame' \in IF Head(queue).frame = Bad THEN {Bad, rcvFrame} ELSE {Head(queue).frame}
    /\ IF evTrans = curTrans /\ evTrans # 0
       THEN queue' = PostTo(Tail(queue), Event("EXECUTE")) /\ armed' = FALSE
       ELSE queue' = Tail(queue) /\ UNCHANGED armed
    /\ pollPc' = Loop
    /\ UNCHANGED <<errType, flags, resFree, curTrans, frameBcast, done, wire, PollFrame>>

\* EV_FRAME_RECEIVED.  What mb_port_ser_recv_data makes of a frame: a port that
\* is disabled leaves the buffer alone and reports success, so that the frame in
\* it is taken for the new one if their lengths agree.
RecvData(f) == IF enabled THEN {f} ELSE {rcvFrame, Bad}

\* The receive buffer then: a bad frame overwrites it at least in part.
Buffer(f) == IF f = Bad THEN {Bad, rcvFrame} ELSE {f}

\* The frame is read before the transaction is compared.
PollReceived ==
    /\ Get("RECEIVED")
    /\ \E f \in RecvData(Head(queue).frame) :
           /\ rcvFrame' \in Buffer(f)
           /\ \/ /\ evTrans # curTrans \/ evTrans = 0
                 /\ queue' = Tail(queue)
                 /\ UNCHANGED <<errType, armed>>
              \/ /\ evTrans = curTrans /\ evTrans # 0 /\ f # Bad /\ ~bcast
                 /\ queue' = PostTo(Tail(queue), Event("EXECUTE"))
                 /\ armed' = FALSE
                 /\ UNCHANGED errType
              \/ /\ evTrans = curTrans /\ evTrans # 0 /\ (f = Bad \/ bcast)
                 /\ queue' = PostTo(Tail(queue), Event("ERROR"))
                 /\ armed' = FALSE
                 /\ errType' = "RECV"
    /\ pollPc' = Loop
    /\ UNCHANGED <<flags, resFree, curTrans, frameBcast, done, wire, PollFrame>>

\* EV_EXECUTE of another transaction.
PollExecuteExpired ==
    /\ Get("EXECUTE") /\ evTrans # curTrans
    /\ queue' = PostTo(Tail(queue), Event("ERROR"))
    /\ errType' = "EXEC"
    /\ pollPc' = Loop
    /\ UNCHANGED <<flags, resFree, curTrans, frameBcast, rcvFrame, armed, done, wire, PollFrame>>

\* EV_EXECUTE.  A broadcast executes the request itself.
Executed == IF frameBcast THEN n ELSE rcvFrame

PollExecuteException ==
    /\ Get("EXECUTE") /\ evTrans = curTrans
    /\ rcvFrame' = Executed
    /\ queue' = PostTo(Tail(queue), Event("ERROR"))
    /\ errType' = "EXEC"
    /\ pollPc' = Loop
    /\ UNCHANGED <<flags, resFree, curTrans, frameBcast, armed, done, wire, PollFrame>>

PollExecuteOk ==
    /\ Get("EXECUTE") /\ evTrans = curTrans
    /\ rcvFrame' = Executed
    /\ queue' = Tail(queue)
    /\ done' = done \cup {Executed}
    /\ pollPc' = IF errType = "INIT" THEN "ok" ELSE Loop
    /\ UNCHANGED <<errType, flags, resFree, curTrans, frameBcast, armed, wire, PollFrame>>

\* ... and, no error being set when it looked, announces the success.
PollExecuteDone ==
    /\ pollPc = "ok"
    /\ errType' = "OK"
    /\ queue' = PostTo(queue, Event("ERROR"))
    /\ pollPc' = Loop
    /\ UNCHANGED <<flags, resFree, curTrans, frameBcast, rcvFrame, armed, done, wire, PollFrame>>

\* A mutant of PollError: every error type sets its flag, EV_ERROR_INIT too.
PollErrorAnyType ==
    /\ Get("ERROR")
    /\ queue' = Tail(queue)
    /\ armed' = FALSE
    /\ flags' = flags \cup {errType}
    /\ pollPc' = "err"
    /\ UNCHANGED <<errType, resFree, curTrans, frameBcast, rcvFrame, done, wire, PollFrame>>

\* EV_ERROR_PROCESS: the timer is stopped and the flag of the error is set ...
PollError ==
    /\ Get("ERROR")
    /\ queue' = Tail(queue)
    /\ armed' = FALSE
    /\ flags' = flags \cup ({errType} \ {"INIT"})
    /\ pollPc' = "err"
    /\ UNCHANGED <<errType, resFree, curTrans, frameBcast, rcvFrame, done, wire, PollFrame>>

\* Mutants of PollErrorEnd: the error is not reset, the resource not released.
PollErrorKeepsType ==
    /\ pollPc = "err"
    /\ curTrans' = 0
    /\ resFree' = TRUE
    /\ pollPc' = Loop
    /\ UNCHANGED <<queue, errType, flags, frameBcast, rcvFrame, armed, done, wire, PollFrame>>

PollErrorHolds ==
    /\ pollPc = "err"
    /\ errType' = "INIT"
    /\ curTrans' = 0
    /\ pollPc' = Loop
    /\ UNCHANGED <<queue, flags, resFree, frameBcast, rcvFrame, armed, done, wire, PollFrame>>

\* ... and then the transaction is closed.
PollErrorEnd ==
    /\ pollPc = "err"
    /\ errType' = "INIT"
    /\ curTrans' = 0
    /\ resFree' = TRUE
    /\ pollPc' = Loop
    /\ UNCHANGED <<queue, flags, frameBcast, rcvFrame, armed, done, wire, PollFrame>>

PollEvent == \/ PollIdle \/ PollReady \/ PollTransmitSent \/ PollTransmitFailed
             \/ PollSent \/ PollReceived \/ PollExecuteExpired
             \/ PollExecuteException \/ PollExecuteOk \/ PollExecuteDone
             \/ PollError \/ PollErrorEnd

Poll == PollEnter \/ PollEvent

-------------------------------------------------------------------------------
(* The timer and its callback, which runs in the timer task or in an       *)
(* interrupt while the other tasks go on.  Stopping the timer does not     *)
(* stop a callback that runs already.                                      *)

TimerFrame == <<enabled, flags, resFree, evTrans, curTrans, frameBcast, rcvFrame,
                mode, pollPc, caller, done, wire>>

\* The alarm.  Without Race the response time is never up for a request that is
\* answered.
TimerAlarm ==
    /\ armed /\ cb = "idle"
    /\ Race \/ mode # "RESP" \/ n \notin wire.answered
    /\ armed' = FALSE
    /\ cb' = "fired"
    /\ UNCHANGED <<queue, errType, cbMode, TimerFrame>>

\* xxx_transp_timer_expired reads the mode ...
TimerRead == /\ cb = "fired"
             /\ cb' = "read"
             /\ cbMode' = mode
             /\ UNCHANGED <<queue, errType, armed, TimerFrame>>

\* ... stops the timer, whatever it has been started for meanwhile ...
TimerStop == /\ cb = "read"
             /\ cb' = CASE cbMode = "T35" -> "idle"
                        [] cbMode = "RESP" -> "stopped"
                        [] cbMode = "CONV" -> "post"
             /\ armed' = FALSE
             /\ UNCHANGED <<queue, errType, cbMode, TimerFrame>>

\* ... and in the case of a response timeout sets the error ...
TimerSetErr == /\ cb = "stopped"
               /\ cb' = "post"
               /\ errType' = "TIMEOUT"
               /\ UNCHANGED <<queue, armed, cbMode, TimerFrame>>

\* ... before it posts its event.
TimerPost == /\ cb = "post"
             /\ cb' = "idle"
             /\ queue' = PostTo(queue, Event(IF cbMode = "CONV" THEN "EXECUTE" ELSE "ERROR"))
             /\ UNCHANGED <<errType, armed, cbMode, TimerFrame>>

TimerCallback == TimerRead \/ TimerStop \/ TimerSetErr \/ TimerPost

-------------------------------------------------------------------------------
(* The UART task.  Without Race the slave answers once, in time, or stays  *)
(* silent.                                                                 *)

UartFrame == <<enabled, core, frameBcast, rcvFrame, timer, pollPc, caller, done>>

InTime == armed /\ mode = "RESP" /\ cb = "idle" /\ n \notin wire.answered

\* The answer of a slave.
UartAnswer(k) ==
    /\ enabled /\ k \in wire.sent \ wire.answered
    /\ Race \/ (InTime /\ k = n)
    /\ queue' = PostTo(queue, [ev |-> "RECEIVED", frame |-> k])
    /\ wire' = [wire EXCEPT !.answered = @ \cup {k}]
    /\ UNCHANGED UartFrame

\* A frame that is damaged or from elsewhere.
UartBad ==
    /\ enabled /\ wire.bad + wire.stops < MaxFaults
    /\ Race \/ InTime
    /\ queue' = PostTo(queue, [ev |-> "RECEIVED", frame |-> Bad])
    /\ wire' = [wire EXCEPT !.bad = @ + 1,
                        !.answered = IF Race THEN @ ELSE @ \cup {n}]
    /\ UNCHANGED UartFrame

-------------------------------------------------------------------------------
(* The calling task, in mbm_rq_xxx.  It has found the controller active    *)
(* (esp_modbus_master.c:190) at some earlier time: it may be stopped by    *)
(* now.                                                                    *)

CallerFrame == <<enabled, errType, curTrans, frameBcast, rcvFrame, timer, pollPc, done, wire>>

\* The resource is taken, the request is built, and mb_port_event_post of
\* EV_TRANS_START stores its time stamp ...
CallTake == /\ reqPc = "idle" /\ n < MaxReq /\ resFree
            /\ resFree' = FALSE
            /\ n' = n + 1
            /\ bcast' \in BOOLEAN
            /\ evTrans' = n + 1
            /\ outcome' = "none"
            /\ reqPc' = "post"
            /\ UNCHANGED <<queue, flags, CallerFrame>>

\* The resource does not become free in time.
CallBusy == /\ reqPc = "idle" /\ ~resFree
            /\ outcome' = "EBUSY"
            /\ UNCHANGED <<queue, flags, resFree, evTrans, reqPc, n, bcast, CallerFrame>>

\* ... before the event is in the queue.
CallPost == /\ reqPc = "post"
            /\ queue' = PostTo(queue, Event("TRANSMIT"))
            /\ reqPc' = "wait"
            /\ UNCHANGED <<flags, resFree, evTrans, n, bcast, outcome, CallerFrame>>

\* mb_port_event_wait_req_finish: the outcome by the priority of the flags.
Result(f) == CASE "OK" \in f -> "ENOERR"
               [] "TIMEOUT" \in f /\ "OK" \notin f -> "ETIMEDOUT"
               [] "RECV" \in f /\ f \cap {"OK", "TIMEOUT"} = {} -> "ERECVDATA"
               [] f = {"EXEC"} -> "EILLFUNC"

\* A mutant of CallReturn: the flags are not cleared on return.
CallReturnKeepsFlags ==
    /\ reqPc = "wait" /\ flags # {}
    /\ outcome' = Result(flags)
    /\ reqPc' = "idle"
    /\ UNCHANGED <<queue, flags, resFree, evTrans, n, bcast, CallerFrame>>

CallReturn == /\ reqPc = "wait" /\ flags # {}
              /\ outcome' = Result(flags)
              /\ flags' = {}
              /\ reqPc' = "idle"
              /\ UNCHANGED <<queue, resFree, evTrans, n, bcast, CallerFrame>>

\* Nothing will set a flag within the next 3000 ms, or the response time is
\* longer than that.
NoFlagSoon == \/ LongTimeout \/ ~enabled
              \/ queue = <<>> /\ ~armed /\ cb = "idle" /\ pollPc = "get"

\* No flag for 3000 ms.
CallGiveUp == /\ reqPc = "wait" /\ flags = {} /\ NoFlagSoon
              /\ outcome' = "ETIMEDOUT"
              /\ reqPc' = "idle"
              /\ UNCHANGED <<queue, flags, resFree, evTrans, n, bcast, CallerFrame>>

-------------------------------------------------------------------------------
(* The controller (mbc_serial_master.c:56-94).                             *)

\* mbm_enable and mbm_rtu_transp_start
Start == /\ ~enabled
         /\ enabled' = TRUE
         /\ StartTimer("T35")
         /\ queue' = PostTo(queue, Event("READY"))
         /\ UNCHANGED <<core, frameBcast, rcvFrame, cb, cbMode, pollPc, caller, done, wire>>

\* mbm_disable and mbm_rtu_transp_stop
Stop == /\ enabled /\ wire.stops < MaxStops /\ wire.bad + wire.stops < MaxFaults
        /\ enabled' = FALSE
        /\ armed' = FALSE
        /\ pollPc' \in IF pollPc = "get" THEN {"get", "idle"} ELSE {pollPc}
        /\ wire' = [wire EXCEPT !.stops = @ + 1]
        /\ UNCHANGED <<queue, core, frameBcast, rcvFrame, mode, cb, cbMode, caller, done>>

-------------------------------------------------------------------------------
\* The master was created and has just been started.
Init == /\ enabled = TRUE
        /\ queue = <<Event("READY")>>
        /\ errType = "INIT" /\ flags = {} /\ resFree = FALSE
        /\ evTrans = 0 /\ curTrans = 0
        /\ frameBcast = FALSE /\ rcvFrame = Bad
        /\ armed = TRUE /\ mode = "T35" /\ cb = "idle" /\ cbMode = "T35"
        /\ pollPc = "get"
        /\ reqPc = "idle" /\ n = 0 /\ bcast = FALSE /\ outcome = "none"
        /\ done = {}
        /\ wire = [sent |-> {}, answered |-> {}, bad |-> 0, stops |-> 0]

Call == CallTake \/ CallBusy \/ CallPost \/ CallReturn \/ CallGiveUp

Next == \/ Poll \/ TimerAlarm \/ TimerCallback
        \/ (\E k \in 1..MaxReq : UartAnswer(k)) \/ UartBad
        \/ Call \/ Start \/ Stop

\* The poll task, the timer and its callback run on; a calling task is not held
\* up for ever between its steps.  No frame need ever come, and nobody need
\* start the master.
Fairness == /\ WF_vars(PollEnter) /\ WF_vars(PollEvent)
            /\ WF_vars(TimerAlarm) /\ WF_vars(TimerCallback)
            /\ WF_vars(CallPost) /\ WF_vars(CallReturn)

Spec == Init /\ [][Next]_vars

FairSpec == Spec /\ Fairness

-------------------------------------------------------------------------------
(* Properties.                                                             *)

Events == {"READY", "TRANSMIT", "SENT", "RECEIVED", "EXECUTE", "ERROR"}
Modes == {"T35", "RESP", "CONV"}

TypeOK ==
    /\ enabled \in BOOLEAN
    /\ queue \in Seq([ev: Events, frame: 0..MaxReq])
    /\ errType \in ErrTypes \cup {"INIT"} /\ flags \subseteq ErrTypes /\ resFree \in BOOLEAN
    /\ evTrans \in 0..MaxReq /\ curTrans \in 0..MaxReq
    /\ frameBcast \in BOOLEAN /\ rcvFrame \in 0..MaxReq
    /\ armed \in BOOLEAN /\ mode \in Modes
    /\ cb \in {"idle", "fired", "read", "stopped", "post"} /\ cbMode \in Modes
    /\ pollPc \in {"idle", "get", "ok", "err"}
    /\ reqPc \in {"idle", "post", "wait"} /\ n \in 0..MaxReq /\ bcast \in BOOLEAN
    /\ outcome \in {"none", "ENOERR", "ETIMEDOUT", "ERECVDATA", "EILLFUNC", "EBUSY"}
    /\ done \subseteq 0..MaxReq
    /\ wire \in [sent: SUBSET (0..MaxReq), answered: SUBSET (0..MaxReq),
                 bad: 0..MaxFaults, stops: 0..MaxStops]

\* An error that is set is on its way to be processed, by an event in the queue,
\* by the callback that is about to post it or by the poll task that is closing
\* the transaction.  EV_EXECUTE relies on it: it posts nothing when it finds an
\* error already set (mb_master.c:725-731).
ErrTypeAccounted ==
    errType # "INIT" => \/ Queued("ERROR")
                        \/ cb = "post" /\ cbMode = "RESP"
                        \/ pollPc = "err"

\* While the master runs, a resource that is taken has somebody who is going to
\* give it back: the caller that is about to post its request, an event that
\* leads to EV_ERROR_PROCESS, the running timer or its callback.  Otherwise every
\* later request would end in MB_EBUSY (port_event.c:142-161).
HeldIsDriven ==
    enabled /\ ~resFree =>
      \/ reqPc = "post"
      \/ Queued("READY") \/ Queued("TRANSMIT") \/ Queued("EXECUTE") \/ Queued("ERROR")
      \/ pollPc \in {"ok", "err"}
      \/ armed /\ mode # "T35"
      \/ cb = "fired" /\ mode # "T35"
      \/ cb \in {"read", "stopped", "post"} /\ cbMode # "T35"

\* While the master runs, the resource becomes free again and again, whatever
\* comes over the wire and however long the response time.
ResourceComesFree == enabled /\ ~resFree ~> resFree \/ ~enabled

\* The function of a request is executed, and its data written, only while its
\* caller waits for it (mbc_serial_master.c:216-217): the buffer is the caller's.
WritesOwnBuffer == [][done' # done => reqPc = "wait" /\ done' = done \cup {n}]_vars

\* ESP_OK means that the request was successful (esp_modbus_master.h:296).
OkIsOwn == reqPc = "idle" /\ outcome = "ENOERR" => n \in done

\* A transaction that was begun is closed, by the response or by the response
\* timeout (Kconfig:71-77).
TimeoutProcessed == curTrans # 0 ~> curTrans = 0

\* What the caller sees is RequestReply.
Reply == INSTANCE RequestReply WITH
           busy <- reqPc # "idle",
           served <- n \in done /\ n # 0

ImplementsReply == Reply!Spec
===============================================================================
