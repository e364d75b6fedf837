-------------------------------- MODULE MbSlave --------------------------------
(***************************************************************************)
(* The serial slave: the poll task (mb_slave.c:603-737), the RTU transport *)
(* (rtu_slave.c; ascii_slave.c has the same control flow), the port with   *)
(* its bus semaphore and UART task (port_serial.c), the event queue with   *)
(* its overflow (port_event.c), start and stop (mbc_serial_slave.c).       *)
(*                                                                         *)
(* A frame is the number of its request and the slave it is addressed to;  *)
(* NoFrame is one that is damaged.  A request is executed in the receive   *)
(* buffer, where the response replaces it.  Which handler runs is the      *)
(* subject of MbDispatch.                                                  *)
(*                                                                         *)
(* Left out: the flags of the event group, for which nobody waits in a     *)
(* slave, the resource, which nobody takes, and the timer, which is        *)
(* stopped at times but never started.                                     *)
(***************************************************************************)
EXTENDS Integers, Sequences

CONSTANTS MaxReq,    (* bound: the frames that come over the wire           *)
          MaxFaults, (* bound: damaged frames, flushes, failed              *)
                     (* transmissions and stops together                    *)
          QueueLen,  (* CONFIG_FMB_QUEUE_LENGTH                             *)
          Prompt     (* a frame is executed before the next one comes, and  *)
                     (* taken up before a stop                              *)

ASSUME SlaveAssumption == /\ MaxReq \in Nat /\ MaxFaults \in Nat
                          /\ QueueLen \in Nat \ {0}
                          /\ Prompt \in BOOLEAN

VARIABLES enabled,  (* cur_state is STATE_ENABLED, and so is the port       *)
          queue,    (* event_hdl                                            *)
          errType,  (* curr_err_type                                        *)
          busFree,  (* bus_sema_handle                                      *)
          buf,      (* what is in rcv_buf                                   *)
          rcvAddr,  (* rcv_addr: to whom the last good frame was addressed  *)
          pollPc,   (* where the poll task is                               *)
          wire,     (* the wire: frames and faults so far, transmissions    *)
                    (* that failed and what was lost for want of the bus    *)
          asked,    (* a request that came at leisure and was not disturbed *)
          ran,      (* history: what was executed                           *)
          answered  (* history: the frames that were answered               *)

vars == <<enabled, queue, errType, busFree, buf, rcvAddr, pollPc, wire, asked, ran, answered>>

Addresses == {"own", "bcast", "other"}
Frames == [id: 0..MaxReq, to: Addresses, resp: BOOLEAN]
NoFrame == [id |-> 0, to |-> "other", resp |-> FALSE]

Event(e) == [ev |-> e, frame |-> NoFrame]
Queued(e) == \E i \in DOMAIN queue : queue[i].ev = e

-------------------------------------------------------------------------------
(* The event queue.                                                        *)

\* A slip: a full queue takes the event all the same.
PollPostAlways(q, e) == Append(q, Event(e))

\* mb_port_event_post by the poll task.  Nobody else takes events off the queue:
\* if it is full the task waits in vain and empties it.
PollPost(q, e) == IF Len(q) < QueueLen THEN Append(q, Event(e)) ELSE <<>>

\* The same by another task: it waits for room, or empties the queue after 3 s.
Post(q, e) == \/ Len(q) < QueueLen /\ queue' = Append(q, e)
              \/ Len(q) >= QueueLen /\ queue' = <<>>

\* mb_port_ser_rx_flush: the frames whose events are queued have no data left.
Flushed(q) == [i \in DOMAIN q |-> [q[i] EXCEPT !.frame = NoFrame]]

-------------------------------------------------------------------------------
(* The poll task.                                                          *)

Loop == IF enabled THEN "get" ELSE "idle"

PollEnter == /\ pollPc = "idle" /\ enabled
             /\ pollPc' = "get"
             /\ UNCHANGED <<enabled, queue, errType, busFree, buf, rcvAddr, wire, asked, ran, answered>>

\* No event for 3000 ms, and meanwhile the slave was stopped.
PollIdle == /\ pollPc = "get" /\ queue = <<>> /\ ~enabled
            /\ pollPc' = "idle"
            /\ UNCHANGED <<enabled, queue, errType, busFree, buf, rcvAddr, wire, asked, ran, answered>>

Get(e) == pollPc = "get" /\ queue # <<>> /\ Head(queue).ev = e

\* EV_READY
PollReady == /\ Get("READY")
             /\ queue' = Tail(queue)
             /\ pollPc' = Loop
             /\ UNCHANGED <<enabled, errType, busFree, buf, rcvAddr, wire, asked, ran, answered>>

\* The frame in the buffer is good.  Only one for this slave is executed.
ForUsUnchecked(f) == TRUE
ForUs(f) == f.to \in {"own", "bcast"}

Accept(f) == /\ rcvAddr' = f.to
             /\ queue' = IF ForUs(f) THEN PollPost(Tail(queue), "EXECUTE") ELSE Tail(queue)
             /\ UNCHANGED errType

Reject == /\ errType' = "RECV"
          /\ queue' = PollPost(Tail(queue), "ERROR")
          /\ UNCHANGED rcvAddr

Fault(w) == [w EXCEPT !.faults = @ + 1]

\* A mutant of ReceiveBusy: the semaphore stays taken.
ReceiveBusyKeeps == /\ Get("RECEIVED") /\ ~busFree
                    /\ wire' = [wire EXCEPT !.lost = @ + 1]
                    /\ Reject
                    /\ pollPc' = Loop
                    /\ UNCHANGED <<enabled, busFree, buf, asked, ran, answered>>

\* EV_FRAME_RECEIVED.  The semaphore is not to be had within the response time:
\* the frame is lost, and the semaphore given back by a task that has not got it.
ReceiveBusy == /\ Get("RECEIVED") /\ ~busFree
               /\ busFree' = TRUE
               /\ wire' = [wire EXCEPT !.lost = @ + 1]
               /\ Reject
               /\ pollPc' = Loop
               /\ UNCHANGED <<enabled, buf, asked, ran, answered>>

\* The frame is read into the buffer and checked there.
ReceiveRead == /\ Get("RECEIVED") /\ busFree /\ enabled
               /\ LET f == Head(queue).frame
                  IN  \/ f # NoFrame /\ buf' = f /\ Accept(f)
                      \/ f = NoFrame /\ buf' \in {buf, NoFrame} /\ Reject
               /\ pollPc' = Loop
               /\ UNCHANGED <<enabled, busFree, wire, asked, ran, answered>>

\* A port that is disabled reads nothing and reports success: the old contents of
\* the buffer are taken for the frame if the lengths agree.
ReceiveStale == /\ Get("RECEIVED") /\ busFree /\ ~enabled
                /\ \/ buf # NoFrame /\ Accept(buf)
                   \/ Reject
                /\ pollPc' = Loop
                /\ UNCHANGED <<enabled, busFree, buf, wire, asked, ran, answered>>

\* A mutant of Execute: it waits until the last error has been processed.
ExecuteWaits == /\ Get("EXECUTE")
                /\ IF errType = "INIT"
                   THEN /\ ran' = Append(ran, buf)
                        /\ buf' = [buf EXCEPT !.resp = TRUE]
                        /\ pollPc' = IF rcvAddr = "bcast" THEN Loop ELSE "send"
                   ELSE pollPc' = Loop /\ UNCHANGED <<ran, buf>>
                /\ queue' = Tail(queue)
                /\ UNCHANGED <<enabled, errType, busFree, rcvAddr, wire, asked, answered>>

\* EV_EXECUTE: the handler turns the request in the buffer into its response, and
\* unless the request was a broadcast ...
Execute == /\ Get("EXECUTE")
           /\ ran' = Append(ran, buf)
           /\ buf' = [buf EXCEPT !.resp = TRUE]
           /\ queue' = Tail(queue)
           /\ pollPc' = IF rcvAddr = "bcast" THEN Loop ELSE "send"
           /\ UNCHANGED <<enabled, errType, busFree, rcvAddr, wire, asked, answered>>

\* ... the response is sent, what was received meanwhile is dropped, ...
SendDone == /\ pollPc = "send" /\ busFree /\ enabled
            /\ answered' = Append(answered, buf)
            /\ queue' = PollPost(Flushed(queue), "SENT")
            /\ pollPc' = Loop
            /\ UNCHANGED <<enabled, errType, busFree, buf, rcvAddr, wire, asked, ran>>

\* ... or the port is disabled and does nothing but report success, ...
SendNothing == /\ pollPc = "send" /\ busFree /\ ~enabled
               /\ queue' = PollPost(queue, "SENT")
               /\ pollPc' = Loop
               /\ UNCHANGED <<enabled, errType, busFree, buf, rcvAddr, wire, asked, ran, answered>>

SendError == errType' = "TIMEOUT" /\ pollPc' = Loop

\* ... or the transmission does not end in time, and the semaphore stays taken, ...
SendFailed == /\ pollPc = "send" /\ busFree /\ enabled /\ wire.faults < MaxFaults
              /\ busFree' = FALSE
              /\ wire' = [Fault(wire) EXCEPT !.failed = @ + 1]
              /\ asked' = 0
              /\ queue' = PollPost(Flushed(queue), "ERROR")
              /\ SendError
              /\ UNCHANGED <<enabled, buf, rcvAddr, ran, answered>>

\* ... or it was taken already.
SendBusy == /\ pollPc = "send" /\ ~busFree
            /\ busFree' = TRUE
            /\ wire' = [wire EXCEPT !.lost = @ + 1]
            /\ queue' = PollPost(queue, "ERROR")
            /\ SendError
            /\ UNCHANGED <<enabled, buf, rcvAddr, asked, ran, answered>>

\* EV_FRAME_SENT
PollSent == /\ Get("SENT")
            /\ IF errType = "INIT"
               THEN errType' = "OK" /\ queue' = PollPost(Tail(queue), "ERROR")
               ELSE queue' = Tail(queue) /\ UNCHANGED errType
            /\ pollPc' = Loop
            /\ UNCHANGED <<enabled, busFree, buf, rcvAddr, wire, asked, ran, answered>>

\* A mutant of PollError: the error is not reset.
PollErrorKeeps == /\ Get("ERROR")
                  /\ queue' = Tail(queue)
                  /\ pollPc' = Loop
                  /\ UNCHANGED <<enabled, errType, busFree, buf, rcvAddr, wire, asked, ran, answered>>

\* EV_ERROR_PROCESS
PollError == /\ Get("ERROR")
             /\ errType' = "INIT"
             /\ queue' = Tail(queue)
             /\ pollPc' = Loop
             /\ UNCHANGED <<enabled, busFree, buf, rcvAddr, wire, asked, ran, answered>>

Send == SendDone \/ SendNothing \/ SendFailed \/ SendBusy

PollEvent == \/ PollIdle \/ PollReady \/ ReceiveBusy \/ ReceiveRead \/ ReceiveStale
             \/ Execute \/ PollSent \/ PollError

Poll == PollEnter \/ PollEvent \/ Send

-------------------------------------------------------------------------------
(* The UART task.  It looks at `enabled' only before it waits for data.    *)

\* Nothing of an earlier frame is still to be done.
AtLeisure == ~Queued("RECEIVED") /\ ~Queued("EXECUTE") /\ pollPc # "send"

UartFrame(to) ==
    LET k == wire.n + 1
    IN  /\ k <= MaxReq
        /\ Prompt => enabled /\ AtLeisure
        /\ wire' = [wire EXCEPT !.n = k]
        /\ Post(queue, [ev |-> "RECEIVED", frame |-> [id |-> k, to |-> to, resp |-> FALSE]])
        /\ asked' = IF to = "own" /\ enabled /\ busFree /\ AtLeisure /\ Len(queue) < QueueLen
                    THEN k ELSE 0
        /\ UNCHANGED <<enabled, errType, busFree, buf, rcvAddr, pollPc, ran, answered>>

\* A damaged frame.
UartBad == /\ enabled /\ wire.faults < MaxFaults
           /\ Prompt => AtLeisure
           /\ wire' = Fault(wire)
           /\ Post(queue, Event("RECEIVED"))
           /\ asked' = 0
           /\ UNCHANGED <<enabled, errType, busFree, buf, rcvAddr, pollPc, ran, answered>>

\* An error of the line or a full buffer: what was received is dropped.
UartFlush == /\ enabled /\ wire.faults < MaxFaults
             /\ wire' = Fault(wire)
             /\ queue' = Flushed(queue)
             /\ asked' = 0
             /\ UNCHANGED <<enabled, errType, busFree, buf, rcvAddr, pollPc, ran, answered>>

-------------------------------------------------------------------------------
(* The controller (mbc_serial_slave.c:47-83).                              *)

\* mbs_enable, mbs_rtu_transp_start, mb_port_ser_enable
Start == /\ ~enabled
         /\ enabled' = TRUE
         /\ busFree' = TRUE
         /\ Post(queue, Event("READY"))
         /\ UNCHANGED <<errType, buf, rcvAddr, pollPc, wire, asked, ran, answered>>

\* mbs_disable, mbs_rtu_transp_stop, mb_port_ser_disable
Stop == /\ enabled /\ wire.faults < MaxFaults
        /\ Prompt => ~Queued("RECEIVED")
        /\ enabled' = FALSE
        /\ wire' = Fault(wire)
        /\ asked' = 0
        /\ pollPc' \in IF pollPc = "get" THEN {"get", "idle"} ELSE {pollPc}
        /\ UNCHANGED <<queue, errType, busFree, buf, rcvAddr, ran, answered>>

-------------------------------------------------------------------------------
\* The slave was created and has just been started.
Init == /\ enabled = TRUE
        /\ queue = <<Event("READY")>>
        /\ errType = "INIT" /\ busFree = TRUE
        /\ buf = NoFrame /\ rcvAddr = "bcast"
        /\ pollPc = "get"
        /\ wire = [n |-> 0, faults |-> 0, failed |-> 0, lost |-> 0]
        /\ asked = 0
        /\ ran = <<>> /\ answered = <<>>

Next == \/ Poll
        \/ (\E to \in Addresses : UartFrame(to)) \/ UartBad \/ UartFlush
        \/ Start \/ Stop

Spec == Init /\ [][Next]_vars

\* The poll task runs on, and transmissions come to an end.  Frames need not
\* come, and nobody need start the slave.
FairSpec == Spec /\ WF_vars(PollEnter) /\ WF_vars(PollEvent) /\ WF_vars(Send)

-------------------------------------------------------------------------------
(* Properties.                                                             *)

Events == {"READY", "RECEIVED", "EXECUTE", "SENT", "ERROR"}

TypeOK ==
    /\ enabled \in BOOLEAN
    /\ queue \in Seq([ev: Events, frame: Frames]) /\ Len(queue) <= QueueLen
    /\ errType \in {"INIT", "OK", "TIMEOUT", "RECV"} /\ busFree \in BOOLEAN
    /\ buf \in Frames /\ rcvAddr \in Addresses
    /\ pollPc \in {"idle", "get", "send"}
    /\ wire \in [n: 0..MaxReq, faults: 0..MaxFaults, failed: Nat, lost: Nat]
    /\ asked \in 0..MaxReq
    /\ ran \in Seq(Frames) /\ answered \in Seq(Frames)

Ordered(s) == \A i, j \in DOMAIN s : i < j => s[i].id < s[j].id

\* A slave that is prompt executes every frame at most once, in the order in which
\* they came, only undamaged ones for itself or for all, and never its own
\* response; and it answers each request it has executed at most once, a broadcast
\* never (mb_slave.c:626-676, one receive buffer for requests and responses).
ServesOnce ==
    /\ Ordered(ran) /\ Ordered(answered)
    /\ \A i \in DOMAIN ran : ran[i].id # 0 /\ ran[i].to # "other" /\ ~ran[i].resp
    /\ \A i \in DOMAIN answered :
         /\ answered[i].to = "own"
         /\ \E j \in DOMAIN ran : ran[j].id = answered[i].id

\* A frame for another slave is never executed ("Check if the frame is for us. If
\* not ignore the frame.", mb_slave.c:632).
IgnoresOthers == \A i \in DOMAIN ran : ran[i].to # "other"

\* An error that is set has its EV_ERROR_PROCESS queued; EV_FRAME_SENT relies on
\* it and posts none if an error is set (mb_slave.c:681-691).
ErrTypeAccounted == errType # "INIT" => Queued("ERROR")

\* A transmission that fails keeps the bus semaphore (port_serial.c:332); the
\* damage heals: it costs at most one later frame or response, for the failed
\* attempt to take the semaphore gives it back.
LeakHeals == wire.lost + (IF busFree THEN 0 ELSE 1) <= wire.failed

\* A request for this slave that finds the bus free and nothing of an earlier
\* frame undone is answered, unless the line, a stop or another frame disturbs it,
\* whatever went before: backlogs, overflows, failed transmissions, restarts.
RequestAnswered ==
    \A k \in 1..MaxReq :
      asked = k ~> asked # k \/ \E i \in DOMAIN answered : answered[i].id = k
===============================================================================
