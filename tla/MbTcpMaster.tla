------------------------------ MODULE MbTcpMaster ------------------------------
(***************************************************************************)
(* The TCP master: the driver task that resolves, connects and reconnects  *)
(* the slaves and moves their frames (port_tcp_master.c over               *)
(* port_tcp_driver.c), the poll task over tcp_master.c, start and stop of  *)
(* the controller (mbc_tcp_master.c), one caller and the slaves.           *)
(*                                                                         *)
(* A slave answers what it is asked in order and at any time, also after   *)
(* the response timeout: the master knows an answer by its slave and its   *)
(* transaction identifier alone.  Each slave has its own counter of them.  *)
(*                                                                         *)
(* The driver task is of higher priority and, as by default, on the core   *)
(* of the poll task: its handlers are one step each, and the poll task is  *)
(* overtaken anywhere, also between the look for the slave it reads from   *)
(* and the read, which waits for a frame of that slave for any time.       *)
(*                                                                         *)
(* Left out: the other steps within the poll task, the timer's callback    *)
(* and the caller (MbMaster), the routing of a request (MbDispatch), unit  *)
(* identifiers, a node that is lost while it is written to                 *)
(* (port_tcp_master.c:258-275), and what never comes to pass: that         *)
(* ERR_INPROGRESS comes for a node that is connected (470), and that the   *)
(* frame of a node that is not is in its queue (572).                      *)
(***************************************************************************)
EXTENDS Integers, Sequences, FiniteSets

CONSTANTS MaxSlaves, (* the slaves of the address table                     *)
          MaxReq,    (* bound: the requests issued                          *)
          MaxFaults, (* bound: connections that break, names and            *)
                     (* connections that take long, writes that fail,       *)
                     (* damaged frames, stops                               *)
          MaxBoth,   (* bound: requests and faults together                 *)
          TidTop,    (* USHRT_MAX - 1: the last identifier                  *)
          TidStep,   (* 1 << 8: how far the first ones are apart            *)
          MayRefuse, (* a slave may refuse a connection                     *)
          Tids       (* the identifiers slaves have come to when the model  *)
                     (* begins with all connected, and not at the start     *)

ASSUME TcpMasterAssumption ==
    /\ MaxSlaves \in Nat \ {0} /\ MaxReq \in Nat /\ MaxFaults \in Nat /\ MaxBoth \in Nat
    /\ TidTop \in Nat /\ TidStep \in Nat /\ (MaxSlaves - 1) * TidStep =< TidTop
    /\ MayRefuse \in BOOLEAN /\ Tids \subseteq 0..TidTop

VARIABLES
    node,      (* mb_nodes: slave -> its state, tid_counter and queues      *)
    peer,      (* the other end of its connection: what is asked and not    *)
               (* answered, the state of the link, whether it has refused   *)
    connCount, (* node_conn_count                                           *)
    connected, (* MB_FLAG_CONNECTED, and MB_EVENT_STACK_CONNECTED           *)
    curNode,   (* mb_node_curr                                              *)
    drvq,      (* the events of the driver's loop                           *)
    control,   (* the controller: starting, running or stopped              *)
    res,       (* resource_hdl: TRUE when it can be taken                   *)
    evq,       (* event_hdl: the events of the poll task                    *)
    errType,   (* curr_err_type                                             *)
    flags,     (* event_group_hdl: the outcomes for the caller              *)
    timer,     (* the response timeout runs                                 *)
    curTrans,  (* curr_trans_id of the master object                        *)
    reading,   (* mbm_port_tcp_recv_data: the slave whose queue the poll    *)
               (* task waits at, and the transaction it has begun with      *)
    buf,       (* ptemp_buf: the answer read last, which rcv_frame points to *)
    req,       (* the caller: requests so far, whom the last one is for,    *)
               (* whether it waits                                          *)
    faults,    (* how many so far                                           *)
    last       (* history: the last frame written, if its identifier was    *)
               (* the one its slave was at                                  *)

vars == <<node, peer, connCount, connected, curNode, drvq, control, res, evq, errType, flags,
          timer, curTrans, reading, buf, req, faults, last>>

Slaves == 0..MaxSlaves - 1
Frames == [req : 1..MaxReq, tid : 0..TidTop]
Answers == [req : 0..MaxReq, tid : 0..TidTop]
None == -1
All == -1
NoFrame == [req |-> 0, tid |-> None]
NoRead == [node |-> None, trans |-> 0]

Within == req.n + faults < MaxBoth
Fault == faults < MaxFaults /\ Within /\ faults' = faults + 1

Event(e, s) == [ev |-> e, node |-> s]
Queued(e, s) == \E i \in DOMAIN drvq : drvq[i] = Event(e, s)

FirstTid(s) == s * TidStep
Connected(s) == node[s].state = "CONNECTED"

links == <<node, peer, connCount, connected>>
poll == <<reading, buf>>
fsm == <<res, evq, errType, flags, timer, curTrans, poll>>

-------------------------------------------------------------------------------
(* The slaves and the select loop of the driver task.                      *)

\* A slave answers, and the driver reads the answer.
Answer(s) == /\ Connected(s) /\ peer[s].link = "up" /\ peer[s].asked # <<>>
             /\ peer' = [peer EXCEPT ![s].asked = Tail(@)]
             /\ node' = [node EXCEPT ![s].rx = Append(@, Head(peer[s].asked))]
             /\ drvq' = Append(drvq, Event("RECV_DATA", s))
             /\ UNCHANGED <<connCount, connected, curNode, control, fsm, req, faults, last>>

\* A frame is damaged or there is no room for it: MB_SYNC_EVENT_RECV_FAIL.
ReadBad(s) == /\ Connected(s) /\ peer[s].link = "up" /\ Fault
              /\ errType' = "RECEIVE_DATA"
              /\ evq' = Append(evq, "ERROR")
              /\ UNCHANGED <<links, curNode, drvq, control, res, flags, timer, curTrans, poll, req, last>>

\* A connection is reset, or closed in order by the slave, ...
Break(s) == /\ Connected(s) /\ peer[s].link = "up" /\ Fault
            /\ \E link \in {"reset", "closed"} : peer' = [peer EXCEPT ![s].link = link]
            /\ UNCHANGED <<node, connCount, connected, curNode, drvq, control, fsm, req, last>>

\* ... who resets it when something is written to it nevertheless.
Reset(s) == /\ Connected(s) /\ peer[s].link = "closed" /\ peer[s].asked # <<>>
            /\ peer' = [peer EXCEPT ![s].link = "reset"]
            /\ UNCHANGED <<node, connCount, connected, curNode, drvq, control, fsm, req, faults, last>>

\* Reading from it fails: port_read_packet gives ERR_CONN, or ERR_VAL for the end of it.
ReadBroken(s) == /\ Connected(s) /\ peer[s].link # "up" /\ ~Queued("ERROR", s)
                 /\ drvq' = Append(drvq, Event("ERROR", s))
                 /\ UNCHANGED <<links, curNode, control, fsm, req, faults, last>>

-------------------------------------------------------------------------------
(* The handlers of the driver's events.                                    *)

Handle(e, s) == drvq # <<>> /\ Head(drvq) = Event(e, s)

\* The node an event is about is not there, or not in the state it is for.
HandleStale(e, states) == \E s \in Slaves :
    /\ Handle(e, s) /\ node[s].state \notin states
    /\ drvq' = Tail(drvq)
    /\ UNCHANGED <<links, curNode, control, fsm, req, faults, last>>

\* mbm_on_resolve of all: one event for each node that is open.
InTurn(e, S) == [i \in 1..Cardinality(S) |->
                   Event(e, CHOOSE s \in S : Cardinality({r \in S : r < s}) = i - 1)]

OnResolveAll == /\ Handle("RESOLVE", All)
                /\ drvq' = Tail(drvq) \o InTurn("RESOLVE", {s \in Slaves : node[s].state = "OPENED"})
                /\ UNCHANGED <<links, curNode, control, fsm, req, faults, last>>

\* A mutant of OnResolve: a name that is not resolved is not asked for again.
OnResolveOnce(s) == /\ Handle("RESOLVE", s) /\ node[s].state = "OPENED"
                    /\ \/ /\ node' = [node EXCEPT ![s].state = "RESOLVED"]
                          /\ drvq' = Append(Tail(drvq), Event("CONNECT", s))
                          /\ UNCHANGED faults
                       \/ /\ Fault
                          /\ drvq' = Tail(drvq)
                          /\ UNCHANGED node
                    /\ UNCHANGED <<peer, connCount, connected, curNode, control, fsm, req, last>>

\* mbm_on_resolve: the name is resolved, or asked for again.
OnResolve(s) == /\ Handle("RESOLVE", s) /\ node[s].state = "OPENED"
                /\ \/ /\ node' = [node EXCEPT ![s].state = "RESOLVED"]
                      /\ drvq' = Append(Tail(drvq), Event("CONNECT", s))
                      /\ UNCHANGED faults
                   \/ /\ Fault
                      /\ drvq' = Append(Tail(drvq), Event("RESOLVE", s))
                      /\ UNCHANGED node
                /\ UNCHANGED <<peer, connCount, connected, curNode, control, fsm, req, last>>

\* mbm_on_connect
ConnectBegin(s) == Handle("CONNECT", s) /\ node[s].state \in {"RESOLVED", "CONNECTING"}

ConnectDone(s) == /\ ConnectBegin(s)
                  /\ node' = [node EXCEPT ![s].state = "CONNECTED"]
                  /\ peer' = [peer EXCEPT ![s] = [asked |-> <<>>, link |-> "up", refused |-> FALSE]]
                  /\ connCount' = connCount + 1
                  /\ connected' = (connected \/ connCount + 1 = MaxSlaves)
                  /\ drvq' = Tail(drvq)
                  /\ UNCHANGED <<curNode, control, fsm, req, faults, last>>

ConnectPending(s) == /\ ConnectBegin(s) /\ Fault
                     /\ node' = [node EXCEPT ![s].state = "CONNECTING"]
                     /\ drvq' = Append(Tail(drvq), Event("CONNECT", s))
                     /\ UNCHANGED <<peer, connCount, connected, curNode, control, fsm, req, last>>

\* ERR_CONN is logged; port_connect may have closed the socket.
ConnectRefused(s) == /\ ConnectBegin(s) /\ MayRefuse /\ Fault
                     /\ \E state \in {"OPENED", node[s].state} :
                           node' = [node EXCEPT ![s].state = state]
                     /\ peer' = [peer EXCEPT ![s].refused = TRUE]
                     /\ drvq' = Tail(drvq)
                     /\ UNCHANGED <<connCount, connected, curNode, control, fsm, req, last>>

\* mbm_on_error checks the first connected node from the one of the event on.  A node
\* that is found dead, or cannot be written to at once, is closed and resolved anew.
CheckedFrom(s, m) == /\ m >= s /\ Connected(m)
                     /\ \A i \in s..m - 1 : ~Connected(i)

\* port_check_alive: a socket that cannot be written to at once is taken for dead, too.
FoundDead(m) == IF peer[m].link = "reset" THEN UNCHANGED faults ELSE Fault

Closed(m) == [node EXCEPT ![m] = [@ EXCEPT !.state = "OPENED", !.rx = <<>>, !.tx = <<>>]]

\* A mutant of Reconnect that forgets to count.
ReconnectUncounted(m) == /\ FoundDead(m)
                         /\ node' = Closed(m)
                         /\ drvq' = Append(Tail(drvq), Event("RESOLVE", m))
                         /\ UNCHANGED <<peer, connCount, connected, curNode, control, fsm, req, last>>

Reconnect(m) == /\ FoundDead(m)
                /\ node' = Closed(m)
                /\ connCount' = IF connCount > 0 THEN connCount - 1 ELSE 0
                /\ drvq' = Append(Tail(drvq), Event("RESOLVE", m))
                /\ UNCHANGED <<peer, connected, curNode, control, fsm, req, last>>

OnErrorRepair(m) == /\ \E s \in Slaves : Handle("ERROR", s) /\ CheckedFrom(s, m)
                    /\ Reconnect(m)

\* Or the last frame came not long enough ago, or its socket seems alive, as that of a
\* slave who has closed in order does every time: it can be written to.
OnErrorLater == \E s \in Slaves :
    /\ Handle("ERROR", s)
    /\ drvq' = Tail(drvq)
    /\ UNCHANGED <<links, curNode, control, fsm, req, faults, last>>

\* mbm_on_send_data: the oldest frame of the tx queue is written.  The queue of a node
\* that is not connected is empty, for closing flushes it.
SendBegin(s) == /\ Handle("SEND_DATA", s)
                /\ node[s].tx # <<>>

\* Two slips: the range ends one too late, or one too early.
NextTidPast(s) == IF node[s].tid =< TidTop THEN node[s].tid + 1 ELSE FirstTid(s)
NextTidEarly(s) == IF node[s].tid < TidTop - 1 THEN node[s].tid + 1 ELSE FirstTid(s)

NextTid(s) == IF node[s].tid < TidTop THEN node[s].tid + 1 ELSE FirstTid(s)

SendWrite(s) == /\ SendBegin(s)
                /\ LET f == Head(node[s].tx)
                   IN  /\ node' = [node EXCEPT ![s].tx = Tail(@), ![s].tid = NextTid(s)]
                       /\ peer' = [peer EXCEPT ![s].asked = Append(@, f)]
                       /\ last' = IF f.tid = node[s].tid THEN f ELSE NoFrame
                /\ drvq' = Tail(drvq)
                /\ curNode' = s
                /\ UNCHANGED <<connCount, connected, control, fsm, req, faults>>

SendFail(s) == /\ SendBegin(s)
               /\ IF peer[s].link = "reset" THEN UNCHANGED faults ELSE Fault
               /\ node' = [node EXCEPT ![s].tx = Tail(@)]
               /\ drvq' = Append(Tail(drvq), Event("ERROR", s))
               /\ curNode' = s
               /\ last' = NoFrame
               /\ UNCHANGED <<peer, connCount, connected, control, fsm, req>>

SendNothing(s) == /\ Handle("SEND_DATA", s) /\ node[s].tx = <<>>
                  /\ drvq' = Tail(drvq)
                  /\ UNCHANGED <<links, curNode, control, fsm, req, faults, last>>

\* A slip: any answer will do.
ExpectedAny(s, f) == TRUE

\* An answer is expected if it has the identifier of the last request written.
Expected(s, f) == f.tid = node[s].tid - 1

\* mbm_on_recv_data drops what is not expected and puts what is back behind the rest.
RecvFound(s) == \E i \in DOMAIN node[s].rx :
    /\ Handle("RECV_DATA", s)
    /\ Expected(s, node[s].rx[i])
    /\ \A j \in 1..i - 1 : ~Expected(s, node[s].rx[j])
    /\ node' = [node EXCEPT ![s].rx = Append(SubSeq(@, i + 1, Len(@)), node[s].rx[i])]
    /\ errType' = "INIT"
    /\ evq' = Append(evq, "RECEIVED")
    /\ drvq' = Tail(drvq)
    /\ UNCHANGED <<peer, connCount, connected, curNode, control, res, flags, timer, curTrans, poll,
                   req, faults, last>>

RecvNothing(s) == /\ Handle("RECV_DATA", s)
                  /\ \A i \in DOMAIN node[s].rx : ~Expected(s, node[s].rx[i])
                  /\ node' = [node EXCEPT ![s].rx = <<>>]
                  /\ drvq' = Tail(drvq)
                  /\ UNCHANGED <<peer, connCount, connected, curNode, control, fsm, req, faults, last>>

\* mbm_on_close: every node is closed and given up.
OnClose == /\ Handle("CLOSE", All)
           /\ node' = [s \in Slaves |-> [state |-> "CLOSED", tid |-> 0, rx |-> <<>>, tx |-> <<>>]]
           /\ connCount' = 0
           /\ drvq' = Tail(drvq)
           /\ UNCHANGED <<peer, connected, curNode, control, fsm, req, faults, last>>

-------------------------------------------------------------------------------
(* The poll task.                                                          *)

PollGets(e) == /\ control = "running" /\ reading = NoRead
               /\ evq # <<>> /\ Head(evq) = e

PollReady == /\ PollGets("READY")
             /\ evq' = Tail(evq)
             /\ res' = TRUE
             /\ UNCHANGED <<links, curNode, drvq, control, errType, flags, timer, curTrans, poll, req,
                            faults, last>>

\* EV_FRAME_TRANSMIT: mbm_tcp_transp_send starts the timer in either case.  The frame
\* gets the identifier the slave is at now, which on_send_data counts on later.  The
\* EV_FRAME_SENT that is posted is only logged, and left out.
PollTransmit == /\ PollGets("TRANSMIT")
                /\ IF connected /\ Connected(req.dst)
                   THEN /\ node' = [node EXCEPT ![req.dst].tx =
                                      Append(@, [req |-> req.n, tid |-> node[req.dst].tid])]
                        /\ drvq' = Append(drvq, Event("SEND_DATA", req.dst))
                        /\ evq' = Tail(evq)
                        /\ UNCHANGED errType
                   ELSE /\ errType' = "TIMEOUT"
                        /\ evq' = Append(Tail(evq), "ERROR")
                        /\ UNCHANGED <<node, drvq>>
                /\ timer' = TRUE
                /\ curTrans' = req.n
                /\ UNCHANGED <<peer, connCount, connected, curNode, control, res, flags, poll, req, faults,
                               last>>

\* EV_FRAME_RECEIVED: mbm_port_tcp_recv_data looks for the node that was sent to last,
\* and queue_pop waits for a frame of it as long as it takes (portMAX_DELAY).
PollRead == /\ PollGets("RECEIVED") /\ curNode # None /\ Connected(curNode)
            /\ reading' = [node |-> curNode, trans |-> req.n]
            /\ evq' = Tail(evq)
            /\ UNCHANGED <<links, curNode, drvq, control, res, errType, flags, timer, curTrans, buf, req,
                           faults, last>>

ReadDone(s) == /\ control = "running" /\ reading.node = s
               /\ node[s].rx # <<>>
               /\ buf' = Head(node[s].rx)
               /\ node' = [node EXCEPT ![s].rx = Tail(@)]
               /\ reading' = NoRead
               /\ UNCHANGED <<peer, connCount, connected, curNode, drvq, control, res, flags, curTrans, req,
                              faults, last>>

\* What was read is accepted if it is expected of its slave now, its function is that of
\* the request (which another request's may be) and the transaction is the current one.
Acceptable(s, f) == f # NoFrame /\ Expected(s, f)

Accept(rest) == /\ timer' = FALSE
                /\ evq' = Append(rest, "EXECUTE")
                /\ UNCHANGED errType

\* A mutant of Reject: nothing is posted.
RejectSilent(rest) == /\ timer' = FALSE
                      /\ errType' = "RECEIVE_DATA"
                      /\ evq' = rest

Reject(rest) == /\ timer' = FALSE
                /\ errType' = "RECEIVE_DATA"
                /\ evq' = Append(rest, "ERROR")

Ignore(rest) == /\ evq' = rest
                /\ UNCHANGED <<errType, timer>>

PollReceive(s) == /\ ReadDone(s)
                  /\ reading.trans = curTrans /\ Acceptable(s, Head(node[s].rx))
                  /\ Accept(evq)

PollReject(s) == /\ ReadDone(s)
                 /\ reading.trans = curTrans
                 /\ ~Acceptable(s, Head(node[s].rx)) \/ Head(node[s].rx).req # req.n
                 /\ Reject(evq)

PollIgnore(s) == /\ ReadDone(s)
                 /\ reading.trans # curTrans
                 /\ Ignore(evq)

\* The node is not connected any more: the -1 of mb_drv_read is taken for a length, and the
\* answer read before that for the one that has come.
PollStale == /\ PollGets("RECEIVED") /\ (curNode = None \/ ~Connected(curNode))
             /\ LET fits == curNode # None /\ Acceptable(curNode, buf)
                IN  \/ curTrans = req.n /\ fits /\ Accept(Tail(evq))
                    \/ curTrans = req.n /\ (~fits \/ buf.req # req.n) /\ Reject(Tail(evq))
                    \/ curTrans # req.n /\ Ignore(Tail(evq))
             /\ UNCHANGED <<links, curNode, drvq, control, res, flags, curTrans, poll, req, faults, last>>

\* EV_EXECUTE
PollExecute == /\ PollGets("EXECUTE")
               /\ IF curTrans # req.n
                  THEN errType' = "EXEC" /\ evq' = Append(Tail(evq), "ERROR")
                  ELSE \/ errType' = "EXEC" /\ evq' = Append(Tail(evq), "ERROR")
                       \/ errType = "INIT" /\ errType' = "OK" /\ evq' = Append(Tail(evq), "ERROR")
                       \/ errType # "INIT" /\ UNCHANGED errType /\ evq' = Tail(evq)
               /\ UNCHANGED <<links, curNode, drvq, control, res, flags, timer, curTrans, poll, req, faults,
                              last>>

\* EV_ERROR_PROCESS
PollError == /\ PollGets("ERROR")
             /\ evq' = Tail(evq)
             /\ timer' = FALSE
             /\ flags' = flags \union ({errType} \ {"INIT"})
             /\ errType' = "INIT"
             /\ curTrans' = 0
             /\ res' = TRUE
             /\ UNCHANGED <<links, curNode, drvq, control, poll, req, faults, last>>

\* mbm_port_timer_expired
TimerExpires == /\ timer
                /\ timer' = FALSE
                /\ errType' = "TIMEOUT"
                /\ evq' = Append(evq, "ERROR")
                /\ UNCHANGED <<links, curNode, drvq, control, res, flags, curTrans, poll, req, faults, last>>

-------------------------------------------------------------------------------
(* The caller, and who starts and stops the master.                        *)

Call(s) == /\ control = "running" /\ ~req.waits /\ res /\ req.n < MaxReq /\ Within
           /\ res' = FALSE
           /\ req' = [n |-> req.n + 1, dst |-> s, waits |-> TRUE]
           /\ evq' = Append(evq, "TRANSMIT")
           /\ UNCHANGED <<links, curNode, drvq, control, errType, flags, timer, curTrans, poll, faults,
                          last>>

CallReturn == /\ req.waits /\ flags # {}
              /\ flags' = {}
              /\ req' = [req EXCEPT !.waits = FALSE]
              /\ UNCHANGED <<links, curNode, drvq, control, res, evq, errType, timer, curTrans, poll,
                             faults, last>>

\* No flag for 3000 ms: the response timeout may be longer.
CallGiveUp == /\ req.waits /\ flags = {}
              /\ req' = [req EXCEPT !.waits = FALSE]
              /\ UNCHANGED <<links, curNode, drvq, control, fsm, faults, last>>

\* mbc_tcp_master_start waits for the connections; the poll task starts.
Started == /\ control = "starting" /\ connected
           /\ control' = "running"
           /\ UNCHANGED <<links, curNode, drvq, fsm, req, faults, last>>

\* mbc_tcp_master_stop.  There is nothing left to be started again.
Stop == /\ control = "running" /\ Fault
        /\ control' = "stopped"
        /\ drvq' = Append(drvq, Event("CLOSE", All))
        /\ timer' = FALSE
        /\ UNCHANGED <<links, curNode, res, evq, errType, flags, curTrans, poll, req, last>>

-------------------------------------------------------------------------------
\* Every slave of the table is open; mbm_tcp_transp_start has posted both events.
Starts == /\ node = [s \in Slaves |-> [state |-> "OPENED", tid |-> 0, rx |-> <<>>, tx |-> <<>>]]
          /\ connCount = 0 /\ connected = FALSE
          /\ curNode = None /\ buf = NoFrame
          /\ drvq = <<Event("RESOLVE", All)>>
          /\ control = "starting" /\ res = FALSE /\ evq = <<"READY">>

\* Or the master has run for a while: all are connected, each has come to one of Tids, and
\* the last request of them has been answered.
Runs == /\ \E tid \in [Slaves -> Tids] :
              node = [s \in Slaves |-> [state |-> "CONNECTED", tid |-> tid[s], rx |-> <<>>, tx |-> <<>>]]
        /\ connCount = MaxSlaves /\ connected = TRUE
        /\ curNode \in {s \in Slaves : node[s].tid > 0}
        /\ buf = [req |-> 0, tid |-> node[curNode].tid - 1]
        /\ drvq = <<>>
        /\ control = "running" /\ res = TRUE /\ evq = <<>>

Init == /\ Starts \/ Runs
        /\ peer = [s \in Slaves |-> [asked |-> <<>>, link |-> "up", refused |-> FALSE]]
        /\ errType = "INIT" /\ flags = {} /\ timer = FALSE /\ curTrans = 0
        /\ reading = NoRead
        /\ req = [n |-> 0, dst |-> 0, waits |-> FALSE]
        /\ faults = 0 /\ last = NoFrame

Network == \E s \in Slaves : Answer(s) \/ ReadBad(s) \/ Break(s) \/ Reset(s) \/ ReadBroken(s)

Driver == \/ OnResolveAll \/ OnErrorLater \/ OnClose
          \/ HandleStale("RESOLVE", {"OPENED"})
          \/ HandleStale("CONNECT", {"RESOLVED", "CONNECTING"})
          \/ \E s \in Slaves :
                \/ OnResolve(s) \/ ConnectDone(s) \/ ConnectPending(s) \/ ConnectRefused(s)
                \/ OnErrorRepair(s)
                \/ SendWrite(s) \/ SendFail(s) \/ SendNothing(s)
                \/ RecvFound(s) \/ RecvNothing(s)

Poll == \/ PollReady \/ PollTransmit \/ PollRead \/ PollStale
        \/ \E s \in Slaves : PollReceive(s) \/ PollReject(s) \/ PollIgnore(s)
        \/ PollExecute \/ PollError

Caller == (\E s \in Slaves : Call(s)) \/ CallReturn \/ CallGiveUp

Next == Network \/ Driver \/ Poll \/ TimerExpires \/ Caller \/ Started \/ Stop

Spec == Init /\ [][Next]_vars

\* Both tasks run, and the driver's loop reads from every broken connection in turn.  One
\* that is reset is found dead by port_check_alive every time, once no frame has come for
\* long enough: recv_time is renewed only for one that is found alive.  Nothing of the kind
\* holds for one that is closed in order, which may be found alive every time.
FairSpec == /\ Spec
            /\ WF_vars(Driver) /\ WF_vars(Poll) /\ WF_vars(TimerExpires)
            /\ \A s \in Slaves :
                  WF_vars(ReadBroken(s)) /\ SF_vars(peer[s].link = "reset" /\ OnErrorRepair(s))

-------------------------------------------------------------------------------
(* Properties.                                                             *)

TypeOK ==
    /\ \A s \in Slaves :
          /\ node[s].state \in {"CLOSED", "OPENED", "RESOLVED", "CONNECTING", "CONNECTED"}
          /\ node[s].tid \in 0..TidTop
          /\ \A i \in DOMAIN node[s].rx : node[s].rx[i] \in Frames
          /\ \A i \in DOMAIN node[s].tx : node[s].tx[i] \in Frames
          /\ \A i \in DOMAIN peer[s].asked : peer[s].asked[i] \in Frames
          /\ peer[s].link \in {"up", "reset", "closed"} /\ peer[s].refused \in BOOLEAN
    /\ connCount \in 0..MaxSlaves /\ connected \in BOOLEAN
    /\ curNode \in Slaves \union {None}
    /\ \A i \in DOMAIN drvq : drvq[i].node \in Slaves \union {All}
    /\ control \in {"starting", "running", "stopped"}
    /\ \A i \in DOMAIN evq :
          evq[i] \in {"READY", "TRANSMIT", "RECEIVED", "EXECUTE", "ERROR"}
    /\ errType \in {"INIT", "OK", "TIMEOUT", "RECEIVE_DATA", "EXEC"}
    /\ flags \subseteq {"OK", "TIMEOUT", "RECEIVE_DATA", "EXEC"}
    /\ res \in BOOLEAN /\ timer \in BOOLEAN /\ curTrans \in 0..MaxReq
    /\ buf \in Answers \union {NoFrame}
    /\ reading = NoRead \/ reading.node \in Slaves
    /\ last \in Frames \union {NoFrame}

\* Once a request is written with its slave's identifier, only its own answer is accepted
\* among what is read from that slave, whatever late answers of it or another slave come
\* at any time and wherever in its range the slave's counter is (port_tcp_master.c:219-248,
\* 596-600, 606-638), as long as no identifier is used twice: the run has enough of them
\* for its requests.  It takes for granted that the poll task reads from the slave that was
\* written to last, which it does unless it has waited there since before, and that the
\* node is connected when it reads: see AcceptsOnlyOwn and PollStale.
AcceptsOwn == [][\A s \in Slaves :
    PollReceive(s) /\ s = curNode /\ last.req = req.n => buf'.req = req.n]_vars

\* The same for whatever slave the poll task has waited for.
AcceptsOnlyOwn == [][\A s \in Slaves :
    PollReceive(s) /\ last.req = req.n => buf'.req = req.n]_vars

\* The answer to the request that is under way is not dropped as one out of place, except
\* that to the last identifier of the range: none is one less than the first.
AnswerKept == [][\A s \in Slaves : RecvNothing(s) =>
    \A i \in DOMAIN node[s].rx :
        node[s].rx[i] = last /\ last.req = req.n => last.tid = TidTop]_vars

\* node_conn_count, which decides when polling may start, counts the connected nodes.
CountAgrees == connCount = Cardinality({s \in Slaves : Connected(s)})

\* A node on its way to be connected has an event that takes it on.
Awaited(s) == CASE node[s].state = "OPENED" -> Queued("RESOLVE", s) \/ Queued("RESOLVE", All)
                [] node[s].state \in {"RESOLVED", "CONNECTING"} -> Queued("CONNECT", s)
                [] OTHER -> TRUE
NotForgotten == \A s \in Slaves : Awaited(s) \/ peer[s].refused

\* While a request is under way, an event is on its way to the poll task or the response
\* timeout runs: nothing else leads to EV_ERROR_PROCESS, where the resource is given back.
\* Only the read can keep the poll task from it.
HeldIsDriven == ~res /\ control = "running" => evq # <<>> \/ timer

\* A request is over at some time, at the latest with the response timeout.
RequestEnds == ~res /\ control = "running" ~> res \/ control = "stopped"

\* A connection that is reset is connected again, unless the slave has refused it once.
Again(s) == (Connected(s) /\ peer[s].link = "up") \/ control = "stopped"
Reconnects == \A s \in Slaves :
    Connected(s) /\ peer[s].link = "reset" ~> Again(s) \/ peer[s].refused

\* The same for one that the slave has closed in order.
ReconnectsClosed == \A s \in Slaves :
    Connected(s) /\ peer[s].link = "closed" ~> Again(s) \/ peer[s].refused
================================================================================
