------------------------------- MODULE MbTcpSlave -------------------------------
(***************************************************************************)
(* The TCP slave: the driver task with its event loop and the slots of the *)
(* connections (port_tcp_driver.c, port_tcp_slave.c), the transactions     *)
(* they share with the poll task (mb_transaction.c), the poll task itself  *)
(* (mb_slave.c:603-737 over tcp_slave.c), start and stop.                  *)
(*                                                                         *)
(* The clients are any number of masters, each with one connection, and    *)
(* number their requests from 1: the identifiers of two clients coincide.  *)
(* A request is the pair of both; its response is the same frame.  A task  *)
(* of lower priority may be overtaken between any two steps; the lock of   *)
(* the driver makes one step of what is done under it.                     *)
(*                                                                         *)
(* Left out: the handler a request is given to (MbDispatch), the overflow  *)
(* of the poll task's events (MbSlave), mDNS, the socket options, and the  *)
(* round robin of on_timeout, which may check any slot here.               *)
(***************************************************************************)
EXTENDS MbTransaction, FiniteSets

CONSTANTS MaxConn,    (* bound: the connections clients make                *)
          Asks,       (* bound: the requests of each client                 *)
          MaxNodes,   (* MB_MAX_FDS: the slots for connections              *)
          MaxFaults,  (* bound: peers that go away, frames damaged, old     *)
                      (* transactions, sockets that fail, stops             *)
          Parallel,   (* the poll task may run on a core of its own         *)
                      (* (FMB_PORT_TASK_AFFINITY_NO_AFFINITY)               *)
          UidEnabled  (* MB_TCP_UID_ENABLED                                 *)

ASSUME TcpSlaveAssumption ==
    /\ MaxConn \in Nat /\ Asks \in [1..MaxConn -> Nat] /\ MaxNodes \in Nat \ {0}
    /\ MaxFaults \in Nat
    /\ Parallel \in BOOLEAN /\ UidEnabled \in BOOLEAN

VARIABLES
    client,    (* what became of each connection, requests sent on it       *)
    node,      (* mb_nodes: slot -> the connection in it, or NoNode         *)
    connCount, (* node_conn_count                                           *)
    drvq,      (* the events of the driver's loop                           *)
    acking,    (* the item on_recv_data is about to acknowledge             *)
    trans,     (* transaction: the list of transactions                     *)
    res,       (* resource_hdl: TRUE when it can be taken                   *)
    evq,       (* event_hdl: the events of the poll task                    *)
    errType,   (* curr_err_type                                             *)
    timer,     (* the T35 timer that frm_start has started                  *)
    buf,       (* recv_buf: the request, and then its response              *)
    pollPc,    (* where the poll task is                                    *)
    user,      (* mbc_slave_start, mbc_slave_stop: where the user is        *)
    faults,    (* how many so far                                           *)
    listening, (* listen_sock_fd is open                                    *)
    orphaned,  (* history: the closing of all connections left a transaction *)
               (* or the CONNECT event of a slot behind                     *)
    calm,      (* history: no transaction has got too old, no client was    *)
               (* dropped between the receipt of its request and the        *)
               (* execution, and the slave was not stopped                  *)
    ran,       (* history: the requests executed, by client                 *)
    sent       (* history: the responses written to each connection         *)

vars == <<client, node, connCount, drvq, acking, trans, res, evq, errType, timer, buf, pollPc,
          user, faults, listening, orphaned, calm, ran, sent>>

Conns == 1..MaxConn
Nodes == 0..MaxNodes - 1
Frames == UNION {[conn : {k}, tid : 1..Asks[k]] : k \in Conns}
NoNode == [conn |-> 0]
NoItem == [frame |-> [conn |-> 0, tid |-> 0]]
NoFrame == [conn |-> 0, tid |-> 0]

Up(n) == node[n] # NoNode
Connected(n) == Up(n) /\ node[n].state = "CONNECTED"
Dead(n) == client[node[n].conn].state = "gone"

Fault == faults < MaxFaults /\ faults' = faults + 1

Event(e, n) == [ev |-> e, node |-> n]
All == -1

-------------------------------------------------------------------------------
(* The clients and the select loop of the driver task.                     *)

slots == <<client, node, connCount>>
fsm == <<res, evq, errType, timer, buf, pollPc>>
control == <<user, faults, listening, orphaned, calm>>
history == <<ran, sent>>

\* What mb_drv_open puts into a slot.
Opened(k) == [conn |-> k, state |-> "OPENED", rx |-> <<>>, tx |-> <<>>, tid |-> 0]

\* A client connects.
Arrives(k) == /\ listening /\ client[k].state = "none"
              /\ \A j \in 1..k - 1 : client[j].state # "none"

\* A new connection takes the first free slot.
Accept(k) == /\ Arrives(k)
             /\ client' = [client EXCEPT ![k].state = "up"]
             /\ \E n \in Nodes :
                  /\ ~Up(n) /\ \A m \in 0..n - 1 : Up(m)
                  /\ node' = [node EXCEPT ![n] = Opened(k)]
                  /\ drvq' = Append(drvq, Event("CONNECT", n))
             /\ UNCHANGED <<connCount, acking, trans, fsm, control, history>>

\* All slots are taken.
Refuse(k) == /\ Arrives(k)
             /\ \A n \in Nodes : Up(n)
             /\ client' = [client EXCEPT ![k].state = "gone"]
             /\ UNCHANGED <<node, connCount, drvq, acking, trans, fsm, control, history>>

\* The client sends its next request, and the driver reads it.
Read(n) == /\ acking = NoItem
           /\ Connected(n) /\ ~Dead(n)
           /\ LET k == node[n].conn
                  f == [conn |-> k, tid |-> client[k].asked + 1]
              IN  /\ f.tid =< Asks[k]
                  /\ client' = [client EXCEPT ![k].asked = f.tid]
                  /\ node' = [node EXCEPT ![n].rx = Append(@, f)]
           /\ drvq' = Append(drvq, Event("RECV_DATA", n))
           /\ UNCHANGED <<connCount, acking, trans, fsm, control, history>>

\* A frame with a wrong header, or one for which the rx queue has no room: ERR_BUF.
ReadBad(n) == /\ acking = NoItem
              /\ Connected(n) /\ ~Dead(n) /\ Fault
              /\ timer' = FALSE
              /\ errType' = "RECEIVE_DATA"
              /\ evq' = Append(evq, "ERROR")
              /\ UNCHANGED <<slots, drvq, acking, trans, res, buf, pollPc, user, listening, orphaned, calm,
                             history>>

\* A client closes its connection or is gone.
PeerGone(k) == /\ client[k].state = "up" /\ Fault
               /\ client' = [client EXCEPT ![k].state = "gone"]
               /\ UNCHANGED <<node, connCount, drvq, acking, trans, fsm, user, listening, orphaned, calm,
                              history>>

\* Reading from it fails, until the driver closes the connection.
ReadGone(n) == /\ acking = NoItem
               /\ Connected(n) /\ Dead(n)
               /\ \A i \in DOMAIN drvq : drvq[i] # Event("ERROR", n)
               /\ drvq' = Append(drvq, Event("ERROR", n))
               /\ UNCHANGED <<slots, acking, trans, fsm, control, history>>

\* A transaction has been in the list for too long.
Expire(i) == /\ ~trans[i].old
             /\ acking = NoItem /\ Fault
             /\ trans' = [trans EXCEPT ![i].old = TRUE]
             /\ calm' = FALSE
             /\ UNCHANGED <<slots, drvq, acking, fsm, user, listening, orphaned, history>>

-------------------------------------------------------------------------------
(* The handlers of the driver's events.                                    *)

Handle(e, n) == acking = NoItem /\ drvq # <<>> /\ Head(drvq) = Event(e, n)

\* The connection the event is about has been closed.
HandleGone(e, n) == /\ Handle(e, n) /\ ~Up(n)
                    /\ drvq' = Tail(drvq)
                    /\ UNCHANGED <<slots, acking, trans, fsm, control, history>>

\* A slip: the count has no upper bound.
OnConnectUnbounded(n) == /\ Handle("CONNECT", n) /\ Up(n)
                         /\ node' = [node EXCEPT ![n].state = "CONNECTED"]
                         /\ connCount' = connCount + 1
                         /\ drvq' = Tail(drvq)
                         /\ UNCHANGED <<client, acking, trans, fsm, control, history>>

\* mbs_on_connect
OnConnect(n) == /\ Handle("CONNECT", n) /\ Up(n)
                /\ node' = [node EXCEPT ![n].state = "CONNECTED"]
                /\ connCount' = IF connCount < MaxNodes THEN connCount + 1 ELSE connCount
                /\ drvq' = Tail(drvq)
                /\ UNCHANGED <<client, acking, trans, fsm, control, history>>

\* mbs_on_recv_data begins with the request it was sent for, if it is still there:
\* it becomes the youngest transaction.
Enqueued(n) == IF node[n].rx = <<>> THEN trans ELSE Enqueue(trans, Head(node[n].rx), n)
Popped(n) == IF node[n].rx = <<>> THEN node
             ELSE [node EXCEPT ![n].rx = Tail(@), ![n].tid = Head(node[n].rx).tid]

RecvBegin(n) == Handle("RECV_DATA", n) /\ Up(n) /\ node' = Popped(n)

\* A slip: the state of the oldest transaction is not looked at.
RecvStartAny(n) == /\ RecvBegin(n)
                   /\ Enqueued(n) # <<>> /\ res
                   /\ res' = FALSE
                   /\ timer' = FALSE
                   /\ errType' = "INIT"
                   /\ evq' = Append(evq, "RECEIVED")
                   /\ trans' = Enqueued(n)
                   /\ acking' = Head(Enqueued(n))
                   /\ drvq' = Tail(drvq)
                   /\ UNCHANGED <<client, connCount, buf, pollPc, control, history>>

\* It goes on with the oldest one.  The poll task is free for it.
RecvStart(n) == /\ RecvBegin(n)
                /\ FirstIs(Enqueued(n), {"QUEUED"}) /\ res
                /\ res' = FALSE
                /\ timer' = FALSE
                /\ errType' = "INIT"
                /\ evq' = Append(evq, "RECEIVED")
                /\ trans' = Enqueued(n)
                /\ acking' = Head(Enqueued(n))
                /\ drvq' = Tail(drvq)
                /\ UNCHANGED <<client, connCount, buf, pollPc, control, history>>

RecvAcknowledge == /\ acking # NoItem
                   /\ trans' = ItemSetState(trans, acking, "ACKNOWLEDGED")
                   /\ acking' = NoItem
                   /\ UNCHANGED <<slots, drvq, fsm, control, history>>

\* The poll task is busy for more than 50 ms: the event is sent again.
RecvPostpone(n) == /\ RecvBegin(n)
                   /\ FirstIs(Enqueued(n), {"QUEUED"}) /\ ~res
                   /\ drvq' = IF Head(Enqueued(n)).old THEN Tail(drvq)
                              ELSE Append(Tail(drvq), Event("RECV_DATA", n))
                   /\ trans' = DeleteExpired(Enqueued(n))
                   /\ UNCHANGED <<client, connCount, acking, fsm, control, history>>

\* The oldest transaction is in progress, or there is none.
RecvOngoing(n) == /\ RecvBegin(n)
                  /\ ~FirstIs(Enqueued(n), {"QUEUED"})
                  /\ trans' = DeleteExpired(Enqueued(n))
                  /\ drvq' = Tail(drvq)
                  /\ UNCHANGED <<client, connCount, acking, fsm, control, history>>

\* mbs_on_send_data: the response at the head of the tx queue.
SendBegin(n) == /\ Handle("SEND_DATA", n) /\ Up(n)
                /\ node[n].tx # <<>>
                /\ node' = [node EXCEPT ![n].tx = Tail(@)]

\* The response is that of the oldest transaction, and of the last request that came
\* on its connection.
Current(n) == LET tid == Head(node[n].tx).tid
              IN  /\ trans # <<>>
                  /\ trans[1].node = n /\ trans[1].frame.tid = tid
                  /\ node[n].tid = tid
                  /\ Connected(n)

SendWrite(n) == /\ SendBegin(n)
                /\ Current(n)
                /\ trans' = DeleteItem(SetState(trans, Head(node[n].tx).tid, "TRANSMITTED"), trans[1])
                /\ \/ /\ sent' = [sent EXCEPT ![node[n].conn] = Append(@, Head(node[n].tx))]
                      /\ drvq' = Tail(drvq)
                      /\ UNCHANGED faults
                   \/ /\ IF Dead(n) THEN UNCHANGED faults ELSE Fault
                      /\ drvq' = Append(Tail(drvq), Event("ERROR", n))
                      /\ UNCHANGED sent
                /\ UNCHANGED <<client, connCount, acking, fsm, user, listening, orphaned, calm, ran>>

SendLate(n) == /\ SendBegin(n)
               /\ ~Current(n)
               /\ trans' = Delete(trans, Head(node[n].tx).tid)
               /\ drvq' = Tail(drvq)
               /\ UNCHANGED <<client, connCount, acking, fsm, control, history>>

SendNothing(n) == /\ Handle("SEND_DATA", n) /\ Up(n)
                  /\ node[n].tx = <<>>
                  /\ drvq' = Tail(drvq)
                  /\ UNCHANGED <<slots, acking, trans, fsm, control, history>>

\* mb_drv_close of the slots S: each that is connected is counted off.
Ended(K) == [k \in Conns |-> IF k \in K THEN [client[k] EXCEPT !.state = "gone"] ELSE client[k]]

CountWithout(S) == LET c == connCount - Cardinality({n \in S : Connected(n)})
                   IN  IF c > 0 THEN c ELSE 0

\* port_check_alive: a connection is taken for dead when it is, but also when its socket
\* cannot be written to at once.
FoundDead(n) == IF Dead(n) THEN UNCHANGED faults ELSE Fault

\* The poll task has received a request of n and is yet to execute it.
Interrupts(n) == /\ \E i \in DOMAIN evq : evq[i] = "EXECUTE"
                 /\ \E i \in DOMAIN trans : trans[i].node = n /\ trans[i].state = "CONFIRMED"

\* A node from which nothing has come for half a second is checked, and dropped, wherever
\* the poll task is.
Drop(n) == /\ FoundDead(n)
           /\ trans' = DeleteByNode(trans, n)
           /\ calm' = (calm /\ ~Interrupts(n))
           /\ node' = [node EXCEPT ![n] = NoNode]
           /\ client' = Ended({node[n].conn})
           /\ connCount' = CountWithout({n})

\* mbs_on_error checks the first connected slot from the one of the event on.
CheckedFrom(n, m) == /\ m >= n /\ Connected(m)
                     /\ \A i \in n..m - 1 : ~Connected(i)

OnError(n) == /\ Handle("ERROR", n) /\ Up(n)
              /\ drvq' = Tail(drvq)
              /\ \/ \E m \in Nodes : CheckedFrom(n, m) /\ Drop(m)
                 \/ UNCHANGED <<slots, trans, faults, calm>>
              /\ UNCHANGED <<acking, fsm, user, listening, orphaned, history>>

\* mbs_on_timeout: nothing has happened for 200 ms.
OnTimeout(n) == /\ acking = NoItem /\ drvq = <<>>
                /\ Connected(n) /\ Drop(n)
                /\ UNCHANGED <<drvq, acking, fsm, user, listening, orphaned, history>>

\* mbs_on_ready: the listening socket is bound, or not, and then tried again or given up.
OnReady == /\ Handle("READY", All)
           /\ \/ /\ drvq' = Tail(drvq)
                 /\ evq' = Append(evq, "READY")
                 /\ listening' = TRUE
                 /\ UNCHANGED faults
              \/ /\ Fault
                 /\ \E e \in {"READY", "CLOSE"} : drvq' = Append(Tail(drvq), Event(e, All))
                 /\ UNCHANGED <<evq, listening>>
           /\ UNCHANGED <<slots, acking, trans, res, errType, timer, buf, pollPc, user, orphaned, calm,
                          history>>

\* mbs_on_close: every slot is closed.  The transactions stay.
OnClose == /\ Handle("CLOSE", All)
           /\ drvq' = Tail(drvq)
           /\ node' = [n \in Nodes |-> NoNode]
           /\ client' = Ended({node[n].conn : n \in {m \in Nodes : Up(m)}})
           /\ connCount' = CountWithout({n \in Nodes : Up(n)})
           /\ orphaned' = (orphaned \/ trans # <<>> \/ \E i \in DOMAIN drvq : drvq[i].ev = "CONNECT")
           /\ UNCHANGED <<acking, trans, fsm, user, faults, listening, calm, history>>

-------------------------------------------------------------------------------
(* The poll task.  On a core of its own it may overtake the driver task     *)
(* between its event and its acknowledgement.                               *)

PollRuns == acking = NoItem \/ Parallel

PollGets(e) == /\ PollRuns /\ pollPc = "get" /\ user # "stopped"
               /\ evq # <<>> /\ Head(evq) = e

\* EV_READY
PollReady == /\ PollGets("READY")
             /\ evq' = Tail(evq)
             /\ res' = TRUE
             /\ UNCHANGED <<slots, drvq, acking, trans, errType, timer, buf, pollPc, control, history>>

\* EV_FRAME_RECEIVED: mbs_port_tcp_recv_data takes over the oldest transaction, once it is
\* acknowledged.  A request for another slave is ignored, if the unit identifier counts.
Readable == FirstIs(trans, {"ACKNOWLEDGED"}) /\ Connected(Head(trans).node)

PollReceive == /\ PollGets("RECEIVED") /\ Readable
               /\ buf' = Head(trans).frame
               /\ trans' = [trans EXCEPT ![1].state = "CONFIRMED"]
               /\ \E own \in IF UidEnabled THEN BOOLEAN ELSE {TRUE} :
                     evq' = IF own THEN Append(Tail(evq), "EXECUTE") ELSE Tail(evq)
               /\ UNCHANGED <<slots, drvq, acking, res, errType, timer, pollPc, control, history>>

PollNoReceive == /\ PollGets("RECEIVED") /\ ~Readable
                 /\ trans' = IF FirstIs(trans, {"ACKNOWLEDGED"}) THEN trans ELSE DeleteExpired(trans)
                 /\ errType' = "RECEIVE_DATA"
                 /\ evq' = Append(Tail(evq), "ERROR")
                 /\ UNCHANGED <<slots, drvq, acking, res, timer, buf, pollPc, control, history>>

\* EV_EXECUTE: the handler runs, ...
PollExecute == /\ PollGets("EXECUTE")
               /\ evq' = Tail(evq)
               /\ ran' = [ran EXCEPT ![buf.conn] = Append(@, buf.tid)]
               /\ pollPc' = "send"
               /\ UNCHANGED <<slots, drvq, acking, trans, res, errType, timer, buf, control, sent>>

\* ... and mbs_port_tcp_send_data sends the response if the oldest transaction is
\* still the one confirmed.  mb_drv_write queues it for a slot that is connected;
\* for another it fails with -1, which is taken for success.
Sendable == /\ FirstIs(trans, {"CONFIRMED"})
            /\ Up(Head(trans).node) /\ Head(trans).frame.tid = buf.tid

PollSend == /\ pollPc = "send" /\ PollRuns
            /\ Sendable
            /\ LET n == Head(trans).node
               IN  IF Connected(n) THEN /\ node' = [node EXCEPT ![n].tx = Append(@, buf)]
                                        /\ drvq' = Append(drvq, Event("SEND_DATA", n))
                   ELSE UNCHANGED <<node, drvq>>
            /\ trans' = [trans EXCEPT ![1].state = "REPLIED"]
            /\ pollPc' = "sent"
            /\ UNCHANGED <<client, connCount, acking, res, evq, errType, timer, buf, control, history>>

\* A mutant of PollNoSend: nothing is posted.
PollNoSendSilent == /\ pollPc = "send" /\ PollRuns
                    /\ ~Sendable
                    /\ trans' = IF FirstIs(trans, {"CONFIRMED"}) THEN Tail(trans) ELSE trans
                    /\ errType' = "RESPOND_TIMEOUT"
                    /\ pollPc' = "get"
                    /\ UNCHANGED <<slots, drvq, acking, res, evq, timer, buf, control, history>>

\* A transaction that does not fit is given up; its slot is free, it is logged through
\* the node that is not there.
PollNoSend == /\ pollPc = "send" /\ PollRuns
              /\ ~Sendable
              /\ trans' = IF FirstIs(trans, {"CONFIRMED"}) THEN Tail(trans) ELSE trans
              /\ errType' = "RESPOND_TIMEOUT"
              /\ evq' = Append(evq, "ERROR")
              /\ pollPc' = "get"
              /\ UNCHANGED <<slots, drvq, acking, res, timer, buf, control, history>>

PollPostSent == /\ pollPc = "sent" /\ PollRuns
                /\ evq' = Append(evq, "SENT")
                /\ pollPc' = "get"
                /\ UNCHANGED <<slots, drvq, acking, trans, res, errType, timer, buf, control, history>>

\* EV_FRAME_SENT ends the transaction, unless there is an error, whose event is on its way.
PollSent == /\ PollGets("SENT")
            /\ IF errType = "INIT" THEN /\ errType' = "OK"
                                        /\ evq' = Append(Tail(evq), "ERROR")
               ELSE evq' = Tail(evq) /\ UNCHANGED errType
            /\ UNCHANGED <<slots, drvq, acking, trans, res, timer, buf, pollPc, control, history>>

\* EV_ERROR_PROCESS
PollError == /\ PollGets("ERROR")
             /\ evq' = Tail(evq)
             /\ errType' = "INIT"
             /\ timer' = FALSE
             /\ res' = TRUE
             /\ UNCHANGED <<slots, drvq, acking, trans, buf, pollPc, control, history>>

\* The T35 timer that was started with the transport: mbs_tcp_transp_timer_expired.
TimerExpires == /\ timer
                /\ timer' = FALSE
                /\ evq' = Append(evq, "READY")
                /\ UNCHANGED <<slots, drvq, acking, trans, res, errType, buf, pollPc, control, history>>

-------------------------------------------------------------------------------
(* The user starts and stops the slave.                                    *)

\* mbs_tcp_transp_start: the driver binds its socket, and EV_READY is posted at once.
Start == /\ user = "stopped"
         /\ user' = "running"
         /\ drvq' = Append(drvq, Event("READY", All))
         /\ evq' = Append(evq, "READY")
         /\ timer' = TRUE
         /\ UNCHANGED <<slots, acking, trans, res, errType, buf, pollPc, faults, listening, orphaned,
                        calm, history>>

\* mbs_port_tcp_disable asks the driver to close all connections and waits for it, for
\* at most MB_RECONNECT_TIME_MS and not at all the second time: the flag is still set.
Stop == /\ user = "running" /\ Fault
        /\ user' = "stopping"
        /\ drvq' = Append(drvq, Event("CLOSE", All))
        /\ calm' = FALSE
        /\ UNCHANGED <<slots, acking, trans, fsm, listening, orphaned, history>>

Stopped == /\ user = "stopping"
           /\ user' = "stopped"
           /\ timer' = FALSE
           /\ UNCHANGED <<slots, drvq, acking, trans, res, evq, errType, buf, pollPc, faults,
                          listening, orphaned, calm, history>>

-------------------------------------------------------------------------------
Init == /\ client = [k \in Conns |-> [state |-> "none", asked |-> 0]]
        /\ node = [n \in Nodes |-> NoNode]
        /\ connCount = 0
        /\ drvq = <<>> /\ acking = NoItem /\ trans = <<>>
        /\ res = FALSE /\ evq = <<>> /\ errType = "INIT" /\ timer = FALSE
        /\ buf = NoFrame /\ pollPc = "get"
        /\ user = "stopped"
        /\ faults = 0
        /\ listening = FALSE /\ orphaned = FALSE /\ calm = TRUE
        /\ ran = [k \in Conns |-> <<>>] /\ sent = [k \in Conns |-> <<>>]

Clients == \/ \E k \in Conns : Accept(k) \/ Refuse(k) \/ PeerGone(k)
           \/ \E n \in Nodes : Read(n) \/ ReadBad(n)
           \/ \E i \in DOMAIN trans : Expire(i)

Driver == \/ RecvAcknowledge \/ OnReady \/ OnClose
          \/ \E n \in Nodes :
                \/ \E e \in {"CONNECT", "RECV_DATA", "SEND_DATA", "ERROR"} : HandleGone(e, n)
                \/ OnConnect(n)
                \/ RecvStart(n) \/ RecvPostpone(n) \/ RecvOngoing(n)
                \/ SendWrite(n) \/ SendLate(n) \/ SendNothing(n)
                \/ OnError(n)

Idle == \E n \in Nodes : ReadGone(n) \/ OnTimeout(n)

Poll == \/ PollReady \/ PollReceive \/ PollNoReceive
        \/ PollExecute \/ PollSend \/ PollNoSend \/ PollPostSent
        \/ PollSent \/ PollError

Next == Clients \/ Driver \/ Idle \/ Poll \/ TimerExpires \/ Start \/ Stop \/ Stopped

Spec == Init /\ [][Next]_vars

-------------------------------------------------------------------------------
(* Properties.                                                             *)

TypeOK ==
    /\ client \in [Conns -> [state : {"none", "up", "gone"}, asked : Nat]]
    /\ \A n \in Nodes : Up(n) =>
          /\ node[n].conn \in Conns /\ node[n].state \in {"OPENED", "CONNECTED"}
          /\ \A i \in DOMAIN node[n].rx : node[n].rx[i] \in Frames
          /\ \A i \in DOMAIN node[n].tx : node[n].tx[i] \in Frames
          /\ node[n].tid \in 0..Asks[node[n].conn]
    /\ connCount \in 0..MaxNodes
    /\ \A i \in DOMAIN drvq : drvq[i].node \in Nodes \union {All}
    /\ \A i \in DOMAIN trans : /\ trans[i].frame \in Frames /\ trans[i].node \in Nodes
                               /\ trans[i].state \in States
    /\ res \in BOOLEAN /\ timer \in BOOLEAN /\ listening \in BOOLEAN /\ orphaned \in BOOLEAN
    /\ calm \in BOOLEAN
    /\ \A i \in DOMAIN evq : evq[i] \in {"READY", "RECEIVED", "EXECUTE", "SENT", "ERROR"}
    /\ errType \in {"INIT", "OK", "RECEIVE_DATA", "RESPOND_TIMEOUT"}
    /\ buf \in Frames \union {NoFrame}
    /\ pollPc \in {"get", "send", "sent"}
    /\ user \in {"stopped", "running", "stopping"}

\* A response goes to the client that has asked for it, although the identifiers of
\* different clients coincide and slots are used again: mbs_on_send_data compares with
\* the oldest transaction and the last request of the slot.  Only a stop that leaves
\* transactions behind breaks it.
ToItsOwner(k) == \A i \in DOMAIN sent[k] : sent[k][i].conn = k
AnswersOwn == ~orphaned => \A k \in Conns : ToItsOwner(k)

\* Every queued transaction belongs to the connection that has its slot now.
ItemsAreOfTheirSlot == ~orphaned => \A i \in DOMAIN trans :
    /\ Up(trans[i].node)
    /\ node[trans[i].node].conn = trans[i].frame.conn

Increasing(seq) == \A i, j \in DOMAIN seq : i < j => seq[i] < seq[j]

\* No request is executed twice, and none before an earlier one of its client, as long
\* as no transaction waits for more than MB_DROP_TRANSACTION_TIME_US, the slave is not
\* stopped, and no client is dropped between the receipt of its request by the poll task
\* and the execution.  Clients dropped at any other time, damaged frames and errors of
\* the driver in between do no harm.  The hypothesis is needed: a transaction taken away
\* there leaves its EV_EXECUTE behind, the request of the next one is received
\* before it, and is executed twice with the same buffer.
ExecutedInOrder == calm => \A k \in Conns : Increasing(ran[k])

\* No request is answered twice, and a client gets its responses in order; what is
\* answered has been executed.
AnsweredInOrder == ~orphaned => \A k \in Conns :
    /\ Increasing([i \in DOMAIN sent[k] |-> sent[k][i].tid])
    /\ \A i \in DOMAIN sent[k] : \E j \in DOMAIN ran[k] : ran[k][j] = sent[k][i].tid

\* While the resource is taken, an event is on its way or a handler is running that
\* leads to EV_ERROR_PROCESS, where it is given back: nothing else wakes the poll task.
HeldIsDriven == ~res /\ user = "running" => evq # <<>> \/ pollPc # "get"
================================================================================
