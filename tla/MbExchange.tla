-------------------------------- MODULE MbExchange --------------------------------
(***************************************************************************)
(* A value on its way between a master's application and a slave's         *)
(* registers: the composition of the parameter interface of the master     *)
(* (mbc_*_master.c, esp_modbus_master.c), the functions of the protocol    *)
(* (MbFunctions), and the areas and notifications of the slave             *)
(* (esp_modbus_slave.c, mbc_*_slave.c).                                    *)
(*                                                                         *)
(* The actors are the application of the master, whose own requests carry  *)
(* raw data or parameters; other masters, which send any frame of a given  *)
(* set; the slave's stack task, which handles one request at a time and    *)
(* can be preempted between the transfer of the data, the event bit and    *)
(* the parameter info; and the slave's application, which registers areas, *)
(* writes its own registers under the lock, waits for an event and takes   *)
(* the infos that are queued.  Transports, routing, retries and stale      *)
(* answers are the subject of the other modules: here a frame arrives or   *)
(* is lost, and an answer goes to the call that asked for it or to none,   *)
(* as the transaction identifiers of TCP see to.                           *)
(***************************************************************************)
EXTENDS MbFunctions, MbData

CONSTANTS
    AreaList,      \* the areas the application registers, in this order
    Params,        \* the data dictionary of the master
    ParamValues,   \* type -> the values given to parameters of the type
    RawCalls,      \* the requests the application sends as they are
    ForeignFrames, \* what other masters send
    AppWrites,     \* [type, addr, value] the slave's application may write
    EarlyAreas,    \* (* bound *) how many of them at least before the first request
    MaxAsks,       \* (* bound *) requests of all masters together
    MaxFaults,     \* (* bound *) frames lost and calls given up
    QueueSize,     \* CONFIG_FMB_CONTROLLER_NOTIFY_QUEUE_SIZE
    InfoPrompt     \* the stack task sends an info within the time the application waits for it

VARIABLES
    areas,    \* the lists of area descriptors
    next,     \* the next area of AreaList to register
    call,     \* the request of the master's application, with its outcome
    wire,     \* master -> the frame on its way to or from the slave
    slave,    \* what the stack task is doing
    bits,     \* the event group
    queue,    \* the parameter infos
    app,      \* the slave's application: waiting for an event, or taking infos
    asks,     \* requests sent so far
    faults,   \* faults so far
    held,     \* what the slave's registers held when the own request read or wrote them
    unseen,   \* cells that were written and that no info taken since tells of
    dropped   \* an info was dropped

vars == <<areas, next, call, wire, slave, bits, queue, app, asks, faults, held, unseen, dropped>>

Masters == {"own", "foreign"}

\* The registers a request is about
TypeOf(rq) ==
    CASE rq.fn \in {"ReadCoils", "WriteCoil", "WriteCoils"} -> "COIL"
      [] rq.fn = "ReadDiscrete" -> "DISCRETE"
      [] rq.fn = "ReadInput" -> "INPUT"
      [] OTHER -> "HOLDING"

Readers == {"ReadCoils", "ReadDiscrete", "ReadInput", "ReadHolding", "RwHoldings"}
Writers == {"WriteCoil", "WriteCoils", "WriteHolding", "WriteHoldings", "RwHoldings"}

Byte == 0..ByteTop - 1

\* The cells of a type
CellOf(type) == IF type \in RegisterTypes THEN Byte \X Byte ELSE Bits

\* An area whose memory holds what its size says
IsArea(type, area) ==
    area \in [start : Nat, size : Nat, access : {"RO", "WO", "RW"},
              data : [0..RegSize(type, area.size) - 1 -> CellOf(type)]]

\* A call whose buffer is as long as its size says, and has a value in it if one coil or one
\* register is to be written
IsCall(c) ==
    /\ c \in [fn : Readers \cup Writers, addr : Nat, size : Nat, buf : {c.buf}]
    /\ c.fn \in {"WriteCoil", "WriteHolding"} => c.size # 0
    /\ c.buf \in [1..c.size -> IF c.fn = "WriteCoil" THEN {<<b>> : b \in Byte}
                               ELSE CellOf(TypeOf(c))]

\* A frame whose data are as many as its fields say
IsFrame(rq) ==
    /\ rq \in [fn : Readers \cup Writers \cup {"Unknown"}, addr : Nat, cnt : Nat, waddr : Nat,
               wcnt : Nat, bytes : Nat, data : {rq.data}, fits : BOOLEAN]
    /\ rq.fn # "RwHoldings" => rq.waddr = rq.addr /\ rq.wcnt = rq.cnt
    /\ rq.fn \in {"WriteCoil", "WriteHolding"} => rq.wcnt = 1
    /\ rq.fn \in Writers =>
          rq.data \in [1..rq.wcnt -> IF rq.fn = "WriteCoil" THEN {<<b>> : b \in Byte}
                                     ELSE CellOf(TypeOf(rq))]

\* An entry of the data dictionary: parameters in registers, which hold their bytes
IsParam(param) ==
    /\ param \in [area : {"HOLDING", "INPUT"}, addr : Nat, size : Nat \ {0},
                  type : DOMAIN PlainTypes \cup ByteTypes \cup Types16 \cup Types32 \cup Types64,
                  bytes : Nat, access : SUBSET {"read", "write"}]
    /\ param.bytes =< 2 * param.size

ASSUME ExchangeAssumption ==
    /\ AreaList \in Seq({AreaList[i] : i \in DOMAIN AreaList})
    /\ \A i \in DOMAIN AreaList :
          /\ AreaList[i] \in [type : AreaTypes, area : {AreaList[i].area}]
          /\ IsArea(AreaList[i].type, AreaList[i].area)
    /\ \A c \in RawCalls : IsCall(c)
    /\ \A rq \in ForeignFrames : IsFrame(rq)
    /\ \A param \in Params :
          /\ IsParam(param)
          /\ \A value \in ParamValues[param.type] :
                value \in Seq(Byte) /\ param.bytes =< Len(value)
    /\ \A w \in AppWrites :
          /\ w \in [type : AreaTypes, addr : Nat, value : {w.value}]
          /\ w.value \in CellOf(w.type)
    /\ {EarlyAreas, MaxAsks, MaxFaults, QueueSize} \subseteq Nat
    /\ InfoPrompt \in BOOLEAN

NoParam == [type |-> "none"]
NoCall  == [kind |-> "none", param |-> NoParam, value |-> <<>>, fn |-> "none", addr |-> 0,
            size |-> 0, buf |-> <<>>, rq |-> NoFrame, state |-> "none", ex |-> "NONE", no |-> 0]
Nothing == [kind |-> "none"]

\* The stack task: the request it is at with the master it is from and the number of the
\* call, the callbacks still to make, the kinds done and the data read, the outcome, and
\* the info to send
Idle    == [phase |-> "idle", from |-> "own", rq |-> NoFrame, calls |-> <<>>,
            done |-> {}, data |-> <<>>, ex |-> "NONE", info |-> Info("none", 0, 0), no |-> 0]

\* The register pairs of a buffer of bytes, and its bytes.  What a value does not fill
\* is zero (calloc).
Pairs(bytes, n) ==
    LET At(k) == IF k \in DOMAIN bytes THEN bytes[k] ELSE 0
    IN  [i \in 1..n |-> <<At(2 * i - 1), At(2 * i)>>]
Bytes(pairs) == [k \in 1..2 * Len(pairs) |-> pairs[(k + 1) \div 2][((k + 1) % 2) + 1]]

\* Cells as they lie in the slave's memory
Memory(list, type, addr, n) ==
    [i \in 1..n |-> LET a == addr + i - 1
                        area == list[type][Find(list, type, a, 1)]
                    IN  area.data[a - area.start]]

--------------------------------------------------------------------------------
(* The slave's application                                                 *)

\* mbc_slave_set_descriptor
DefineArea ==
    /\ next =< Len(AreaList)
    /\ next' = next + 1
    /\ LET item == AreaList[next]
       IN  areas' = IF MayDefine(areas, item.type, item.area)
                    THEN SetDescriptor(areas, item.type, item.area) ELSE areas
    /\ UNCHANGED <<call, wire, slave, bits, queue, app, asks, faults, held, unseen, dropped>>

\* It writes a register between mbc_slave_lock and mbc_slave_unlock.
AppWrite ==
    /\ \E w \in AppWrites :
          /\ Holding(areas, w.type, w.addr, 1) # {}
          /\ LET i == Find(areas, w.type, w.addr, 1)
             IN  areas' = [areas EXCEPT ![w.type][i].data[w.addr - areas[w.type][i].start]
                                            = w.value]
    /\ UNCHANGED <<next, call, wire, slave, bits, queue, app, asks, faults, held, unseen, dropped>>

\* mbc_slave_check_event: waits for any event, and clears them all
CheckEvent ==
    /\ app = "wait"
    /\ bits # {}
    /\ bits' = {}
    /\ app' = "take"
    /\ UNCHANGED <<areas, next, call, wire, slave, queue, asks, faults, held, unseen, dropped>>

Told(info) ==
    LET type == IF info.event = "HOLDING_WR" THEN "HOLDING" ELSE "COIL"
    IN  IF info.event \in {"HOLDING_WR", "COILS_WR"}
        THEN {<<type, a>> : a \in info.addr..info.addr + info.size - 1} ELSE {}

\* mbc_slave_get_param_info
GetInfo ==
    /\ app = "take"
    /\ queue # <<>>
    /\ queue' = Tail(queue)
    /\ unseen' = unseen \ Told(Head(queue))
    /\ UNCHANGED <<areas, next, call, wire, slave, bits, app, asks, faults, held, dropped>>

\* ... which times out, and the application waits for an event again
GetTimeout ==
    /\ app = "take"
    /\ queue = <<>>
    /\ InfoPrompt => slave.phase # "info"
    /\ app' = "wait"
    /\ UNCHANGED <<areas, next, call, wire, slave, bits, queue, asks, faults, held, unseen, dropped>>

--------------------------------------------------------------------------------
(* The master's application                                                *)

MayAsk == next > EarlyAreas /\ asks < MaxAsks /\ wire["own"] = Nothing /\ call.state # "sent"

\* mbc_*_master_send_request: the builder may refuse the arguments
Ask(kind, param, value, c) ==
    LET rq == Request(c)
    IN  /\ asks' = asks + 1
        /\ call' = [kind |-> kind, param |-> param, value |-> value,
                    fn |-> c.fn, addr |-> c.addr, size |-> c.size, buf |-> c.buf, rq |-> rq,
                    state |-> IF rq = NoFrame THEN "done" ELSE "sent",
                    ex |-> IF rq = NoFrame THEN "EINVAL" ELSE "NONE", no |-> asks + 1]
        /\ wire' = IF rq = NoFrame THEN wire
                   ELSE [wire EXCEPT !["own"] = [kind |-> "request", frame |-> rq, no |-> asks + 1]]
        /\ held' = <<>>

AskRaw ==
    /\ MayAsk
    /\ \E c \in RawCalls : Ask("raw", NoParam, <<>>, c)
    /\ UNCHANGED <<areas, next, slave, bits, queue, app, faults, unseen, dropped>>

\* mbc_*_master_set_parameter
SetParameter ==
    /\ MayAsk
    /\ \E param \in Params : \E value \in ParamValues[param.type] :
          /\ GetCommand(param, "write") # "none"
          /\ Ask("set", param, value,
                 [fn |-> GetCommand(param, "write"), addr |-> param.addr, size |-> param.size,
                  buf |-> Pairs(Converted(param.type, param.bytes, value), param.size)])
    /\ UNCHANGED <<areas, next, slave, bits, queue, app, faults, unseen, dropped>>

\* mbc_*_master_get_parameter
GetParameter ==
    /\ MayAsk
    /\ \E param \in Params :
          /\ GetCommand(param, "read") # "none"
          /\ Ask("get", param, <<>>,
                 [fn |-> GetCommand(param, "read"), addr |-> param.addr, size |-> param.size,
                  buf |-> Pairs(<<>>, param.size)])
    /\ UNCHANGED <<areas, next, slave, bits, queue, app, faults, unseen, dropped>>

\* The value get_parameter returns
Value(c) == Converted(c.param.type, c.param.bytes, Bytes(c.buf))

\* The answer arrives: mbm_check_invoke_handler, or the exception of the answer
Receive ==
    /\ wire["own"].kind = "answer"
    /\ wire' = [wire EXCEPT !["own"] = Nothing]
    /\ call' = IF call.state # "sent" THEN call
               ELSE LET answer == wire["own"].answer
                        took   == MasterHandler(call, call.rq, answer.frame)
                    IN  IF answer.ex # "NONE" THEN [call EXCEPT !.state = "done", !.ex = answer.ex]
                        ELSE [call EXCEPT !.state = "done", !.ex = took.ex, !.buf = took.buf]
    /\ UNCHANGED <<areas, next, slave, bits, queue, app, asks, faults, held, unseen, dropped>>

\* The response timer expires, because a frame was lost or too early.
Unanswerable == wire["own"] = Nothing /\ (slave.phase = "idle" \/ slave.no # call.no)

GiveUp ==
    /\ call.state = "sent"
    /\ call' = [call EXCEPT !.state = "done", !.ex = "ETIMEDOUT"]
    /\ \/ /\ Unanswerable
          /\ UNCHANGED faults
       \/ /\ ~Unanswerable
          /\ faults < MaxFaults
          /\ faults' = faults + 1
    /\ UNCHANGED <<areas, next, wire, slave, bits, queue, app, asks, held, unseen, dropped>>

Lose ==
    /\ wire["own"] # Nothing
    /\ faults < MaxFaults
    /\ faults' = faults + 1
    /\ wire' = [wire EXCEPT !["own"] = Nothing]
    /\ UNCHANGED <<areas, next, call, slave, bits, queue, app, asks, held, unseen, dropped>>

\* Another master sends something.  What becomes of its answer does not matter here.
ForeignAsk ==
    /\ next > EarlyAreas /\ asks < MaxAsks
    /\ wire["foreign"] = Nothing
    /\ asks' = asks + 1
    /\ \E rq \in ForeignFrames :
          wire' = [wire EXCEPT !["foreign"] = [kind |-> "request", frame |-> rq, no |-> 0]]
    /\ UNCHANGED <<areas, next, call, slave, bits, queue, app, faults, held, unseen, dropped>>

--------------------------------------------------------------------------------
(* The slave's stack task                                                  *)

\* EV_FRAME_RECEIVED
Take ==
    /\ slave.phase = "idle"
    /\ \E m \in Masters :
          /\ wire[m].kind = "request"
          /\ slave' = [Idle EXCEPT !.phase = "execute", !.from = m, !.rq = wire[m].frame,
                                !.no = wire[m].no]
          /\ wire' = [wire EXCEPT ![m] = Nothing]
    /\ UNCHANGED <<areas, next, call, bits, queue, app, asks, faults, held, unseen, dropped>>

Answered(s, ex) == [s EXCEPT !.phase = "answer", !.ex = ex, !.calls = <<>>]

\* The master still waits for what the slave does.
Awaited == call.state = "sent" /\ slave.no = call.no

\* EV_EXECUTE: the handler checks the request
Execute ==
    /\ slave.phase = "execute"
    /\ LET h == SlaveHandler(slave.rq)
       IN  slave' = IF h.calls = <<>> THEN Answered(slave, h.ex)
                    ELSE [slave EXCEPT !.phase = "call", !.calls = h.calls]
    /\ UNCHANGED <<areas, next, call, wire, bits, queue, app, asks, faults, held, unseen, dropped>>

Run(cb) ==
    CASE cb.type = "INPUT"    -> InputCb(areas, cb.addr, cb.n)
      [] cb.type = "HOLDING"  -> HoldingCb(areas, cb.addr, cb.n, cb.mode, cb.data)
      [] cb.type = "COIL"     -> CoilsCb(areas, cb.addr, cb.n, cb.mode, cb.data)
      [] cb.type = "DISCRETE" -> DiscreteCb(areas, cb.addr, cb.n)

\* A callback looks the area up and transfers the data under the lock, ...
Transfer ==
    /\ slave.phase = "call"
    /\ LET cb == Head(slave.calls)
           r  == Run(cb)
           range == {<<cb.type, a>> : a \in cb.addr..cb.addr + cb.n - 1}
       IN  /\ areas' = r.areas
           /\ slave' = IF r.err # "ENOERR" THEN Answered(slave, ExceptionOf(r.err))
                       ELSE [slave EXCEPT !.phase = "notify", !.done = @ \cup {cb.mode},
                                          !.data = IF cb.mode = "READ" THEN r.data ELSE @,
                                          !.info = r.info]
           /\ unseen' = IF r.err = "ENOERR" /\ cb.mode = "WRITE" THEN unseen \cup range
                                                               ELSE unseen
           /\ held' = IF r.err = "ENOERR" /\ Awaited
                      THEN Memory(areas', cb.type, cb.addr, cb.n) ELSE held
    /\ UNCHANGED <<next, call, wire, bits, queue, app, asks, faults, dropped>>

\* ... sets the event (mbc_slave_send_param_access_notification), ...
Notify ==
    /\ slave.phase = "notify"
    /\ bits' = bits \cup {slave.info.event}
    /\ slave' = [slave EXCEPT !.phase = "info"]
    /\ UNCHANGED <<areas, next, call, wire, queue, app, asks, faults, held, unseen, dropped>>

CallbackDone(s) ==
    IF Len(s.calls) = 1 THEN Answered(s, "NONE")
                        ELSE [s EXCEPT !.phase = "call", !.calls = Tail(@)]

\* ... and queues the info (mbc_slave_send_param_info).  A queue that stays full for
\* MB_PAR_INFO_TOUT drops it.
Inform ==
    /\ slave.phase = "info"
    /\ slave' = CallbackDone(slave)
    /\ \/ /\ Len(queue) < QueueSize
          /\ queue' = Append(queue, slave.info)
          /\ UNCHANGED dropped
       \/ /\ Len(queue) = QueueSize
          /\ dropped' = TRUE
          /\ UNCHANGED queue
    /\ UNCHANGED <<areas, next, call, wire, bits, app, asks, faults, held, unseen>>

\* The answer is sent.
Reply ==
    /\ slave.phase = "answer"
    /\ slave' = Idle
    /\ wire' = IF Awaited
               THEN [wire EXCEPT !["own"] = [kind |-> "answer",
                                             answer |-> Answer(slave.rq, slave.ex, slave.data)]]
               ELSE wire
    /\ UNCHANGED <<areas, next, call, bits, queue, app, asks, faults, held, unseen, dropped>>

--------------------------------------------------------------------------------
Init ==
    /\ areas = [type \in AreaTypes |-> <<>>]
    /\ next = 1
    /\ call = NoCall
    /\ wire = [m \in Masters |-> Nothing]
    /\ slave = Idle
    /\ bits = {}
    /\ queue = <<>>
    /\ app = "wait"
    /\ asks = 0
    /\ faults = 0
    /\ held = <<>>
    /\ unseen = {}
    /\ dropped = FALSE

Application == DefineArea \/ AppWrite \/ CheckEvent \/ GetInfo \/ GetTimeout
Master == AskRaw \/ SetParameter \/ GetParameter \/ Receive \/ GiveUp \/ Lose \/ ForeignAsk
Stack == Take \/ Execute \/ Transfer \/ Notify \/ Inform \/ Reply

Next == Application \/ Master \/ Stack

Spec == Init /\ [][Next]_vars

--------------------------------------------------------------------------------
(* Properties                                                              *)

TypeOK ==
    /\ next \in 1..Len(AreaList) + 1
    /\ call.state \in {"none", "sent", "done"}
    /\ \A m \in Masters : wire[m].kind \in {"none", "request", "answer"}
    /\ slave.phase \in {"idle", "execute", "call", "notify", "info", "answer"}
    /\ slave.from \in Masters
    /\ slave.done \subseteq {"READ", "WRITE"}
    /\ Len(slave.calls) =< 2
    /\ slave.phase \in {"call", "notify", "info"} => slave.calls # <<>>
    /\ Len(queue) =< QueueSize
    /\ app \in {"wait", "take"}
    /\ asks =< MaxAsks /\ faults =< MaxFaults
    /\ dropped \in BOOLEAN

(* What a request reads and writes, cell by cell, in the order of its data *)
Named(rq, first, n) == [i \in 1..n |-> <<TypeOf(rq), first + i - 1>>]
ReadBy(rq) == IF rq.fn \in Readers THEN Named(rq, rq.addr, rq.cnt) ELSE <<>>
WrittenBy(rq) == IF rq.fn \in Writers THEN Named(rq, rq.waddr, rq.wcnt) ELSE <<>>

(* A cell's value as the protocol carries it *)
OnWire(type, value) == IF type \in RegisterTypes THEN <<value[2], value[1]>> ELSE value

Contents(type, area) ==
    {<< <<type, area.start + k>>, OnWire(type, area.data[k])>> : k \in DOMAIN area.data}
ContentsOf(type) == UNION {Contents(type, areas[type][i]) : i \in DOMAIN areas[type]}

Map == INSTANCE RegisterMap WITH
    Updates <- {<< <<w.type, w.addr>>, OnWire(w.type, w.value) >> : w \in AppWrites},
    map <- UNION {ContentsOf(type) : type \in AreaTypes},
    job <- IF slave.phase \in {"idle", "answer"} THEN
               [read |-> <<>>, write |-> <<>>, data |-> <<>>, wrote |-> FALSE, got |-> <<>>]
           ELSE [read |-> ReadBy(slave.rq), write |-> WrittenBy(slave.rq),
                 data |-> slave.rq.data, wrote |-> "WRITE" \in slave.done, got |-> slave.data],
    reply <- IF slave.phase = "answer" /\ slave.ex = "NONE" THEN [ok |-> TRUE, got |-> slave.data]
             ELSE [ok |-> FALSE, got |-> <<>>]

(* However the areas are laid out and whoever works on them at the same    *)
(* time, the slave is a map of registers: a request that is answered       *)
(* without exception wrote and read exactly the registers it names, each   *)
(* way at one instant, and a refused one left them alone (but for the      *)
(* write of a read-and-write whose read is refused).                       *)
ImplementsRegisterMap == Map!Spec

(* A value set by set_parameter with ESP_OK is the value a slave           *)
(* application gets from its registers with the getter of the same type,   *)
(* at the moment of the write.                                             *)
SetIsWhatSlaveGets ==
    (call.state = "done" /\ call.kind = "set" /\ call.ex = "NONE") =>
        /\ Len(held) = call.param.size
        /\ SlaveView(call.param.type, call.param.bytes, Bytes(held)) =
              Converted(call.param.type, call.param.bytes,
                  Converted(call.param.type, call.param.bytes, call.value))

(* The value get_parameter returns with ESP_OK is what the getter of the   *)
(* same type gives on the slave's registers, at the moment of the read.    *)
GetIsWhatSlaveHad ==
    (call.state = "done" /\ call.kind = "get" /\ call.ex = "NONE") =>
        /\ Len(held) = call.param.size
        /\ Value(call) = SlaveView(call.param.type, call.param.bytes, Bytes(held))

(* When the slave's application waits for an event and none is set, it has *)
(* been told of every register a master has written, unless an info was    *)
(* dropped because the queue was full: no info stays in the queue behind   *)
(* an application that does not know of it.                                *)
WritesNoticed ==
    (app = "wait" /\ bits = {} /\ slave.phase \notin {"notify", "info"} /\ ~dropped) =>
        unseen = {}

(* A request whose length or count is out of the range of its function is  *)
(* answered by an exception (mbfuncholding.c:166-168).                     *)
Legal(rq) ==
    /\ rq.fits
    /\ rq.fn \in {"ReadHolding", "ReadInput", "RwHoldings"} => rq.cnt \in 1..RdMax
    /\ rq.fn \in {"WriteHoldings", "RwHoldings"} => rq.wcnt \in 1..WrMax
    /\ rq.fn \in {"ReadCoils", "ReadDiscrete"} => rq.cnt \in 1..BitRdMax
    /\ rq.fn = "WriteCoils" => rq.cnt \in 1..BitWrMax
IllegalRefused == (slave.phase = "answer" /\ slave.ex = "NONE") => Legal(slave.rq)
================================================================================
