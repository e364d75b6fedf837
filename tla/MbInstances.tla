---------------------------- MODULE MbInstances ----------------------------
(***************************************************************************)
(* The life of the instances: mbc_slave_create_..., mbc_master_create_..., *)
(* mbc_..._start, mbc_..._stop and mbc_..._delete for the serial slaves    *)
(* and masters (RTU and ASCII) and the TCP slave and master, down to the   *)
(* objects, transports, ports and the TCP driver they are built from, and  *)
(* the event loop that all TCP drivers of the program share                *)
(* (mb_drv_loop_handle).                                                   *)
(*                                                                         *)
(* A call of the interface is a program: the sequence of the allocations,  *)
(* releases and other steps its functions perform, one operator per C      *)
(* function, under the name of that function.  `todo` holds what a call    *)
(* has still to do; its steps interleave with those of the driver tasks    *)
(* and, for the instances of Overlap, with those of calls on each other.   *)
(*                                                                         *)
(* What the instances do between start and stop is the subject of the      *)
(* other modules; here a driver task only expires (TIMEOUT), reports a     *)
(* lost connection (ERROR), serves the shared loop and obeys its flags.    *)
(***************************************************************************)
EXTENDS Naturals, Sequences, FiniteSets

CONSTANTS
  RtuSlaves, AsciiSlaves, TcpSlaves,     \* the instances the program may create
  RtuMasters, AsciiMasters, TcpMasters,
  Overlap,      \* (* bound *) instances on which calls run at the same time
  MaxAlive,     \* (* bound *) instances in use at a time
  MaxQueue,     \* (* bound *) events in the queue of the loop
  MaxFaults     \* (* bound *) failing allocations, slow drivers, absent servers

Slaves  == RtuSlaves \cup AsciiSlaves \cup TcpSlaves
Masters == RtuMasters \cup AsciiMasters \cup TcpMasters
Tcp     == TcpSlaves \cup TcpMasters
Inst    == Slaves \cup Masters

\* An instance is of one kind, and there are finitely many.
ASSUME InstancesAssumption ==
  /\ Overlap \subseteq Inst
  /\ {MaxAlive, MaxQueue, MaxFaults} \subseteq Nat
  /\ LET kinds == <<RtuSlaves, AsciiSlaves, TcpSlaves, RtuMasters, AsciiMasters, TcpMasters>>
     IN  \A m, n \in 1 .. 6 : m # n => kinds[m] \cap kinds[n] = {}
  /\ IsFiniteSet(Tcp)

Events == {"ERROR", "CLOSE", "TIMEOUT"}

\* What the controllers allocate for themselves, and everything allocated.
Controller == {"iface", "event_group", "queue", "mbm_sema", "task"}

Resources == Controller \cup
  {"object", "functions", "transport", "buffer", "timer", "event", "port",
   "uart", "bus_sema", "port_task", "transactions",
   "driver", "nodes", "event_fd", "flags"}

VARIABLES
  todo,       \* the rest of the call in progress on each instance
  life,       \* absent, alive, or lost (left behind by a failing call)
  held,       \* the resources of each instance
  state,      \* cur_state of the object
  started,    \* MB_EVENT_STACK_STARTED of the controller's event group
  active,     \* is_active of the controller
  connected,  \* MB_EVENT_STACK_CONNECTED (TCP master)
  drv,        \* the driver task: none, running or suspended
  flags,      \* SUSPEND, SHUTDOWN and DISCONNECTED of status_flags_hdl
  sema,       \* close_done_sema: none, empty or given
  inLoop,     \* the handlers registered in the loop, as <<instance, event>>
  loop,       \* mb_drv_loop_handle is not NULL
  loopCount,  \* mb_drv_loop_inst_counter
  counting,   \* the calls between two looks at the handle and the counter
  apart,      \* no two calls have been in `counting` together
  loopHeld,   \* the loop's mutex belongs to a task that will not release it
  queue,      \* the events posted to the loop
  faults      \* the faults so far

own    == <<life, held, state, started, active, connected>>
driver == <<drv, flags, sema>>
counts == <<loopCount, counting, apart>>
shared == <<inLoop, loop, counts, loopHeld, queue>>
vars   == <<todo, own, driver, shared, faults>>

-----------------------------------------------------------------------------
(* Steps and programs.                                                      *)

\* The same step for each of a sequence of things, in that order.
Each(op, rs) == [n \in DOMAIN rs |-> [op |-> op, of |-> rs[n]]]

Gets(rs) == Each("get", rs)

Puts(rs) == Each("put", rs)

Get(r) == Gets(<<r>>)

Put(r) == Puts(<<r>>)

\* Steps that are not allocations or releases.
Do(ops) == [n \in DOMAIN ops |-> [op |-> ops[n], of |-> ""]]

\* The ports.
mb_port_timer_create == Get("timer")

mb_port_timer_delete == Put("timer")

mb_port_event_create == Get("event")

mb_port_event_delete == Put("event")

mb_port_ser_create == Gets(<<"port", "uart", "bus_sema", "port_task">>)

\* A slip: the bus semaphore is not closed.
mb_port_ser_delete_Leaky == Puts(<<"port_task", "uart", "port">>)

mb_port_ser_delete == Puts(<<"port_task", "uart", "bus_sema", "port">>)

\* The driver.  Its task starts at once and is suspended until the start.
mb_drv_start_task == Do(<<"resume">>)

mb_drv_stop_task == Do(<<"sema_create", "set_SUSPEND", "await_suspend", "sema_delete">>)

mb_drv_register ==
  Gets(<<"driver", "nodes", "event_fd">>) \o Do(<<"loop_init">>) \o Get("flags")
  \o Do(<<"task_create">>) \o mb_drv_stop_task

mb_drv_event_loop_deinit == Do(<<"loop_uncount", "loop_delete">>)

\* A slip: nobody waits for the task.
mb_drv_unregister_NoWait ==
  Do(<<"set_SHUTDOWN", "sema_create">>) \o mb_drv_event_loop_deinit \o Do(<<"sema_delete">>)
  \o Puts(<<"event_fd", "nodes", "flags", "driver">>)

mb_drv_unregister ==
  Do(<<"set_SHUTDOWN", "sema_create", "await_shutdown">>) \o mb_drv_event_loop_deinit
  \o Do(<<"sema_delete">>)
  \o Puts(<<"event_fd", "nodes", "flags", "driver">>)

\* Of the handlers of a port those of the three events modelled.
mbs_port_tcp_register_handlers == Each("register", <<"ERROR", "CLOSE", "TIMEOUT">>)

mbm_port_tcp_register_handlers == Each("register", <<"ERROR", "CLOSE", "TIMEOUT">>)

\* The handler of MB_EVENT_ERROR is not in the list of the slave.
mbs_port_tcp_unregister_handlers == Each("unregister", <<"CLOSE", "TIMEOUT">>)

\* A slip: the master forgets the handler the slave forgets.
mbm_port_tcp_unregister_handlers_AsSlave == Each("unregister", <<"CLOSE", "TIMEOUT">>)

mbm_port_tcp_unregister_handlers == Each("unregister", <<"ERROR", "CLOSE", "TIMEOUT">>)

mbs_port_tcp_create ==
  Gets(<<"port", "transactions">>) \o mb_drv_register \o mbs_port_tcp_register_handlers

mbm_port_tcp_create == Get("port") \o mb_drv_register \o mbm_port_tcp_register_handlers

mbs_port_tcp_delete ==
  Put("transactions") \o mbs_port_tcp_unregister_handlers \o mb_drv_unregister
  \o Put("port")

mbm_port_tcp_delete == mbm_port_tcp_unregister_handlers \o mb_drv_unregister \o Put("port")

mbs_port_tcp_enable == mb_drv_start_task

mbm_port_tcp_enable == mb_drv_start_task \o Do(<<"clear_DISCONNECTED">>)

mbs_port_tcp_disable == Do(<<"post_CLOSE", "await_DISCONNECTED">>)

mbm_port_tcp_disable == Do(<<"post_CLOSE", "await_DISCONNECTED">>)

-----------------------------------------------------------------------------
(* The transports and the objects.                                          *)

SerialPort == mb_port_ser_create \o mb_port_timer_create \o mb_port_event_create

NoSerialPort == mb_port_timer_delete \o mb_port_event_delete \o mb_port_ser_delete

mbs_rtu_transp_create == Get("transport") \o SerialPort

mbs_rtu_transp_delete == NoSerialPort \o Put("transport")

mbm_rtu_transp_create == Get("transport") \o SerialPort

mbm_rtu_transp_delete == NoSerialPort \o Put("transport")

mbs_ascii_transp_create == Gets(<<"transport", "buffer">>) \o SerialPort

mbs_ascii_transp_delete == NoSerialPort \o Puts(<<"buffer", "transport">>)

mbm_ascii_transp_create == Gets(<<"transport", "buffer">>) \o SerialPort

mbm_ascii_transp_delete == NoSerialPort \o Puts(<<"buffer", "transport">>)

mbs_tcp_transp_create ==
  Get("transport") \o mbs_port_tcp_create \o mb_port_timer_create \o mb_port_event_create

mbm_tcp_transp_create ==
  Get("transport") \o mbm_port_tcp_create \o mb_port_timer_create \o mb_port_event_create

mbs_tcp_transp_delete ==
  mb_port_timer_delete \o mb_port_event_delete \o mbs_port_tcp_delete \o Put("transport")

mbm_tcp_transp_delete ==
  mb_port_timer_delete \o mb_port_event_delete \o mbm_port_tcp_delete \o Put("transport")

mbs_register_default_handlers == Get("functions")

mbm_register_default_handlers == Get("functions")

mbs_unregister_handlers == Put("functions")

mbm_unregister_handlers == Put("functions")

mbs_rtu_create ==
  Get("object") \o mbs_rtu_transp_create \o mbs_register_default_handlers

mbs_ascii_create ==
  Get("object") \o mbs_ascii_transp_create \o mbs_register_default_handlers

mbs_tcp_create ==
  Get("object") \o mbs_tcp_transp_create \o mbs_register_default_handlers

mbm_rtu_create ==
  Get("object") \o mbm_rtu_transp_create \o mbm_register_default_handlers

mbm_ascii_create ==
  Get("object") \o mbm_ascii_transp_create \o mbm_register_default_handlers

mbm_tcp_create ==
  Get("object") \o mbm_tcp_transp_create \o mbm_register_default_handlers

\* frm_delete of the transport of the instance.
FrmDelete(i) ==
  CASE i \in RtuSlaves    -> mbs_rtu_transp_delete
    [] i \in AsciiSlaves  -> mbs_ascii_transp_delete
    [] i \in TcpSlaves    -> mbs_tcp_transp_delete
    [] i \in RtuMasters   -> mbm_rtu_transp_delete
    [] i \in AsciiMasters -> mbm_ascii_transp_delete
    [] i \in TcpMasters   -> mbm_tcp_transp_delete

\* frm_start and frm_stop; those of a serial transport only set `enabled`.
FrmStart(i) ==
  CASE i \in TcpSlaves  -> mbs_port_tcp_enable
    [] i \in TcpMasters -> mbm_port_tcp_enable
    [] OTHER            -> <<>>

FrmStop(i) ==
  CASE i \in TcpSlaves  -> mbs_port_tcp_disable
    [] i \in TcpMasters -> mbm_port_tcp_disable
    [] OTHER            -> <<>>

\* What mbs_delete and mbm_delete do to a disabled object.
ObjectDelete(i) ==
  FrmDelete(i) \o (IF i \in Slaves THEN mbs_unregister_handlers ELSE mbm_unregister_handlers)
  \o Put("object")

-----------------------------------------------------------------------------
(* The controllers.  start, stop and delete of the serial and TCP slaves    *)
(* and masters differ in the order of their steps and in what they check.   *)

mbc_serial_slave_start == Do(<<"enable", "set_STARTED">>)

mbc_serial_master_start == Do(<<"enable", "set_STARTED">>)

mbc_tcp_slave_start == Do(<<"enable", "set_STARTED">>)

mbc_tcp_master_start == Do(<<"enable", "await_CONNECTED", "set_STARTED">>)

mbc_serial_slave_stop == Do(<<"clear_STARTED", "disable", "inactive">>)

mbc_serial_master_stop == Do(<<"clear_STARTED_late", "disable", "inactive">>)

mbc_tcp_slave_stop == Do(<<"disable", "clear_STARTED", "inactive">>)

mbc_tcp_master_stop == Do(<<"clear_STARTED", "disable", "inactive">>)

mbc_serial_slave_controller_create == Gets(<<"iface", "event_group", "queue", "task">>)

mbc_serial_master_controller_create == Gets(<<"iface", "event_group", "mbm_sema", "task">>)

mbc_tcp_slave_controller_create == Gets(<<"iface", "event_group", "queue", "task">>)

mbc_tcp_master_controller_create == Gets(<<"iface", "event_group", "mbm_sema", "task">>)

mbc_serial_slave_iface_free == Puts(<<"task", "event_group", "queue", "iface">>)

mbc_serial_master_iface_free == Puts(<<"task", "event_group", "iface">>)

mbc_serial_slave_create(i) ==
  mbc_serial_slave_controller_create
  \o (IF i \in RtuSlaves THEN mbs_rtu_create ELSE mbs_ascii_create)

mbc_serial_master_create(i) ==
  mbc_serial_master_controller_create
  \o (IF i \in RtuMasters THEN mbm_rtu_create ELSE mbm_ascii_create)

mbc_tcp_slave_create == mbc_tcp_slave_controller_create \o mbs_tcp_create

mbc_tcp_master_create == mbc_tcp_master_controller_create \o mbm_tcp_create

mbc_serial_slave_delete ==
  Do(<<"stop_active">>) \o Puts(<<"task", "event_group", "queue">>) \o Do(<<"object_delete">>)

mbc_tcp_slave_delete ==
  Do(<<"stop_active">>) \o Puts(<<"task", "event_group", "queue">>) \o Do(<<"object_delete">>)

mbc_serial_master_delete ==
  Do(<<"stop_active">>) \o Puts(<<"task", "event_group", "mbm_sema">>)
  \o Do(<<"object_delete">>) \o Put("iface")

mbc_tcp_master_delete ==
  Do(<<"stop_active">>) \o Puts(<<"task", "event_group", "mbm_sema">>)
  \o Do(<<"object_delete">>) \o Put("iface")

\* The public calls, by the kind of the instance.
CreateOf(i) ==
  CASE i \in TcpSlaves  -> mbc_tcp_slave_create
    [] i \in TcpMasters -> mbc_tcp_master_create
    [] i \in RtuSlaves \cup AsciiSlaves   -> mbc_serial_slave_create(i)
    [] i \in RtuMasters \cup AsciiMasters -> mbc_serial_master_create(i)

mbc_slave_start(i) ==
  (IF i \in TcpSlaves THEN mbc_tcp_slave_start ELSE mbc_serial_slave_start)

mbc_master_start(i) ==
  (IF i \in TcpMasters THEN mbc_tcp_master_start ELSE mbc_serial_master_start)

mbc_slave_stop(i) ==
  (IF i \in TcpSlaves THEN mbc_tcp_slave_stop ELSE mbc_serial_slave_stop)

mbc_master_stop(i) ==
  (IF i \in TcpMasters THEN mbc_tcp_master_stop ELSE mbc_serial_master_stop)

StopOf(i) == IF i \in Slaves THEN mbc_slave_stop(i) ELSE mbc_master_stop(i)

\* The slave's descriptors and interface are freed here, whatever the
\* controller's delete returned.
mbc_slave_delete(i) ==
  (IF i \in TcpSlaves THEN mbc_tcp_slave_delete ELSE mbc_serial_slave_delete) \o Put("iface")

mbc_master_delete(i) ==
  (IF i \in TcpMasters THEN mbc_tcp_master_delete ELSE mbc_serial_master_delete)

-----------------------------------------------------------------------------
(* The steps.                                                               *)

Init ==
  /\ todo = [i \in Inst |-> <<>>]
  /\ life = [i \in Inst |-> "absent"]
  /\ held = [i \in Inst |-> {}]
  /\ state = [i \in Inst |-> "NOT_INITIALIZED"]
  /\ started = [i \in Inst |-> FALSE]
  /\ active = [i \in Inst |-> FALSE]
  /\ connected = [i \in Inst |-> FALSE]
  /\ drv = [i \in Inst |-> "none"]
  /\ flags = [i \in Inst |-> {}]
  /\ sema = [i \in Inst |-> "none"]
  /\ inLoop = {}
  /\ loop = FALSE
  /\ loopCount = 0 /\ counting = {} /\ apart = TRUE
  /\ loopHeld = FALSE
  /\ queue = <<>>
  /\ faults = 0

\* A panic restarts the chip: everything is as it was at first.
Panic ==
  /\ todo' = [i \in Inst |-> <<>>]
  /\ life' = [i \in Inst |-> "absent"]
  /\ held' = [i \in Inst |-> {}]
  /\ state' = [i \in Inst |-> "NOT_INITIALIZED"]
  /\ started' = [i \in Inst |-> FALSE]
  /\ active' = [i \in Inst |-> FALSE]
  /\ connected' = [i \in Inst |-> FALSE]
  /\ drv' = [i \in Inst |-> "none"]
  /\ flags' = [i \in Inst |-> {}]
  /\ sema' = [i \in Inst |-> "none"]
  /\ inLoop' = {}
  /\ loop' = FALSE
  /\ loopCount' = 0 /\ counting' = {} /\ apart' = TRUE
  /\ loopHeld' = FALSE
  /\ queue' = <<>>

Fault == faults < MaxFaults /\ faults' = faults + 1

Busy == {i \in Inst : todo[i] # <<>>}

\* The next step of the call on i is op.
Runs(i, op) == todo[i] # <<>> /\ Head(todo[i]).op = op

Of(i) == Head(todo[i]).of

Continue(i) == todo' = [todo EXCEPT ![i] = Tail(@)]

\* The call goes on with these steps before its remaining ones.
Detour(i, steps) == todo' = [todo EXCEPT ![i] = steps \o Tail(@)]

\* The call returns an error.
Return(i) == todo' = [todo EXCEPT ![i] = <<>>]

\* The application calls the interface.
Call(i, program) ==
  /\ todo[i] = <<>>
  /\ Busy = {} \/ Busy \cup {i} \subseteq Overlap
  /\ todo' = [todo EXCEPT ![i] = program]
  /\ UNCHANGED <<own, driver, shared, faults>>

Create(i) ==
  /\ life[i] = "absent"
  /\ Cardinality({j \in Inst : life[j] = "alive"} \cup Busy) < MaxAlive
  /\ Call(i, CreateOf(i) \o Do(<<"created">>))

Start(i) ==
  /\ life[i] = "alive"
  /\ Call(i, IF i \in Slaves THEN mbc_slave_start(i) ELSE mbc_master_start(i))

Stop(i) == life[i] = "alive" /\ Call(i, StopOf(i))

Delete(i) ==
  /\ life[i] = "alive"
  /\ Call(i, (IF i \in Slaves THEN mbc_slave_delete(i) ELSE mbc_master_delete(i))
             \o Do(<<"deleted">>))

GetStep(i) ==
  /\ Runs(i, "get")
  /\ held' = [held EXCEPT ![i] = @ \cup {Of(i)}]
  /\ Continue(i)
  /\ UNCHANGED <<life, state, started, active, connected, driver, shared, faults>>

PutStep(i) ==
  /\ Runs(i, "put")
  /\ held' = [held EXCEPT ![i] = @ \ {Of(i)}]
  /\ Continue(i)
  /\ UNCHANGED <<life, state, started, active, connected, driver, shared, faults>>

\* An allocation of the controller fails: the error path gives back what it
\* knows of.  The slave's queue and the master's semaphore are forgotten by
\* three of the four paths.
ControllerFails(i) ==
  /\ Runs(i, "get") /\ Of(i) \in Controller
  /\ Fault
  /\ todo' = [todo EXCEPT ![i] =
       (IF i \in RtuSlaves \cup AsciiSlaves THEN mbc_serial_slave_iface_free
        ELSE mbc_serial_master_iface_free) \o Do(<<"abandoned">>)]
  /\ UNCHANGED <<own, driver, shared>>

\* The registration of the default handlers fails: the object is taken down
\* again; then the serial controllers free theirs, while those of TCP test a
\* member mb_base nobody has set, and go on without it at best.
FunctionsFail(i) ==
  /\ Runs(i, "get") /\ Of(i) = "functions"
  /\ Fault
  /\ todo' = [todo EXCEPT ![i] =
       ObjectDelete(i)
       \o (CASE i \in RtuSlaves \cup AsciiSlaves   -> mbc_serial_slave_iface_free
             [] i \in RtuMasters \cup AsciiMasters -> mbc_serial_master_iface_free
             [] OTHER -> <<>>)
       \o Do(<<"abandoned">>)]
  /\ UNCHANGED <<own, driver, shared>>

\* A failure below the object is a panic: the error path hands the object
\* itself to the destructor of the transport, which follows its port, NULL.
\* The two failures above may end in one too, by a handle nobody has set.
CreatePanics(i) ==
  /\ Runs(i, "get")
  /\ \/ Of(i) \notin Controller \cup {"functions"}
     \/ i \in RtuSlaves \cup AsciiSlaves /\ Of(i) = "event_group"
     \/ i \in Tcp /\ Of(i) = "functions"
  /\ Fault
  /\ Panic

Created(i) ==
  /\ Runs(i, "created")
  /\ Continue(i)
  /\ life' = [life EXCEPT ![i] = "alive"]
  /\ state' = [state EXCEPT ![i] = "DISABLED"]
  /\ active' = [active EXCEPT ![i] = FALSE]
  /\ UNCHANGED <<held, started, connected, driver, shared, faults>>

\* The memory of the instance is gone, and with it its state.
Deleted(i) ==
  /\ Runs(i, "deleted")
  /\ Continue(i)
  /\ life' = [life EXCEPT ![i] = "absent"]
  /\ state' = [state EXCEPT ![i] = "NOT_INITIALIZED"]
  /\ started' = [started EXCEPT ![i] = FALSE]
  /\ connected' = [connected EXCEPT ![i] = FALSE]
  /\ flags' = [flags EXCEPT ![i] = {}]
  /\ UNCHANGED <<held, active, drv, sema, shared, faults>>

Abandoned(i) ==
  /\ Runs(i, "abandoned")
  /\ Continue(i)
  /\ life' = [life EXCEPT ![i] = IF held[i] = {} THEN "absent" ELSE "lost"]
  /\ flags' = [flags EXCEPT ![i] = IF "flags" \in held[i] THEN @ ELSE {}]
  /\ UNCHANGED <<held, state, started, active, connected, drv, sema, shared, faults>>

\* mbs_enable and mbm_enable: the transport is started once.
Enable(i) ==
  /\ Runs(i, "enable")
  /\ IF state[i] = "DISABLED"
     THEN Detour(i, FrmStart(i) \o Do(<<"enabled">>))
     ELSE Return(i)
  /\ UNCHANGED <<own, driver, shared, faults>>

\* mbs_disable and mbm_disable: nothing to do when disabled.
Disable(i) ==
  /\ Runs(i, "disable")
  /\ Detour(i, IF state[i] = "ENABLED" THEN FrmStop(i) \o Do(<<"disabled">>) ELSE <<>>)
  /\ UNCHANGED <<own, driver, shared, faults>>

Enabled(i) ==
  /\ Runs(i, "enabled")
  /\ state' = [state EXCEPT ![i] = "ENABLED"]
  /\ Continue(i)
  /\ UNCHANGED <<life, held, started, active, connected, driver, shared, faults>>

Disabled(i) ==
  /\ Runs(i, "disabled")
  /\ state' = [state EXCEPT ![i] = "DISABLED"]
  /\ Continue(i)
  /\ UNCHANGED <<life, held, started, active, connected, driver, shared, faults>>

\* The TCP master's start gives up after MB_TCP_CONNECTION_TOUT.
AwaitConnected(i) ==
  /\ Runs(i, "await_CONNECTED")
  /\ \/ connected[i] /\ Continue(i) /\ UNCHANGED faults
     \/ ~connected[i] /\ Return(i) /\ Fault
  /\ UNCHANGED <<own, driver, shared>>

SetStarted(i) ==
  /\ Runs(i, "set_STARTED")
  /\ started' = [started EXCEPT ![i] = TRUE]
  /\ active' = [active EXCEPT ![i] = TRUE]
  /\ Continue(i)
  /\ UNCHANGED <<life, held, state, connected, driver, shared, faults>>

\* A stop of what was not started fails.
ClearStarted(i) ==
  /\ Runs(i, "clear_STARTED")
  /\ started' = [started EXCEPT ![i] = FALSE]
  /\ IF started[i] THEN Continue(i) ELSE Return(i)
  /\ UNCHANGED <<life, held, state, active, connected, driver, shared, faults>>

\* The serial master disables the object before it looks at the bit.
ClearStartedLate(i) ==
  /\ Runs(i, "clear_STARTED_late")
  /\ started' = [started EXCEPT ![i] = FALSE]
  /\ IF started[i] THEN Continue(i) ELSE todo' = [todo EXCEPT ![i] = Do(<<"disable">>)]
  /\ UNCHANGED <<life, held, state, active, connected, driver, shared, faults>>

Inactive(i) ==
  /\ Runs(i, "inactive")
  /\ active' = [active EXCEPT ![i] = FALSE]
  /\ Continue(i)
  /\ UNCHANGED <<life, held, state, started, connected, driver, shared, faults>>

\* A delete stops an active instance first, and clears is_active.
StopActive(i) ==
  /\ Runs(i, "stop_active")
  /\ IF active[i] \/ started[i]
     THEN Detour(i, StopOf(i)) /\ UNCHANGED active
     ELSE Continue(i) /\ active' = [active EXCEPT ![i] = FALSE]
  /\ UNCHANGED <<life, held, state, started, connected, driver, shared, faults>>

\* Only a disabled object is deleted.  Otherwise the master's delete returns
\* at once, and the slave's frees its interface.
DeleteObject(i) ==
  /\ Runs(i, "object_delete")
  /\ IF state[i] = "DISABLED"
     THEN Detour(i, ObjectDelete(i))
     ELSE todo' = [todo EXCEPT ![i] =
            (IF i \in Slaves THEN Put("iface") ELSE <<>>) \o Do(<<"abandoned">>)]
  /\ UNCHANGED <<own, driver, shared, faults>>

-----------------------------------------------------------------------------
(* The driver of a TCP port.                                                *)

\* The task is created running; the counter counts the registered drivers.
TaskCreate(i) ==
  /\ Runs(i, "task_create")
  /\ drv' = [drv EXCEPT ![i] = "running"]
  /\ loopCount' = loopCount + 1
  /\ counting' = counting \ {i}
  /\ Continue(i)
  /\ UNCHANGED <<own, flags, sema, inLoop, loop, apart, loopHeld, queue, faults>>

Resume(i) ==
  /\ Runs(i, "resume")
  /\ flags' = [flags EXCEPT ![i] = @ \ {"SUSPEND"}]
  /\ drv' = [drv EXCEPT ![i] = IF @ = "suspended" THEN "running" ELSE @]
  /\ Continue(i)
  /\ UNCHANGED <<own, sema, shared, faults>>

SetFlags(i) ==
  /\ \/ Runs(i, "set_SUSPEND")  /\ flags' = [flags EXCEPT ![i] = @ \cup {"SUSPEND"}]
     \/ Runs(i, "set_SHUTDOWN") /\ flags' = [flags EXCEPT ![i] = @ \cup {"SHUTDOWN"}]
     \/ Runs(i, "clear_DISCONNECTED")
        /\ flags' = [flags EXCEPT ![i] = @ \ {"DISCONNECTED"}]
  /\ Continue(i)
  /\ UNCHANGED <<own, drv, sema, shared, faults>>

SemaCreate(i) ==
  /\ Runs(i, "sema_create")
  /\ sema' = [sema EXCEPT ![i] = "empty"]
  /\ Continue(i)
  /\ UNCHANGED <<own, drv, flags, shared, faults>>

SemaDelete(i) ==
  /\ Runs(i, "sema_delete")
  /\ sema' = [sema EXCEPT ![i] = "none"]
  /\ Continue(i)
  /\ UNCHANGED <<own, drv, flags, shared, faults>>

\* The task gives close_done_sema, or it is suspended or deleted from outside
\* after MB_WAIT_DONE_MS.  A task that runs is late only by a fault, and may be
\* so in a handler, whose mutex it keeps.
AwaitCloseDone(i, op, after) ==
  /\ Runs(i, op)
  /\ \/ sema[i] = "given" /\ UNCHANGED <<drv, loopHeld, faults>>
     \/ /\ sema[i] = "empty" /\ drv[i] # "none"
        /\ drv' = [drv EXCEPT ![i] = after]
        /\ \/ drv[i] = "suspended" /\ UNCHANGED <<loopHeld, faults>>
           \/ drv[i] = "running" /\ Fault /\ UNCHANGED loopHeld
           \/ drv[i] = "running" /\ Fault /\ loop /\ loopHeld' = TRUE
  /\ Continue(i)
  /\ UNCHANGED <<own, flags, sema, inLoop, loop, counts, queue>>

AwaitDriver(i) ==
  \/ AwaitCloseDone(i, "await_suspend", "suspended")
  \/ AwaitCloseDone(i, "await_shutdown", "none")

\* The first driver creates the loop, and counts itself later (TaskCreate); the
\* last one counts itself down, looks at the counter and deletes the loop, with
\* its handlers and its events.  No lock covers these steps: calls on two
\* instances that are between them at a time are no longer apart.
EntersCount(i) ==
  /\ counting' = counting \cup {i}
  /\ apart' = (apart /\ counting = {})

mb_drv_event_loop_init(i) ==
  /\ Runs(i, "loop_init")
  /\ loop' = (loop \/ loopCount = 0)
  /\ EntersCount(i)
  /\ Continue(i)
  /\ UNCHANGED <<own, driver, inLoop, loopCount, loopHeld, queue, faults>>

UncountLoop(i) ==
  /\ Runs(i, "loop_uncount")
  /\ loopCount' = IF loop /\ loopCount > 0 THEN loopCount - 1 ELSE loopCount
  /\ EntersCount(i)
  /\ Continue(i)
  /\ UNCHANGED <<own, driver, inLoop, loop, loopHeld, queue, faults>>

\* A slip: the loop is deleted with the first driver that goes.
DeleteLoop_Always(i) ==
  /\ Runs(i, "loop_delete")
  /\ loop /\ ~loopHeld /\ loop' = FALSE /\ inLoop' = {} /\ queue' = <<>>
  /\ counting' = counting \ {i}
  /\ Continue(i)
  /\ UNCHANGED <<own, driver, loopCount, apart, loopHeld, faults>>

DeleteLoop(i) ==
  /\ Runs(i, "loop_delete")
  /\ IF loopCount = 0
     THEN loop /\ ~loopHeld /\ loop' = FALSE /\ inLoop' = {} /\ queue' = <<>>
     ELSE UNCHANGED <<loop, inLoop, queue>>
  /\ counting' = counting \ {i}
  /\ Continue(i)
  /\ UNCHANGED <<own, driver, loopCount, apart, loopHeld, faults>>

\* The handlers are registered and unregistered under the loop's mutex.
mb_drv_register_handler(i) ==
  /\ Runs(i, "register") /\ loop /\ ~loopHeld
  /\ inLoop' = inLoop \cup {<<i, Of(i)>>}
  /\ Continue(i)
  /\ UNCHANGED <<own, driver, loop, counts, loopHeld, queue, faults>>

mb_drv_unregister_handler(i) ==
  /\ Runs(i, "unregister") /\ loop /\ ~loopHeld
  /\ inLoop' = inLoop \ {<<i, Of(i)>>}
  /\ Continue(i)
  /\ UNCHANGED <<own, driver, loop, counts, loopHeld, queue, faults>>

\* The queue is full: the event is given up after MB_EVENT_TOUT.
Post(i, e) == queue' = IF Len(queue) < MaxQueue THEN Append(queue, <<i, e>>) ELSE queue

PostClose(i) ==
  /\ Runs(i, "post_CLOSE") /\ loop
  /\ Post(i, "CLOSE")
  /\ Continue(i)
  /\ UNCHANGED <<own, driver, inLoop, loop, counts, loopHeld, faults>>

\* The event library asserts that the handle of the loop is not NULL.
CallFindsNoLoop(i) ==
  /\ ~loop
  /\ \/ \E op \in {"register", "unregister", "post_CLOSE"} : Runs(i, op)
     \/ Runs(i, "loop_delete") /\ loopCount = 0
  /\ Panic
  /\ UNCHANGED faults

\* For MB_RECONNECT_TIME_MS at most; a TCP slave that was stopped before has
\* the flag set still, and does not wait at all.
AwaitDisconnected(i) ==
  /\ Runs(i, "await_DISCONNECTED")
  /\ \/ "DISCONNECTED" \in flags[i] /\ UNCHANGED faults
     \/ "DISCONNECTED" \notin flags[i] /\ Fault
  /\ Continue(i)
  /\ UNCHANGED <<own, driver, shared>>

-----------------------------------------------------------------------------
(* The driver tasks.                                                        *)

\* mb_drv_check_suspend_shutdown(ctx) of instance j, called by the task of t:
\* it is the calling task that ends or is suspended.
Obeys(t, j) ==
  /\ drv' = [drv EXCEPT ![t] = IF "SHUTDOWN" \in flags[j] THEN "none" ELSE "suspended"]
  /\ sema' = [sema EXCEPT ![j] = "given"]

Told(j) == sema[j] # "none" /\ flags[j] \cap {"SHUTDOWN", "SUSPEND"} # {}

\* Between two waits the task looks at the flags of its own driver.
mb_drv_check_suspend_shutdown(i) ==
  /\ drv[i] = "running"
  /\ Told(i)
  /\ Obeys(i, i)
  /\ UNCHANGED <<todo, own, flags, shared, faults>>

\* select() times out, or a connection turns out to be lost.
PostEvent(i) ==
  /\ drv[i] = "running" /\ loop /\ Len(queue) < MaxQueue
  /\ \/ Post(i, "TIMEOUT")
     \/ /\ state[i] = "ENABLED"
        /\ Post(i, "ERROR")
  /\ UNCHANGED <<todo, own, driver, inLoop, loop, counts, loopHeld, faults>>

\* esp_event_loop_run: any driver task takes the next event of the loop,
\* whichever instance posted it, and runs the handler under the loop's mutex.
\* A handler that finds its instance told to stop stops the task it runs in,
\* which keeps the mutex.
RunLoop(t) ==
  /\ drv[t] = "running" /\ loop /\ ~loopHeld
  /\ queue # <<>>
  /\ queue' = Tail(queue)
  /\ LET j == Head(queue)[1]
         e == Head(queue)[2]
         handled == Head(queue) \in inLoop
         told == handled /\ Told(j)
     IN  /\ flags' = IF handled /\ e = "CLOSE"
                     THEN [flags EXCEPT ![j] = @ \cup {"DISCONNECTED"}] ELSE flags
         /\ loopHeld' = told
         /\ IF told THEN Obeys(t, j) ELSE UNCHANGED <<drv, sema>>
  /\ UNCHANGED <<todo, own, inLoop, loop, counts, faults>>

\* All the servers of a TCP master are connected: the handler of the event
\* calls mbc_tcp_master_conn_done_cb.  The event group of a lost master is NULL.
mbc_tcp_master_conn_done_cb(i) ==
  /\ i \in TcpMasters
  /\ state[i] = "ENABLED" /\ ~connected[i]
  /\ drv[i] = "running" /\ loop /\ ~loopHeld
  /\ IF "event_group" \in held[i]
     THEN /\ connected' = [connected EXCEPT ![i] = TRUE]
          /\ UNCHANGED <<todo, life, held, state, started, active, driver, shared>>
     ELSE Panic
  /\ UNCHANGED faults

\* A task has lost the loop it posts to and serves.
TaskFindsNoLoop(i) ==
  /\ drv[i] = "running" /\ ~loop
  /\ Panic
  /\ UNCHANGED faults

-----------------------------------------------------------------------------
CallStep(i) ==
  \/ GetStep(i) \/ PutStep(i)
  \/ ControllerFails(i) \/ FunctionsFail(i) \/ CreatePanics(i)
  \/ Created(i) \/ Deleted(i) \/ Abandoned(i)
  \/ Enable(i) \/ Enabled(i) \/ Disable(i) \/ Disabled(i)
  \/ AwaitConnected(i) \/ SetStarted(i)
  \/ ClearStarted(i) \/ ClearStartedLate(i) \/ Inactive(i)
  \/ StopActive(i) \/ DeleteObject(i)

DriverStep(i) ==
  \/ TaskCreate(i) \/ Resume(i) \/ SetFlags(i)
  \/ SemaCreate(i) \/ SemaDelete(i) \/ AwaitDriver(i)
  \/ mb_drv_event_loop_init(i) \/ UncountLoop(i) \/ DeleteLoop(i)
  \/ mb_drv_register_handler(i) \/ mb_drv_unregister_handler(i)
  \/ PostClose(i) \/ AwaitDisconnected(i) \/ CallFindsNoLoop(i)

Task(i) ==
  \/ mb_drv_check_suspend_shutdown(i) \/ PostEvent(i) \/ RunLoop(i)
  \/ mbc_tcp_master_conn_done_cb(i) \/ TaskFindsNoLoop(i)

Next ==
  \/ \E i \in Inst : Create(i) \/ Start(i) \/ Stop(i) \/ Delete(i)
  \/ \E i \in Inst : CallStep(i)
  \/ \E i \in Tcp : DriverStep(i)
  \/ \E i \in Tcp : Task(i)

Spec == Init /\ [][Next]_vars

-----------------------------------------------------------------------------
(* Properties.                                                              *)

\* The variables stay in their ranges; in particular the counter never exceeds
\* the drivers there can be, whatever the calls on other instances do.
TypeOK ==
  /\ life \in [Inst -> {"absent", "alive", "lost"}]
  /\ \A i \in Inst : held[i] \subseteq Resources
  /\ state \in [Inst -> {"NOT_INITIALIZED", "DISABLED", "ENABLED"}]
  /\ started \in [Inst -> BOOLEAN] /\ active \in [Inst -> BOOLEAN]
  /\ connected \in [Inst -> BOOLEAN]
  /\ drv \in [Inst -> {"none", "running", "suspended"}]
  /\ flags \in [Inst -> SUBSET {"SUSPEND", "SHUTDOWN", "DISCONNECTED"}]
  /\ sema \in [Inst -> {"none", "empty", "given"}]
  /\ inLoop \subseteq Tcp \X Events
  /\ loop \in BOOLEAN /\ loopHeld \in BOOLEAN /\ apart \in BOOLEAN
  /\ loopCount \in 0 .. Cardinality(Tcp) /\ counting \subseteq Tcp
  /\ queue \in Seq(Tcp \X Events) /\ Len(queue) <= MaxQueue
  /\ faults \in 0 .. MaxFaults

\* Who uses what by itself, without being called: the controller's task, the
\* timer's callback, which posts to the event object, the task of a serial
\* port, which does so too, ...
Uses == [task |-> {"iface", "event_group"},
         timer |-> {"port", "transport", "event"},
         port_task |-> {"port", "uart", "bus_sema", "event"}]

\* ... and the task of a TCP driver with the handlers it runs.
DriverUses(i) == {"driver", "flags", "port", "event"}
                 \cup (IF i \in TcpSlaves THEN {"transactions"} ELSE {})

HandlerUses(i) == DriverUses(i) \ {"flags"}

\* What a create makes after those who use it and a delete frees before them.
Early(i) == IF todo[i] = <<>> THEN {} ELSE {"event", "transactions"}

\* What runs by itself has all it uses while no call on its instance is in
\* progress; and half-way through any create, stop or delete it has all but the
\* event object and the transactions, which the code frees before the UART task,
\* the driver's task and the handlers that use them are gone.  Excepted are an
\* instance whose call has failed, the ERROR handler of a TCP slave, which is
\* never unregistered, and, once a driver task has been stopped inside a
\* handler (see StoppedInHandler), the driver tasks.
UsersGoneFirst ==
  \A i \in Inst : life[i] # "lost" =>
    /\ \A r \in held[i] \cap DOMAIN Uses : Uses[r] \ Early(i) \subseteq held[i]
    /\ ~loopHeld /\ drv[i] # "none" => DriverUses(i) \ Early(i) \subseteq held[i]
    /\ \A e \in Events :
         <<i, e>> \in inLoop /\ ~(i \in TcpSlaves /\ e = "ERROR")
           => HandlerUses(i) \ Early(i) \subseteq held[i]
    /\ started[i] /\ state[i] = "ENABLED"
         => {"task", "object", "functions", "transport", "timer", "event", "port"}
              \subseteq held[i]

\* An instance whose delete returned ESP_OK, or whose create failed without a
\* leak, has nothing left: no memory, no semaphore, no handler but the ERROR
\* handler of a TCP slave and, while no task has been stopped inside a handler
\* (see StoppedInHandler), no driver task.
DeleteFreesAll ==
  \A i \in Inst : life[i] = "absent" /\ todo[i] = <<>> =>
    /\ held[i] = {} /\ sema[i] = "none"
    /\ ~loopHeld => drv[i] = "none"
    /\ i \in TcpMasters => \A e \in Events : <<i, e>> \notin inLoop
    /\ i \in TcpSlaves => \A e \in Events \ {"ERROR"} : <<i, e>> \notin inLoop

\* Only two things leave the loop's mutex with a task that will not release it:
\* an ERROR event of a TCP slave handled while that slave is being deleted, and
\* a driver task that does not answer its own create or delete in time.  No
\* other event, no master and no call on another instance does.
StoppedInHandler ==
  [][~loopHeld /\ loopHeld' =>
       \/ \E i \in TcpSlaves : /\ queue # <<>> /\ Head(queue) = <<i, "ERROR">>
                               /\ sema[i] # "none" /\ <<i, "CLOSE">> \notin inLoop
       \/ \E i \in Tcp : /\ drv[i] = "running" /\ faults' = faults + 1
                         /\ Runs(i, "await_suspend") \/ Runs(i, "await_shutdown")]_vars

\* The instances share the loop.  As long as the calls that touch its counter
\* come one after the other, it exists while any driver task does and, between
\* calls, its counter is the number of the drivers, whatever else overlaps,
\* fails or is late; and an enabled port has its handlers in the loop whatever
\* the others do.
LoopServesAll ==
  /\ \A i \in Tcp : state[i] = "ENABLED" => {i} \X Events \subseteq inLoop
  /\ apart /\ ~loopHeld => \A i \in Tcp : drv[i] # "none" => loop
  /\ apart /\ Busy = {} =>
       /\ loopCount = Cardinality({i \in Tcp : "driver" \in held[i]})
       /\ loop = (loopCount > 0)

\* What the documentation says of a delete: it "frees all used active objects
\* allocated for the slave".  A driver task is one.
DriverGone ==
  \A i \in TcpSlaves : life[i] = "absent" /\ todo[i] = <<>> => drv[i] = "none"

\* What the test that deletes each slave from a task of its own takes for
\* granted: who finds the counter at nothing finds the loop to delete.
LastFindsLoop ==
  \A i \in Tcp : Runs(i, "loop_delete") /\ loopCount = 0 => loop

=============================================================================
