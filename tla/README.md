# A verification development of the ESP-Modbus stack

The repository is a fork of Espressif's ESP-Modbus: a Modbus master and slave for
RTU, ASCII and TCP in C on FreeRTOS.  What the fork adds is a *range router* around
the table of function handlers (`mb_wrap_router.c`).  This directory holds TLA+
modules for the parts whose behaviour depends on the order of steps of several tasks,
on failures in the middle of an operation, or on time; TLC configurations that check
them on small instances; and proofs for every instance, checked by TLAPS.

All paths below are relative to `src/modbus/`.

## 1. Inventory

### 1.1 Components

| component | source | state | operations |
|---|---|---|---|
| handler table | `mb_objects/functions/mbfunc_handling.c` | a list of (code, handler), a counter bounded by `MB_FUNC_HANDLERS_MAX` | set, get, delete, close |
| range router | `mb_objects/mb_wrap_router.c`, API in `mb_controller/common/esp_modbus_common.c` | buckets per function code: fallback, list of ranges; the master's pending handler | set/clear default, register/unregister range, select, resolve |
| request dispatch | `mb_objects/mb_master.c:147-218`, `mb_slave.c:175-259`, `mbc_serial_master.c:185-311` | what each task has read and not yet used; the pending target | select, set/clear pending, look up, dispatch |
| master FSM | `mb_objects/mb_master.c:617-785` | `cur_state`, current transaction, receive and send buffers | one handler per event |
| event object | `mb_ports/common/port_event.c` | event queue, event group, resource semaphore, transaction time stamp, error type | post, get, take/release the resource, wait for the end of a request |
| timer | `mb_ports/common/port_timer.c` | running or not, mode | start for T3.5, response, convert delay; stop; alarm |
| RTU and ASCII transports | `mb_transports/rtu`, `mb_transports/ascii` | broadcast flag, buffers, the timer callback | start, stop, send, receive, timer expired |
| serial port | `mb_ports/serial/port_serial.c` | enabled, bus semaphore, UART queue, receive state | enable, disable, UART task, flush, receive, send |
| master controllers | `mb_controller/serial/mbc_serial_master.c`, `mb_controller/tcp/mbc_tcp_master.c`, `mb_controller/common/esp_modbus_master.c` | `mbm_sema`, task handle, active flag, register buffer of the request, parameter descriptors | create, start, stop, delete, send request, get/set parameter |
| function handlers | `mb_objects/functions/mbfunc*.c` | none (PDUs, callbacks) | one handler per function code; `mbm_rq_*` builds requests |
| slave FSM | `mb_objects/mb_slave.c:535-737`, `rtu_slave.c`, `ascii_slave.c` | `cur_state`, current transaction | enable, disable, one handler per event |
| slave controllers | `mb_controller/common/esp_modbus_slave.c`, `mbc_serial_slave.c`, `mbc_tcp_slave.c` | register areas, event group, notification queue | create, start, stop, delete, set descriptors, lock, access callbacks, notify, check event, get parameter info |
| transactions | `mb_ports/common/mb_transaction.c` | a list of items with state and tick | enqueue, get, dequeue, set state, delete, expire |
| TCP driver | `mb_ports/tcp/port_tcp_driver.c`, `port_tcp_utils.c` | nodes with their connection state and queues, status flags, the event loop all TCP instances share and its counter | register, unregister, start and stop of its task, handlers, open, close, read, write, check of a node |
| TCP ports and transports | `port_tcp_master.c`, `port_tcp_slave.c`, `mb_transports/tcp` | transaction identifiers, current node, transactions | one handler per event: ready, open, resolve, connect, send, receive, error, close, time out |
| parameter access of the master | `esp_modbus_master.c`, `mb_endianness_utils.c` | the data dictionary | get and set of a parameter, conversion between a value and registers |
| pure algorithms | `mbcrc.c`, `ascii_lrc.c`, `mbutils.c`, `mbs_router_parse_request_range` | none | checksums, bit fields, PDU ranges |
| operating system ports | `mb_ports/common/port_other.c` | locks, critical sections | |

### 1.2 How they interact

A request of the serial master passes through four tasks.

1. The *calling task* enters `mbc_master_send_request`, takes `mbm_sema`, selects a
   handler in the router, leaves it as the pending target, takes the event object's
   resource in `mbm_rq_*`, builds the PDU, posts `EV_TRANS_START |
   EV_FRAME_TRANSMIT` and waits for a bit of the event group.
2. The *poll task* runs `mbm_poll`: it takes events off the queue, sends, receives,
   looks the handler up, calls it, and closes the transaction in `EV_ERROR_PROCESS`,
   where it sets the bit the caller waits for and releases the resource.
3. The *timer callback* posts an error or, after a broadcast, `EV_EXECUTE`.
4. The *UART task* posts `EV_FRAME_RECEIVED`.

Only the resource, the event group, the error type, the transaction numbers, the
timer mode and the queue connect them; each is read and written without a lock that
spans two of them.  Any other task may meanwhile register and remove handlers and
ranges, or stop and start the master.

The serial slave has steps 2 to 4 only: a frame is received, checked, executed and answered
by its poll task.  Executing it calls back into the slave controller, which moves the data between
the frame and a register area, sets a bit of the application's event group, and queues what was accessed.

A TCP instance has a *driver task* in place of the UART task.  It waits for its sockets, turns what
happens there into events of a loop, and runs the loop: connecting, sending, receiving and
repairing connections are handlers of such events, which post further events.  The loop is one for all TCP
instances of the program, so a driver task also runs the handlers of other instances.  A TCP slave keeps the
requests it has read in the list of transactions, from which the poll task takes the oldest; a TCP master
knows an answer by the node it comes from and that node's identifier.

The *application's task* creates, starts, stops and deletes an instance: every layer creates the one below,
and a stop or a delete is a handshake with the tasks that run.

### 1.3 What is hard, and what correctness means

* *Handler table and router.*  Wrapping a function code is several steps that can fail
  one by one (bucket, table entry, route).  Correct: nothing a caller registered is lost
  or unreachable, an operation that fails changes nothing a caller sees, routes are
  disjoint, the counter never falls behind the list.
* *Dispatch.*  The semaphore is taken anew at each step and the handler runs outside of
  it.  Correct: the handler that runs was the answer of the router at some instant of the
  request; the pending target never outlives its request.
* *Master FSM, event object, timer.*  A response may race the response timeout, the caller
  may give up first, the callback outlives a stop of its timer, a stop falls between any
  two steps.  Correct: every error set is processed, a taken resource is given back,
  `ESP_OK` means that this request was executed, the caller's buffer is written only while
  it waits.
* *Serial port.*  Bus semaphore across error paths, overflow of UART and event queues.
* *Slave FSM.*  No error, overflow or stop keeps the slave from answering later requests;
  every unicast frame is answered at most once and broadcasts never.
* *Slave controllers, function handlers, parameters.*  A request is split over areas, critical sections and
  notifications.  Correct: the slave is one map of registers, read and written at an instant;
  what the master sets is what the slave's application gets in the same type; the application is told
  of every write.
* *TCP slave.*  Identifiers of different clients coincide, slots are used again, an item's state is set outside the
  list's lock.  Correct: a response goes to the client that asked, each request is executed and answered at
  most once and in order, the poll task is woken whenever it holds something.
* *TCP master.*  Answers come late, twice or never, the identifier wraps, connections break at any moment.
  The poll task reads without a timeout from a slave it looked for before.  Correct: no answer is taken for another request's,
  none that is in time is dropped, a broken connection is repaired, the count of connections is right, a request ends.
* *Life of the instances.*  Clients are lost while their slave is deleted, instances are created and deleted by different
  tasks.  Correct: nothing is freed under a task that uses it, a delete frees everything, the
  shared loop lives exactly as long as it has users, and nobody keeps its mutex for good.

`PROJECT.json` lists every hazard with its line and the properties that watch it.

## 2. The modules

| module | what it is | state and actions |
|---|---|---|
| `RoutingMap` | abstract specification: per function code a fallback and disjoint ranges | what `mb_wrap_router.h` and `RANGE_ROUTER_USAGE.md` promise |
| `MbRouter` | `mbfunc_handling.c` and `mb_wrap_router.c` with the API functions over them | `table`, `count` are the list and its counter; `buckets`, `fallback`, `routes` the router; `res` the status returned. One action per API function, failures of `malloc`/`calloc` as disjuncts |
| `MbDispatch` | extends `MbRouter` by a master's caller and its poll task, or the poll task of a slave | `pc`, `asked`, `target`: where the caller is, with what request; `exec`, `served`, `left`, `ran`, `runs`: where the poll task is; `pending` between them; every operation of `MbRouter` may come between two steps |
| `RequestReply` | abstract specification: what a caller of `mbc_master_send_request` sees | issue, serve, succeed, fail, refuse |
| `MbMaster` | the serial master: poll task, event object, timer and callback, UART task, caller, start and stop | see 2.2 |
| `MbSlave` | the serial slave: poll task, port with bus semaphore and UART task, event queue with overflow, start and stop | see 2.3 |
| `MbTransaction` | `mb_transaction.c`: operators on a list of items | used by `MbTcpSlave` |
| `MbTcpSlave` | the TCP slave: driver task, port, transactions, poll task, start and stop, clients | see 2.4 |
| `MbTcpMaster` | the TCP master: driver task, port, poll task, caller, start and stop, slaves | see 2.5 |
| `RegisterMap` | abstract specification: a slave is a map of registers, worked on by one request at a time | begin, write, read, finish, refuse, update |
| `MbData` | `mb_endianness_utils.c`, and the conversions of `esp_modbus_master.c` | operators |
| `MbAreas` | descriptors, lookup and access callbacks of `esp_modbus_slave.c` | operators |
| `MbFunctions` | the function handlers of both ends | operators: what is asked, checked, executed, answered |
| `MbExchange` | composes the three: application of the master, other masters, stack task and application of the slave | see 2.6 |
| `MbInstances` | create, start, stop and delete of all kinds of instance, driver tasks, the shared loop | see 2.7 |
| `MbRouterProofs`, `MbDispatchProofs`, `MbMasterProofs`, `MbSlaveProofs`, `MbTcpSlaveProofs`, `MbTcpMasterProofs`, `MbExchangeProofs`, `MbInstancesProofs` | theorems and proofs about the module of that name | section 5 |
| `MCRouter`, `MCDispatch`, `MCMaster`, `MCSlave`, `MCTcpSlave`, `MCTcpMaster`, `MCExchange`, `MCInstances` | instances for TLC | section 3 |

### 2.1 Router and dispatch

Each router operation runs under `handler_descriptor.sema` from beginning to end, so one
operation is one action.  A list searched by code is a function of the code.  The
routes of a code are a set: their order in the C list is visible only if two routes
match a request, which `RoutesDisjoint` excludes; `Select` takes any match, so an order
that mattered would be found.  Status codes are kept apart (`MB_EINVAL`, `MB_ENORES`,
`MB_ENOTSUP`).  The counter rises before `malloc` and does not fall when `malloc` fails,
as in the code: a failure uses up a slot.

In `MbDispatch` the master's caller and its poll task are apart.  The caller selects, sets the pending target, takes the resource
and sends (`MasterSelect`, `MasterSetPending`, `MasterSend`); the poll task looks up, resolves and finishes (`MasterLookup`, `MasterResolve`,
`Executed`, `MasterFails`).  Only the resource ties them together: `MasterClearPending`, where the caller returns, may come at any time after the target is set, since
the wait for the resource and that for the outcome are both bounded and shorter than the response time may be, and what
was sent is executed nevertheless, beside the next request, whose target is set before the resource is taken.  A
broadcast looks the handler up once per slave (`left`).  Two histories go with a request: `answers`, what
`select` would have answered at every instant of it, and `apart`, whether it had the pending target to itself: the poll task was at rest
when it was set, and the caller did not leave before the response was executed.

### 2.2 The serial master

| variables | in the code |
|---|---|
| `queue`, `errType`, `flags`, `resFree`, `evTrans` | `event_hdl`, `curr_err_type`, `event_group_hdl`, `resource_hdl`, `curr_trans_id` of the event object |
| `curTrans`, `enabled`, `frameBcast`, `rcvFrame` | `curr_trans_id`, `cur_state`, broadcast flag and receive buffer of the master and its transport |
| `armed`, `mode`, `cb`, `cbMode` | the timer, its mode, where the callback is and which mode it has read |
| `pollPc`, `reqPc`, `n`, `bcast`, `outcome` | where the two tasks are, and the request in hand |
| `wire`, `done` | the bus, and a history of the requests executed |

One action handles one event, up to the places where a step of another task between two
accesses matters; there the handler is split:

* the timer callback into reading the mode, stopping the timer, setting the error and posting;
* `EV_EXECUTE` into the handler's run (and the look at the error type) and the announcement
  of success;
* `EV_ERROR_PROCESS` into setting the flag and closing the transaction;
* the request into taking the resource (which stores the transaction's time stamp), posting
  the event, and returning.

A transaction is named by the number of its request; the code uses the time stamp of
`EV_TRANS_START`, and 0 for none.  A frame is the number of the request it answers, or `Bad`
for one that is damaged, from another slave or of another function.  A port that is
disabled reports success without doing anything (`port_serial.c:298, 327`), and so does the
model's.  The calling tasks are serialised by `mbm_sema`, so that one stands for all.

### 2.3 The serial slave

| variables | in the code |
|---|---|
| `queue`, `errType` | `event_hdl`, `curr_err_type` of the event object |
| `enabled`, `rcvAddr`, `buf` | `cur_state` and the port's `enabled`, `rcv_addr`, and what is in the transport's `rcv_buf` |
| `busFree` | `bus_sema_handle` of the port |
| `pollPc` | where the poll task is |
| `wire`, `asked`, `ran`, `answered` | the frames and faults so far, a request that nothing has disturbed, and histories of what was executed and answered |

One action handles one event; `EV_EXECUTE` is split into the handler's run and the sending of the
response, because frames come and the slave is stopped between the two.  A frame waits in the UART's
buffer until its event is handled, so the event carries it; a flush (`Flushed`) takes the data away
and leaves the event.  There is one receive buffer: a request is executed in it and turned into
its response in place (`buf.resp`), and every later frame overwrites it.

The port is modelled as it is on its error paths.  `send_data` keeps the bus semaphore when the
transmission does not end in time (`SendFailed`); the next `recv_data` or `send_data` cannot take it within
the response time, reports failure, and gives it back all the same (`ReceiveBusy`, `SendBusy`).  A disabled port
reports success without reading: the old contents of the buffer are taken for the frame
(`ReceiveStale`).  A full event queue makes the poster wait; after 3 s it empties the queue (`Post`).  If
the poster is the poll task itself nobody makes room, so it always empties it (`PollPost`).

Left out: the event group and the resource, for which nobody waits in a slave; the timer, which
a slave stops but never starts; `curr_trans_id`, which is only logged.  The UART task may deliver one
frame after a stop, since it looks at `enabled` before it waits for data; the model lets it deliver any number,
which is as if they had come after the next start.

### 2.4 The TCP slave

| variables | in the code |
|---|---|
| `node`, `connCount`, `drvq`, `listening` | `mb_nodes` with the queues of packets, `node_conn_count`, the events of the loop, the listening socket |
| `trans`, `acking` | the list of transactions; the item whose event is posted and which is not yet acknowledged |
| `res`, `evq`, `errType`, `timer`, `buf`, `pollPc` | the event object, the timer, the receive buffer and the place of the poll task, as in `MbSlave` |
| `client`, `ran`, `sent`, `orphaned`, `calm` | the clients, and histories of what was executed and written, of transactions that a stop left behind, and of whether no transaction has got too old, nothing was stopped and no client was dropped between the receipt and the execution of its request |

Each handler of `port_tcp_slave.c` is an action, as is every branch of it that ends elsewhere.  `mbs_on_recv_data` is
split where it posts `EV_FRAME_RECEIVED` before it acknowledges the transaction: a poll task of higher priority, or on another core
(`Parallel`), runs in between.  What is done under the driver's lock is one step.  A request is the pair of its connection and its
identifier, but the list and the port look at the identifier and the slot only, so that the identifiers of two clients coincide as
they do on a network.  The age of an item is one bit, `old`, which a fault sets.  A client is dropped (`Drop`) wherever the poll task is: the code looks at the
time since that client's last frame only, which may be long past while its request is in the poll task's hands.

### 2.5 The TCP master

| variables | in the code |
|---|---|
| `node`, `connCount`, `connected`, `curNode`, `drvq` | `mb_nodes` with state, `tid_counter` and queues, `node_conn_count`, `MB_FLAG_CONNECTED`, `mb_node_curr`, the events of the loop |
| `control` | where start and stop of the controller are |
| `res`, `evq`, `errType`, `flags`, `timer`, `curTrans` | the event object, the timer and the master object |
| `reading`, `buf` | `mbm_port_tcp_recv_data`: the node whose queue the poll task waits at, with the transaction of its event; `ptemp_buf` |
| `req`, `peer`, `last` | the caller, the slaves at the other end, and the last frame written |

The handlers are those of `port_tcp_master.c`.  A slave answers in order and at any time, also after the time-out.  A connection is reset, or
closed in order by the slave (`link`), who resets it when it is written to nevertheless (`Reset`); or it is refused.  The step by step races of the poll task, the timer
and the caller are `MbMaster`'s and are not repeated: here each is one action, but for the read.  `PollRead` looks for the node that was written to last, and `ReadDone` waits at
its queue for as long as it takes: anything may happen in between.  Then the frame is compared with what that node's counter is *then*.  On a node that is not connected the
read gives -1, which is taken for a length: what is compared is the answer read before (`PollStale`).

The identifiers of every slave start at 0 and go on, after 65534 in the code and after `TidTop` in the model, at *s* × 256, or `s * TidStep`.  A behaviour either begins where the
program does (`Starts`), or with connected slaves whose counters have come to values of `Tids` (`Runs`): states a longer run passes through, from which few requests reach the end of the range.

The driver's handlers are one step each, because by default both tasks are on one core (`FMB_PORT_TASK_AFFINITY_CPU0`, `Kconfig:143`) and the
driver's has the higher priority.  With no affinity `mbm_on_recv_data` may look at a queue that the poll task is emptying and wait in its turn; that is not modelled, nor what a poll task that
still reads would do with the queues a stop deletes.

### 2.6 From parameter to register

`MbFunctions`, `MbData` and `MbAreas` are operators, one for each function of the code; `MbExchange` has the actors.  A frame is a
record: function, address, counts, data, and whether its length fits.  Registers hold bytes in the order of memory, coils are bits.

| variables | in the code |
|---|---|
| `areas`, `next` | `area_descriptors` |
| `slave` | the request in the stack task's hands: callbacks still to make, event bit and info still to send, outcome |
| `bits`, `queue`, `app` | event group, notification queue, and where the slave's application is |
| `call`, `wire` | the request of the master's application; frames on their way |
| `held`, `unseen`, `dropped` | histories |

A request is executed callback by callback: each takes the critical section once, then sets the event bit, then queues the info, and
between any two of these the application may run.  READ/WRITE MULTIPLE REGISTERS makes two callbacks.  The master converts with
`mb_set_*` before a write and `mb_get_*` after a read, with the permutation of each of the byte orders written out from the code; the
slave's application uses the getter of the same type on its registers.

Calls are numbered and an answer goes to its call, as the identifiers of TCP see to; that the serial line has no such
number is finding 1.

### 2.7 The life of the instances

A call of the interface is a *program*: the sequence of allocations, releases and waits its functions perform, with one operator for each
function, under that function's name in C, and branches where the code looks at its state.  `todo[i]` is what is left of the call on instance `i`,
`held[i]` the resources it has, `loop`, `loopCount`, `inLoop`, `queue` the shared event loop, its counter, the handlers registered and the events
queued.  `drv`, `flags`, `sema` are the driver's task with `MB_FLAG_...` and the semaphore of the handshake.  An allocation that fails
runs the clean-up of the function it fails in; an `assert` or a null pointer that is used restarts the program (`Panic`).

One call is made at a time, but for the instances of `Overlap`, each of which may have one.  Driver tasks run at any time and handle each other's events; each of them may report a lost connection (`ERROR`) whenever its port
is enabled, also while the instance is stopped or deleted.  A task that is stopped in a handler keeps the mutex of the loop (`loopHeld`), whether it stops itself, because the instance of the event is told to stop (`RunLoop`), or is
stopped because it is late (`AwaitCloseDone`).  Finding no loop where there should be one ends in an `assert` of the event library (`CallFindsNoLoop`, `TaskFindsNoLoop`).  An instance that can be neither used nor
deleted any more is `lost`.

The counter of the loop is changed in two places: looked at and raised around the creation of the driver (`mb_drv_event_loop_init`, `TaskCreate`), lowered and looked at in `mb_drv_event_loop_deinit` (`UncountLoop`, `DeleteLoop`), without a lock.  `counting` is the set of
calls between the two halves, and `apart` the history that no two ever were there together.  Once they were, the model is rougher than the code: `++` and `--` are atomic, a second loop created by overlapping creations
is not kept apart from the first, and the deletion of the loop and the clearing of its handle are one step.

## 3. What is checked

| run | configuration | result | what it shows |
|---|---|---|---|
| `router_map` | `MCRouter.cfg` | holds | every order of the operations, with failing allocations and a table that fills up, keeps `TypeOK`, `RoutesDisjoint`, `NothingUnreachable`, `CountCoversEntries`, and implements `RoutingMap` |
| `dispatch` | `MCDispatch.cfg` | holds | with callers that give up at any time: the handler that runs for a request that has the pending target to itself was the router's answer at some instant of the request (`RanWasSelected`); the pending target belongs to the caller's request and never outlives it (`PendingIsOwn`) |
| `master_nominal` | `MCMasterNominal.cfg` | holds | in good timing the master implements `RequestReply`, and the caller's buffer is written only while it waits (`WritesOwnBuffer`) |
| `master_races` | `MCMasterRaces.cfg` | holds | with late, repeated and bad frames, racing timers, callers that give up and a stop: no error is left unprocessed (`ErrTypeAccounted`), a taken resource is always driven (`HeldIsDriven`) and comes free again (`ResourceComesFree`) |
| `master_stale_ok` | `MCMasterStale.cfg` | violated | finding 1 |
| `slave_prompt` | `MCSlavePrompt.cfg` | holds | a slave that keeps up with the bus executes each frame once, in order, and only those for it, and answers a unicast at most once and a broadcast never (`ServesOnce`); an error set has its event queued (`ErrTypeAccounted`) |
| `slave_races` | `MCSlaveRaces.cfg` | holds | with backlogs, overflows, failed transmissions and stops at any instant, a failed transmission costs at most one more frame (`LeakHeals`), and a request that comes at leisure is answered (`RequestAnswered`) |
| `tcp_slave` | `MCTcpSlave.cfg` | holds | with connections that come, go and are replaced, identifiers that coincide, old transactions, failed writes, damaged frames and a stop: a response goes to the client that asked (`AnswersOwn`), every transaction belongs to the client that has its slot now (`ItemsAreOfTheirSlot`), requests are answered at most once and in order (`AnsweredInOrder`), they are executed so as long as none gets too old, the slave is not stopped and no client is dropped between the receipt of its request and the execution (`ExecutedInOrder`; divergence 19), and a poll task that holds the resource has something to wake it (`HeldIsDriven`) |
| `tcp_master` | `MCTcpMaster.cfg` | holds | from the start, and from the end of the range of identifiers, with late answers and connections that are reset, closed, slow or refused, and a stop: a node on its way has an event that takes it on (`NotForgotten`), a connection that is reset is repaired (`Reconnects`), and the counter agrees (`CountAgrees`); of what is read from the slave written to last an answer is accepted only by the request it answers (`AcceptsOwn`), and it is not thrown away (`AnswerKept`); a taken resource has an event or the timer that leads to its return (`HeldIsDriven`) |
| `exchange` | `MCExchange.cfg` | holds | the slave implements `RegisterMap` whatever the areas are (`ImplementsRegisterMap`); what `set_parameter` sets is what the slave's getter of that type gives (`SetIsWhatSlaveGets`), and the reverse (`GetIsWhatSlaveHad`); the slave's application hears of every write (`WritesNoticed`) |
| `data_count` | `MCExchangeCount.cfg` | violated | finding 2 |
| `instances` | `MCInstances.cfg` | holds | with clients lost at any time and calls on the two TCP instances that overlap: nothing is freed under a task, timer or handler that uses it, but the event object and the transactions (`UsersGoneFirst`, divergence 24), and a delete frees all (`DeleteFreesAll`), with the exceptions divergence 13 makes; an enabled port keeps its handlers, and while the calls that touch its counter do not overlap the loop lives as long as a driver's task and the counter is right (`LoopServesAll`); its mutex is left behind in two situations only (`StoppedInHandler`) |

The types of `MbExchange` and `MbInstances` are proved (section 5) and not checked by a run.

Each property has a mutant: a definition of the model changed as a plausible slip would change
the code, under which the run finds the property violated.  The mutants stand beside the
definitions they change.

### 3.1 Bounds

* *Router.*  Two valid codes and one above `MB_FUNC_CODE_MAX`, one builtin; two table slots, so that
  one failed allocation fills the table; starts 0..1 and lengths 0..2: empty, adjacent,
  nested, equal and overlapping ranges occur.  Codes do not interact except through the counter.
* *Dispatch.*  One code suffices, a request reads no other; the table still fills, because
  allocation failures use up slots.  Any number of requests one after the other, of which one may be executed while the next is asked, and any number of operations between.
* *Master.*  `MaxReq` bounds the requests issued, `MaxStops` the stops, `MaxFaults` bad frames and stops
  together.  Two requests suffice for one to meet the leftovers of the one before;
  three let the flag of the first end the third; four in the nominal run.  Within
  these bounds at most seven events are queued, fewer than
  `CONFIG_FMB_QUEUE_LENGTH` (10 at least), so that the posting that waits and then empties a full queue
  does not occur; it is not modelled.  `MCMasterRaces.cfg` leaves the history `done` and the result
  `outcome` out of the fingerprint (`ControlView`): no action reads them and none of that run's
  properties does.
* *Slave.*  `MaxReq` bounds the frames, `MaxFaults` damaged frames, flushes, failed transmissions and stops
  together.  Two frames make a backlog; four let a failed transmission, the frame it costs and two
  good ones follow each other.  `MCSlaveRaces.cfg` has a queue of three events, far below the 10 of Kconfig, so
  that it overflows with three frames: no action depends on the length but by being full or not.  `ControlView`
  leaves `ran` and the order of `answered` out of the fingerprint there, which no action and none
  of that run's properties reads.
* *TCP slave.*  Three connections and two slots, so that a slot is used again and one client finds no room; the
  first client sends its second request before the first is answered.  One fault: one that a second would repeat (a client lost, an item
  too old, a write that fails, a stop) is enough to meet a request of each of the others in any state.
* *TCP master.*  Two slaves; three requests and faults together (`MaxBoth`): without a request two faults may hit a connection while it is repaired, one fault meets the second of two requests, and three requests
  reuse what late answers leave behind.  The runs begin at the start, or with both slaves connected and their counters at 2 of 0 to 3, so that the range ends with the second request to a slave and goes on at 0 for one, at 1 for the other;
  no identifier is used twice, which `AcceptsOwn` needs (in the code there are tens of thousands).
* *Exchange.*  Two requests of any masters together, one fault, seven cells.  The areas are adjacent, one
  overlaps another and is refused, one is read-only; the dictionary has a type of each width, orders that swap bytes, words and both, an 8-bit
  type that shares its register, and ranges across the border of two areas; the bytes of the values differ.  The info queue holds two.  All areas
  are there before the first request (`EarlyAreas`): registering one at run time is an action, but no request runs beside it.
* *Instances.*  One of each of the six kinds, two at a time, one fault and one event in the loop's queue; calls on the TCP slave and the TCP master, which share the loop, overlap.
* `CHECK_DEADLOCK FALSE` where the bounds make a system stop that has issued its last request, where a task that was stopped in a handler
  keeps the mutex all others wait for (divergence 13), and where
  the router has answered an error it would answer again (a step that changes nothing).

### 3.2 Switches

`LongTimeout`: the response time is longer than the 3000 ms the caller waits
(`MB_EVENT_QUEUE_TIMEOUT_MAX`); the default, 10000 ms, is.  `Race`: frames may come at or after the
timeout, and more than one per request.  `SlowT35`: a request may be sent while the callback of the
T3.5 timer of the start is still between reading the mode and stopping the timer.  That needs a
callback held up for as long as a caller takes to get the resource and have its request sent.  It is
an assumption of `HeldResourceDriven` and of the runs but `master_nominal`, whose properties hold with it, and divergence 5 of section 4 is what it excludes.

The serial slave has one, `Prompt`: a frame is executed, and its response sent, before the next one comes, and it is taken up before the
slave is stopped.  It is the discipline of a Modbus line, where the master waits for the response
before it sends again; a slow handler breaks it, since a master that gives up turns to another slave.
With it `ServesOnce` holds, without it divergence 6 of section 4 follows.

`Broadcasts` of the dispatch run is `{1}`: a request to one slave; with 2, divergence 4 follows.  The theorems about the dispatch do not depend on it.

The TCP slave's `UidEnabled` is `MB_TCP_UID_ENABLED`, off by default.  `Parallel` lets the poll task overtake the driver task, as it can when they are
not pinned to one core.  The TCP master's `MayRefuse` lets a slave refuse a connection, after which the code does not try again
(divergence 7); `Reconnects` and `NotForgotten` except such a slave.

`InfoPrompt` of the exchange: the stack task queues the info of an access before the application, waked by the event bit, stops waiting for it
(it waits for the time given to `mbc_slave_get_param_info`).  Without it `WritesNoticed` fails: bits are set before the info is queued.

`Overlap` of the instances is the set of those on which calls run at the same time.  The theorems hold for any.

### 3.3 Fairness

`FairSpec` assumes weak fairness of the poll task, of the timer and its callback, and of a caller
between its steps.  The poll task and the timer task run at fixed priorities and never wait for the wire;
`MB_EVENT_QUEUE_TIMEOUT_MAX` bounds every wait of the poll task.  Nothing is assumed of slaves, of the
UART or of whoever starts and stops the master.  The caller's giving up is not fair: it needs no
flag for 3000 ms.

For the slave it is the poll task's: entering the loop, handling an event, sending the response.  `SendFailed` ends
`Send` as `SendDone` does, so transmissions end but need not succeed.  `PollIdle` is among the events, its wait ends
after 3000 ms.  Nothing makes frames come, and nobody need start the slave again.
`RequestAnswered` is conditional for that reason: it speaks of a request that came at leisure (`asked`), until
a fault, a stop or another frame disturbs it.

For the TCP master it is that of the driver task's handlers, of the poll task and of the response timer.  A broken connection is reported
(`ReadBroken`), since reading from it fails each time the socket is selected.  For one that is reset `OnErrorRepair` is strongly fair: `mbm_on_error` does nothing while `recv_time` is recent,
but a read that fails does not renew that time, and a reset socket is found dead by `port_check_alive` each time.  None of this is assumed of one that is closed in order, which can be written to and is
found alive each time (divergence 23).  The other runs about TCP, the exchange and the instances check safety only and assume no fairness.

## 4. Findings and divergences

Two are runs of their own, 1 and 2.  TLC shows others when the run of the module is given the property or the constant that is named; the rest were met while modelling and are named by their lines.

1. *A stale success* (`port_event.c:180`, run `master_stale_ok`).  The caller waits 3000 ms though the comment there says forever,
   and the default response time is 10000 ms.  The late end of its transaction leaves the success
   flag set, and a later request returns `ESP_OK` at once, unexecuted.
2. *Half a count* (`mbfuncholding.c:164`, run `data_count`).  The second byte of the count is assigned, not or'ed in.  A request to read
   257 holding registers is answered with one, where the comment below promises an exception.

Serial master and slave, router:

3. *An empty bucket stays* (`mb_wrap_router.c:184`; `EmptyBucketReclaimed` in `MCRouter`).  `register_range` creates the bucket, then fails to
   install the dispatcher because the table is full, and returns.  `PROGRESS_SUMMARY.md:59,86` says that
   a bucket without fallback and ranges is reclaimed.
4. *A broadcast uses the range's handler once* (`mb_master.c:713`; `BroadcastServed` with `Broadcasts = {2}`).  The function runs for every slave, but
   resolving the pending target clears it: all slaves but the first get the fallback, though `RANGE_ROUTER_USAGE.md:56` says that the response to a request that
   hits a range goes to the handler of the range, and the comment at `mb_master.c:709` that the function is executed for all slaves.
5. *A stopped response timer* (`rtu_master.c:243`; `TimeoutProcessed` with `SlowT35`).  The callback stops the timer after it has read the mode,
   whatever the timer was started for meanwhile.  If that was the first request's response time and no answer
   comes, the transaction is never closed.
6. *A frame for another slave is answered* (`mb_slave.c:637`; `IgnoresOthers` without `Prompt`).  A frame is checked in `EV_FRAME_RECEIVED` and executed in
   `EV_EXECUTE`, queued behind whatever came in between.  If that is a second frame, it overwrites the receive
   buffer and the address; it is ignored when it is for another slave, but what `EV_EXECUTE` then executes and answers
   is that frame, and the first request is lost.

TCP:

7. *A refused connection is final* (`port_tcp_master.c:488-491`; `ReconnectsAlways` with `MayRefuse`).  `ERR_CONN` is logged and nothing more is
   sent for that node, whereas the table of addresses in `docs/en/port_initialization.rst:82` is said to be
   "used by master to resolve slave addresses and reconnect when connection is broken".
8. *The answer to identifier 65534 is dropped* (`port_tcp_master.c:589-593, 625`): the counter has gone back to the start of the range when the answer is compared with the counter less one.
9. *A stop keeps transactions* (`port_tcp_slave.c:606-624`).  Closing all nodes deletes none, so that after the next start the
   list holds requests of clients that are gone, in slots that new clients get.  `orphaned` marks it, and the properties about owners are stated without it.
10. *The last client waits* (`port_tcp_slave.c:468-474`).  Requests behind the oldest are looked at only when a further event of receiving comes.
    A client whose request is second, and who sends nothing more, is served when somebody sends something.
    See also 19.

Life of an instance:

11. *A start that fails strands the master* (`mbc_tcp_master.c:87-96`).  The stack is enabled and the controller not active: it can be neither started again,
    nor stopped, nor deleted; `mb_slave.c:551-555` does the same to a slave with address 0.
12. *A creation that fails panics* (`mb_slave.c:372-376` and its like): the error path hands the object itself to the transport's destructor.  `esp_modbus_master.h:210` promises
    `ESP_ERR_INVALID_STATE`.  The error path of the TCP controllers looks at `mb_base` before it is set (`mbc_tcp_slave.c:268-273`), that of the driver deletes the shared loop with other users on it
    (`port_tcp_driver.c:759-764`), and those of the controllers leak the semaphore or the queue.
13. *A stale handler* (`port_tcp_slave.c:70-98`; `DriverGone`).  `MB_EVENT_ERROR` stays registered when a TCP slave is deleted.  An ERROR event of a client that was lost meanwhile makes some task run the handler
    during the unregistration; it sees the shutdown flag, and the task deletes itself inside the loop, whose mutex it keeps.  If it was the task of another instance, that instance has lost its task and the slave's own goes on after
    `mbc_slave_delete` has returned `ESP_OK`, which "frees all used active objects allocated for the slave" (`docs/en/slave_api_overview.rst:342`).
14. *Creating and deleting beside deleting* (`port_tcp_driver.c:110-152, 734`; `LastFindsLoop` with two TCP slaves in `Overlap`).  The counter of the loop is raised after the loop was looked up, and looked at after it was lowered, without a lock.  Two
    deletes at the same time both find nobody left, and the second deletes a loop that is NULL.  The
    tests `tcp_slave_instances.c:251` and `tcp_master_instances.c:628` delete each instance from a task of its own.

Data:

15. *A short READ/WRITE is echoed* (`mbfuncholding.c:206-274`): a request shorter than its header is answered by itself, as if it had succeeded.  The frames of the run leave it out.
16. *Wide areas wrap* (`esp_modbus_slave.c:357-358, 392-393`): a byte offset is computed in 16 bits, though an area may have up to 131070 bytes (`mbc_slave.h:24`).
17. *Neighbouring bits* (`mbutils.c:44-79`): setting bits always rewrites the byte after them as well, which may be outside the area.
18. *Overlapping areas* (`esp_modbus_slave.c:266-274`): an area that begins outside an existing one and reaches into it is accepted; lookups then depend on the order of registration.

Found by proofs that failed, and by modelling what they left out:

19. *A request of a TCP slave executed twice* (`port_tcp_slave.c:436-470`).  `mbs_on_recv_data` starts the oldest transaction when it takes the resource, and does not ask whether
    the poll task is still busy with an earlier one.  While a handler runs, a damaged frame may post an error, which frees the resource, a slot may be dropped, and two transactions may expire,
    each time letting the next one be announced: `EV_FRAME_RECEIVED` is then queued twice, so is `EV_EXECUTE`, and the second runs the handler on the buffer of the first again.  It takes 41 steps and
    more faults than the run allows, so that TLC found it only on a larger instance made for it.  With clients dropped while the poll task has their request received and not yet executed it
    takes no expiry.  `ExecutedInOrder` therefore speaks of the time until a transaction gets too old, the slave is stopped or a client is dropped there (`calm`); dropped at any other time it does no harm.
    `AnsweredInOrder` has no such condition.
20. *A late response loses its handler* (`mbc_serial_master.c:209, 301`; `LateServed`).  The caller clears the pending target when it gives up, after 3000 ms, and sets that of its next request before it takes the resource.  The poll
    task may execute the response to the first after that: it gets the fallback, or the next request's handler, against `RANGE_ROUTER_USAGE.md:56`.  `RanWasSelected` speaks of the requests to whom this does not happen.
21. *An answer for another slave's request* (`port_tcp_master.c:223-230`; `AcceptsOnlyOwn`).  The poll task waits in the read of one slave; the caller gives up, its next request is written to another slave, and a late answer of the first
    ends the wait.  It is compared with the first slave's counter, accepted and executed for the request to the second, instead of being ignored as the comment at `mb_master.c:692` has it.
22. *A read that does not end* (`port_tcp_driver.c:399`, `port_other.c:97`; `RequestEnds`).  If the queue was emptied after the answer was announced, because the connection was lost, the poll task waits for ever; the response time-out is
    posted but not handled, against `Kconfig:77`.  Only a further answer of the same slave ends it.
23. *A connection closed in order* (`port_tcp_driver.c:585-587`; `ReconnectsClosed`) is found alive by `port_check_alive`, as it can be written to, which renews `recv_time`: it is not repaired before somebody writes to it, though
    `docs/en/port_initialization.rst:82` says that the master will "reconnect when connection is broken".
24. *The event object goes first* (`rtu_slave.c:98-100`, `port_tcp_slave.c:172`).  A delete frees the event object before the UART task that posts to it (`port_serial.c:169`), and a TCP slave's transactions and event object before the
    handlers and the driver task are gone.  `UsersGoneFirst` excepts these two while a call is in progress (`Early`); after it they are no exception.
25. *A stale buffer* (`port_tcp_master.c:227-230`).  -1 of `mb_drv_read` is stored in a `size_t`; the answer read before, whose identifier is the one expected, then passes for the answer announced.

## 5. What is proved

For every value of the constants under the assumptions named in the modules: `RouterAssumption`, `DispatchAssumption`,
`MasterAssumption`, `SlaveAssumption`, `TcpSlaveAssumption`, `TcpMasterAssumption`, `ExchangeAssumption` (with `WordTopAssumption` of `MbAreas`),
`InstancesAssumption`.  They say that bounds
are numbers, that the data given (areas, dictionary, frames) have the shape the C types give them, that an instance is of one kind and that there are finitely many of them, and no more.  A theorem that needs more says so
in its hypotheses; the last column of the table names them.  The run of the property satisfies them, too.

| property | theorem | beyond the module's assumption |
|---|---|---|
| `TypeOK`, `RoutesDisjoint`, `NothingUnreachable`, `CountCoversEntries`, refinement of `RoutingMap` | `TypeCorrect`, `DisjointRoutes`, `Reachable`, `TableBounded`, `Refinement` | |
| `DispatchTypeOK`, `PendingIsOwn` | `DispatchTypeCorrect`, `PendingAlwaysOwn` | |
| `RanWasSelected` | `RanAlwaysSelected` | (the property is about requests that have the target to themselves: divergences 4, 20) |
| `TypeOK`, `ErrTypeAccounted` of the serial master | `TypeCorrect`, `ErrorsAccounted` | |
| `HeldIsDriven` of the serial master | `HeldResourceDriven` | `~SlowT35` (divergence 5) |
| `WritesOwnBuffer`, `ImplementsReply`, `OkIsOwn` | `OwnBufferWritten`, `ReplyImplemented`, `OkAlwaysOwn` | `Nominal`: `~Race`, `~LongTimeout`, `MaxStops = 0` (finding 1) |
| `TypeOK`, `LeakHeals` | `TypeCorrect`, `LeakAlwaysHeals` | |
| `ErrTypeAccounted` of the slave | `ErrorsAccounted` | behaviours in which the event queue does not overflow (`[][Fits]_vars`) |
| `ServesOnce` | `ServesAlwaysOnce` | `Prompt` (divergence 6) |
| `TypeOK`, `ItemsAreOfTheirSlot`, `AnswersOwn`, `AnsweredInOrder`, `ExecutedInOrder` | `TypeCorrect`, `ItemsAlwaysOfTheirSlot`, `AnswersAlwaysOwn`, `AnsweredAlwaysInOrder`, `ExecutesAlwaysInOrder` | (`ExecutedInOrder` is about the time in which `calm` holds: divergence 19) |
| `HeldIsDriven` of the TCP slave | `HeldAlwaysDriven` | `~UidEnabled` |
| `TypeOK`, `CountAgrees`, `NotForgotten`, `AnswerKept`, `HeldIsDriven` of the TCP master | `TypeCorrect`, `CountAlwaysAgrees`, `NeverForgotten`, `AnswerAlwaysKept`, `HeldAlwaysDriven` | |
| `AcceptsOwn` | `AcceptsAlwaysOwn` | `EnoughTids`: as many identifiers as requests (the property is about reads from the slave last written to, while it is connected: divergences 21, 25) |
| `TypeOK` of the exchange | `TypeCorrect` | |
| `WritesNoticed` | `WritesAlwaysNoticed` | `InfoPrompt` |
| `ImplementsRegisterMap` | `ImplementsMap` | `WellLaid` (divergences 16, 18), `RegularAsks` (2, 15) |
| `SetIsWhatSlaveGets`, `GetIsWhatSlaveHad` | `SetAlwaysGets`, `GetAlwaysHad` | `WellLaid` |
| `TypeOK` of the instances | `TypeCorrect` | |
| `UsersGoneFirst`, `DeleteFreesAll` | `UsersAlwaysGoneFirst`, `DeleteAlwaysFreesAll` | (the exceptions are in the properties: divergences 13, 24) |
| `LoopServesAll`, `StoppedInHandler` | `LoopAlwaysServesAll`, `StopsOnlyInHandler` | (`LoopServesAll` speaks of the loop while `apart` holds: divergence 14) |

### 5.1 The arguments

`MbRouterProofs`:

* `TypeCorrect`, `DisjointRoutes`, `Reachable`, `TableBounded`.  The inductive invariant `IInv` joins the
  four invariants; the counter needs finite sets, and `Reachable` needs that a code with a bucket is
  either behind the dispatcher or has no entry, since a failed registration may leave the latter.
* `Refinement`: the router implements `RoutingMap` under `View`, which reads the fallback from the bucket
  of a wrapped code and from the table otherwise.  Each operation maps to the operation of the map or, if it fails, to
  `Refuse`.

`MbDispatchProofs` extends it: every step of a request is a step beside any operation of the router.

* `DInv` joins `IInv` and `PendingIsOwn` with what a task may rely on of what it has read, and with where caller and poll task can be at once (`PhasesOK`).  `AnswersKept` says that what the router answers now is among the
  answers so far; `FoundKept` is the heart: a task that has found the dispatcher in the table finds its bucket still there, or there was an
  instant at which nothing was registered, so that the handler it falls back to was an answer, too.
* `RanAlwaysSelected` adds `PendingThere`: the target of a request that has it to itself stays until the request is executed for the first time.  The poll task was at rest when it was set, so nothing
  that was sent before can consume it; and the caller, who might clear it or set that of the next request, is still there.

`MbMasterProofs`:

* `TypeCorrect`, with `NextType` split into the poll task and the others.
* `ErrorsAccounted`.  `ErrInv` adds that the callback sets errors in the response mode only.  Its heart
  is that the poll task takes events off the queue only to handle them: `PollKeepsEvents` and
  `OthersKeepEvents` say that every kind of event other than the one handled stays queued.
* `HeldResourceDriven`, assuming `~SlowT35`.  `DriveInv` adds that a callback never posts in the mode T35, and
  that a callback about to stop the timer for T35 finds no response timer running: that is where
  the assumption enters, and where divergence 5 breaks it.
* `OwnBufferWritten`, `ReplyImplemented`, `OkAlwaysOwn`.  `OneInv` says at which stage the one transaction is: `Boot`, `Free`, `Taken`, `Posted`, `Sent`, `Received`, `Executing`,
  `Served`, `Failing`, `Closing`, each with the queue, the identifiers, the error, the flags and the timer it has.  The event at the head of the queue tells the stage (`HeadTells`), so each step has one stage
  to start from.  The T35 timer of the start runs beside all stages before the first request is sent (`Quiet`); if its callback stops the timer of the request, the stage is `Lost`: the
  caller gives up, truly, and every later call is refused.  So `SlowT35` costs the resource but no wrong answer.  A function is executed in the stage `Executing` only, a call returns in `Free`, `Closing` or `Lost` only, with the
  flag of its own transaction.  Each hypothesis of `Nominal` is needed: without any one of them TLC finds `WritesOwnBuffer` and `ImplementsReply` violated.

`MbSlaveProofs`:

* `TypeCorrect`, which includes that the queue never outgrows `QueueLen`: it rests on the lemmas about
  posting (`PollPostType`, `PostType`) and flushing.
* `LeakAlwaysHeals`.  `LeakHeals` is inductive with the types: only `SendFailed` takes the semaphore for good and it counts a failure,
  only `ReceiveBusy` and `SendBusy` lose something and they give it back.
* `ErrorsAccounted`.  The hypothesis cannot be dropped: an overflow loses `EV_ERROR_PROCESS` and leaves the error set until the next one.  The
  announcements of success in between are skipped, and requests are answered all the same (`RequestAnswered`).
* `ServesAlwaysOnce`.  `PInv` adds that one request at most is in hand (`OneInHand`: its `EV_FRAME_RECEIVED`, its `EV_EXECUTE` or its sending), that it is younger than everything
  executed before (`Received`, `ToExecute`), and that what is being sent was executed last (`ToSend`).  Overflows, flushes and stops may lose it; they never repeat it.

`MbTcpSlaveProofs`:

* Every step does one of a few things to the list (`Thin`: it keeps some of the items in their order, in other states; or it adds one at the end), and the invariants are proved
  for these, not action by action.
* `ItemsAlwaysOfTheirSlot`.  `Placed` adds `InOrder`: a client has one slot at most, its requests are in the list in the order it sent them, and those that wait in its slot come behind.
* `AnswersAlwaysOwn`, `AnsweredAlwaysInOrder`.  `Answering` adds that what is being executed is the head of the list if that has its identifier (`HeadOf`), and that an answer that waits in a slot is for the
  client the slot belongs to.  Identifiers of two clients coincide; that a response is still not misdirected rests on `Placed` and on an item being removed when its slot is.
* `ExecutesAlwaysInOrder`.  `Calm` adds that at most one event of receiving or executing is queued (`One`), and that what is executed is the head of the list.  The invariant fails when transactions expire, and when a client is dropped while the poll task has a
  request of its received and not yet executed (`Interrupts`): divergence 19.
* `HeldAlwaysDriven` needs only that an error that is set has its event (`ErrOnWay`).

`MbTcpMasterProofs`:

* `CountAlwaysAgrees`: each handler that connects or closes a node changes the counter by one, and a counter at zero is never counted down, since the node that is closed is counted.
* `NeverForgotten`.  `AllWait` gives each slave its event: resolving for a node that is opened, connecting for one that is resolved.
* `AnswerAlwaysKept`.  `Keeping` says that no frame anywhere is of a later request than the last (`Owned`) and that the slave it was written to has counted on since (`LastWritten`), unless the range
  has ended, which is divergence 8.
* `HeldAlwaysDriven`.  `Driven` adds that an error that is set has its event, and says which events lead to the return: the received one may not, as the poll task ignores an answer to an earlier transaction.
* `AcceptsAlwaysOwn`.  `Accepting` adds `TidsInOrder`: a slave's counter has either not yet come to the end of the range (`Fresh`), and the identifiers in use are between where it began and where it is, or has done so
  (`Wrapped`), and those in use are above where it began or below where it is.  The requests are too few to come round again (`EnoughTids`), hence an identifier belongs to one request (`LastUnique`), wherever the answers are
  that the slave still owes, that are queued, or that the poll task is about to read.

`MbExchangeProofs`:

* Facts about the operators come first.  The areas of a slave are one map from registers to values, `MapOf`; a callback reads or changes the entries of its range and no others; each handler
  leads to the callbacks its request names (`Plan`); each byte order is its own inverse on the registers, so that the setters lay a value out as the getters read it.
* `TypeCorrect`.  `Control` says where a request, a call and the slave can be: what phase has which callbacks left.
* `WritesAlwaysNoticed`.  `Noticed` says where the notice of a write is: in the queue, or in the hands of the stack task; and that an application that waits with a queue that is not empty has an event bit set.
* `ImplementsMap`.  `Laid` says that the areas stay apart and are among those registered, so that the order of registration does not matter; `AllRegular` that no request on its way is one the slave mistakes.
  Each callback is then one step of the map (begin, read, write, finish), and each other step a stutter.
* `SetAlwaysGets`, `GetAlwaysHad`.  `ValueInv` joins `Control`, `Laid`, `Numbered` (whose request the slave is at), `Asked` (which frame carries which value) and `HeldIs` (what the registers held when
  the slave was done).  `RegularAsks` is not needed: of a parameter of 256 registers or more the slave misreads the count, but a get then fails on the master, as the bytes of the answer are counted in one byte.

`MbInstancesProofs`:

* What an instance has half-way through a call depends on how far the call has come, and a failure or a detour exchanges the rest of it.  So the invariant looks ahead.  It says that there are facts for each
  instance (its resources, its handlers in the loop, and marks such as `driver_task`, `counted`, `sema`), which the variables agree with (`Shows`) and from which *the rest of its program goes well to its end* (`Leads`): each step finds what it
  needs (`Allowed`), what is used is there before and after it (`Sound`), and at the end the instance is absent, at work or lost (`AtRest`).
* Programs compose as the code does, so the proof follows the code: `Path` says that a program leads from some facts to others, `PathJoin` that paths follow one another, and a lemma for each C function says
  where its program leads (`mb_port_ser_created`, `mb_drv_registered`, `mb_drv_unregistered`, ..., `CreateGoesWell`, `StopGoesWell`, `DeleteGoesWell`).  The error paths have theirs (`IfaceFreed`, `FunctionsFailLeads`, `NotDeletedLeads`).
* A step of a call then only takes the first step of its path (`PathStep`, `Move`), or puts a program before the rest whose path is known (`Turn`); one lemma for each action shows that the variables still agree.  Each other
  instance keeps its facts; what it has in the loop survives `loop_deinit` because the counter is the number of the instances marked `counted`, and whoever has a handler is.
* `ToldInHandler`: only the ERROR handler that a TCP slave leaves behind can find its instance told to stop, for the other handlers are unregistered before the semaphore of the shutdown exists (`RunLoopFollowed`).  So but for that event, and for a
  driver task that is stopped because it is late, the mutex of the loop is not left behind (`StopsOnlyInHandler`), and a task that ends is that of the driver that was shut down; `Shows` speaks of driver tasks as long as it has not been (`~loopHeld`).
* The counter is always the number of instances marked `counted` (`Counts`).  As long as the calls that touch it come one after the other (`apart`), one at most is between its two looks at it (`OneCounts`, mark `opening`),
  and the loop is there exactly while there is such a call or the counter is not 0 (`LoopKept`).
* The same invariant was checked by TLC with a history variable for the facts, with overlapping calls and ERROR events on two TCP instances.

### 5.2 Only model-checked

* The liveness properties `ResourceComesFree`, `RequestAnswered` and `Reconnects`: fairness and `ENABLED` are out of the prover's reach.

## 6. Not modelled, and why

* For the serial master, the overflow of the event queue, the bus semaphore and the UART's error events
  (planned); for the slave they are modelled.
* `SEMA_SECTION` giving up after 5 s (`mb_common.h:69`): a section of the handler table would have to be held
  that long.
* The CRC, the LRC, hex coding and the layout of frames: frames are good or bad.  Of TCP, whole packets: reads in parts, sockets and
  their options, name resolution and mDNS are I/O.
* Of the functions, report slave id, diagnostics, custom codes and broadcasts; padding bits of coils; frames whose byte count disagrees
  with their length; coil parameters of the dictionary (requests for coils go by `mbc_master_send_request`).
* In `MbInstances`: mutexes of single objects, the resources within an event or timer object (one stands for all), the option
  `start_disconnected`, a slave with address 0.  A handler of the loop is one step, but a driver task may be stopped in the middle of it, whose mutex it then keeps; giving the semaphore and suspending are one step.
* In `MbTcpMaster`: a poll task and a driver task that are not pinned to one core, and a poll task that still reads from a queue that a stop deletes (2.5); a failed write of an event by the driver.
* `mbs_router_parse_request_range`: the router's models are given ranges.
* `port_other.c` and FreeRTOS: taken as given.
* `examples/`, `test_apps/`, `tools/`: users of the stack.

## 7. Plan

| step | modules | abstract specification and properties | theorems |
|---|---|---|---|
| 1 (done) | `RoutingMap`, `MbRouter`, `MbDispatch` | the map; the handler that ran was selected | all safety properties and the refinement |
| 2 (done) | `RequestReply`, `MbMaster` | what the caller sees; errors and the resource | all safety properties and the refinement |
| 3 (done) | `MbSlave` | each frame answered at most once, broadcasts never; requests keep being answered; a lost semaphore heals | all safety properties |
| 4 (done) | `MbTransaction`, `MbTcpSlave`, `MbTcpMaster` | owners, order, reconnection | all safety properties |
| 5 (done) | `RegisterMap`, `MbData`, `MbAreas`, `MbFunctions`, `MbExchange` | the slave is a map of registers; values survive the way | all safety properties and the refinement |
| 6 (done) | `MbInstances` | teardown order, shared loop | all safety properties |
| 7 | `MbMaster` with the bus semaphore, UART errors and queue overflow of `MbSlave` | the resource still comes free, or the run that shows it does not | types |
| 8 | PDU ranges and bit fields as operators | against reference definitions over bounded inputs | bounds of the operators |
