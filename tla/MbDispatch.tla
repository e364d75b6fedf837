------------------------------ MODULE MbDispatch ------------------------------
(***************************************************************************)
(* How a request finds its handler while the table and the router change   *)
(* under it.  The tasks involved take handler_descriptor.sema several      *)
(* times for one request and run the handler outside of it, so any         *)
(* operation of MbRouter may come between two of these steps.              *)
(*                                                                         *)
(* Master: the calling task selects a handler for the request and leaves   *)
(* it as the pending target (mbc_serial_master.c:205-211), takes the       *)
(* resource, sends, waits and clears the target (301).  When the response  *)
(* is executed the poll task looks its code up in the table and, if it     *)
(* finds the dispatcher, resolves the target (mb_master.c:180-218).  The   *)
(* two tasks are tied together by the resource alone: the caller waits for *)
(* 3 s whatever the response time is (port_event.c:180), and the target of *)
(* the next request is set before the resource is taken, so the poll task  *)
(* may still execute the response to a request that was given up, beside   *)
(* the next request of the caller.                                         *)
(* Slave: the poll task looks the code up and, if it finds the dispatcher, *)
(* selects by the range it parses (mb_slave.c:175-192, 227-259).           *)
(*                                                                         *)
(* A master has one caller at a time (mbm_sema).  A request is sent when   *)
(* the poll task is finished with the one before; the events that make it  *)
(* finish with the wrong one are the subject of MbMaster.                  *)
(***************************************************************************)
EXTENDS MbRouter

CONSTANTS Roles,        (* subset of {"master", "slave"}                    *)
          Broadcasts    (* how many slaves a request is executed for: 1, or *)
                        (* MB_MASTER_TOTAL_SLAVE_NUM for a broadcast        *)

ASSUME DispatchAssumption == /\ Roles \subseteq {"master", "slave"}
                             /\ Broadcasts \subseteq Nat \ {0}
                             /\ None \notin [code: FuncCodes, handler: Handlers]

VARIABLES role,     (* what the object is                                   *)
          pc,       (* where the master's caller is                         *)
          asked,    (* its request                                          *)
          target,   (* the handler it has selected                          *)
          pending,  (* pending_handler and pending_func_code of the router  *)
          exec,     (* where the poll task is; "none": the resource is free *)
          served,   (* the request it executes                              *)
          left,     (* the slaves the function is still to be executed for  *)
          ran,      (* the handler that ran, None for an illegal function,  *)
                    (* the dispatcher as long as none has                   *)
          runs      (* history: how often one ran for the request           *)

callerVars == <<pc, asked, target>>
pollVars == <<exec, served, left, ran, runs>>
dispatchVars == <<role, pending, callerVars, pollVars>>

Requests == [code: FuncCodes, start: Starts, len: Lengths]

\* A request with its history: what the router would have answered at any instant
\* since it was taken up, and whether it had the target to itself: the poll task
\* was at rest when the target was set, and the caller waited for the outcome.
Jobs == [req: Requests, answers: SUBSET (Handlers \cup {None}), apart: BOOLEAN]

\* A slip: without a hit the entry of the table is taken, wrapped or not.
SelectEntry(q) ==
    LET hits == {r \in routes[q.code] : q.len > 0 /\ Contains(r, q.start, q.len)}
    IN  IF hits # {} THEN {r.handler : r \in hits} ELSE {table[q.code]}

\* mb_wrap_router_select_locked.  A set, for the list may hold several matches.
Select(q) ==
    LET hits == {r \in routes[q.code] : q.len > 0 /\ Contains(r, q.start, q.len)}
    IN  IF q.code \notin buckets THEN {table[q.code]}
        ELSE IF hits # {} THEN {r.handler : r \in hits}
        ELSE {fallback[q.code]}

\* The fallback of the bucket, the answer of
\* mb_wrap_router_resolve_dispatch_target_locked when nothing is pending for c.
BucketFallback(c) == IF c \in buckets THEN fallback[c] ELSE None

-------------------------------------------------------------------------------
(* The master's calling task.                                              *)

\* mbm_router_select_on_request.  Without a handler the request fails, and nothing
\* has changed.
MasterSelect(q) ==
    /\ role = "master" /\ pc = "idle"
    /\ \E h \in Select(q) \ {None} :
         /\ target' = h
         /\ asked' = [req |-> q, answers |-> {h}, apart |-> FALSE]
    /\ pc' = "selected"
    /\ UNCHANGED <<vars, role, pending, pollVars>>

\* The selected handler is not handed over to the poll task.
MasterSetPendingForgets ==
    /\ role = "master" /\ pc = "selected"
    /\ asked' = [asked EXCEPT !.apart = exec = "none"]
    /\ pc' = "asking"
    /\ UNCHANGED <<vars, role, pending, target, pollVars>>

\* mbm_router_set_pending_target.  The poll task may be busy with another request.
MasterSetPending ==
    /\ role = "master" /\ pc = "selected"
    /\ pending' = [code |-> asked.req.code, handler |-> target]
    /\ asked' = [asked EXCEPT !.apart = exec = "none"]
    /\ pc' = "asking"
    /\ UNCHANGED <<vars, role, target, pollVars>>

\* mbm_rq_*: the resource is taken and the transaction posted.
MasterSend ==
    /\ role = "master" /\ pc = "asking" /\ exec = "none"
    /\ pc' = "waiting"
    /\ exec' = "sent"
    /\ served' = asked
    /\ left' \in Broadcasts
    /\ UNCHANGED <<vars, role, pending, asked, target, ran, runs>>

\* The caller is through with its request.  One the poll task has not executed
\* yet is given up.
CallerReturns ==
    /\ pc' = "idle" /\ asked' = None /\ target' = None
    /\ served' = IF pc = "waiting" /\ exec \in {"sent", "found"}
                 THEN [served EXCEPT !.apart = FALSE]
                 ELSE served
    /\ UNCHANGED <<vars, role, exec, left, ran, runs>>

\* The pending target is cleared only when the response was executed.
MasterClearPendingLate ==
    /\ role = "master" /\ pc \in {"asking", "waiting"}
    /\ pending' = IF exec = "done" THEN None ELSE pending
    /\ CallerReturns

\* mbm_router_clear_pending_target: the resource was not to be had, the outcome
\* came, or the caller does not wait any longer.
MasterClearPending ==
    /\ role = "master" /\ pc \in {"asking", "waiting"}
    /\ pending' = None
    /\ CallerReturns

-------------------------------------------------------------------------------
(* The poll task.                                                          *)

\* The handler h runs, for the next of n slaves.
Run(h, n) == /\ ran' = h
             /\ runs' = runs + 1
             /\ left' = n - 1
             /\ exec' = IF n > 1 THEN "sent" ELSE "done"

\* mbX_check_invoke_handler: the handler in the table is called, but for the
\* dispatcher, which is still to find its target.
Invoke(c, n) == IF table[c] = Dispatcher
                THEN exec' = "found" /\ left' = n /\ UNCHANGED <<ran, runs>>
                ELSE Run(table[c], n)

\* The poll task is finished with the request: EV_ERROR_PROCESS releases the
\* resource; a slave has answered.
Finish == /\ exec' = "none" /\ served' = None /\ left' = 0
          /\ ran' = Dispatcher /\ runs' = 0
          /\ UNCHANGED <<vars, role, pending, callerVars>>

MasterLookup == /\ role = "master" /\ exec = "sent"
                /\ Invoke(served.req.code, left)
                /\ UNCHANGED <<vars, role, pending, callerVars, served>>

SlaveLookup(q) == /\ role = "slave" /\ exec = "none"
                  /\ Invoke(q.code, 1)
                  /\ served' = [req |-> q, answers |-> Select(q), apart |-> TRUE]
                  /\ UNCHANGED <<vars, role, pending, callerVars>>

\* mbm_fn_router_dispatcher
MasterResolve ==
    /\ role = "master" /\ exec = "found"
    /\ \/ /\ pending # None /\ pending.code = served.req.code
          /\ Run(pending.handler, left)
          /\ pending' = None
       \/ /\ ~ (pending # None /\ pending.code = served.req.code)
          /\ Run(BucketFallback(served.req.code), left)
          /\ UNCHANGED pending
    /\ UNCHANGED <<vars, role, callerVars, served>>

\* mbs_fn_router_dispatcher; a request of length 0 stands for one without a
\* range, which mbs_router_parse_request_range refuses.
SlaveResolve ==
    /\ role = "slave" /\ exec = "found"
    /\ IF served.req.len > 0 /\ Select(served.req) # {None}
       THEN \E h \in Select(served.req) : Run(h, left)
       ELSE Run(BucketFallback(served.req.code), left)
    /\ UNCHANGED <<vars, role, pending, callerVars, served>>

\* The transaction ends without an execution: no response, a bad frame, an
\* exception response or an expired one.
MasterFails == /\ role = "master" /\ exec = "sent" /\ runs = 0
               /\ Finish

\* The execution is reported, the slave's handler has answered.
Executed == /\ exec = "done"
            /\ Finish

-------------------------------------------------------------------------------
\* The answers to a request while the router changes.
Follow(job) == [job EXCEPT !.answers = @ \cup UNION {Select(q)' : q \in {job.req}}]

\* An operation of the API by another task.  The object is not deleted while a
\* request is in progress.
Reconfigure == /\ Configure
               /\ asked' = IF pc = "idle" THEN asked ELSE Follow(asked)
               /\ served' = IF exec = "none" THEN served ELSE Follow(served)
               /\ UNCHANGED <<role, pc, target, pending, exec, left, ran, runs>>

DispatchInit == /\ Init
                /\ role \in Roles
                /\ pc = "idle" /\ asked = None /\ target = None
                /\ pending = None
                /\ exec = "none" /\ served = None /\ left = 0
                /\ ran = Dispatcher /\ runs = 0

DispatchNext == \/ \E q \in Requests : MasterSelect(q) \/ SlaveLookup(q)
                \/ MasterSetPending \/ MasterSend \/ MasterClearPending
                \/ MasterLookup \/ MasterResolve \/ MasterFails
                \/ SlaveResolve \/ Executed
                \/ Reconfigure

DispatchSpec == DispatchInit /\ [][DispatchNext]_<<vars, dispatchVars>>

-------------------------------------------------------------------------------
(* Properties.                                                             *)

DispatchTypeOK ==
    /\ TypeOK
    /\ role \in Roles
    /\ pc \in {"idle", "selected", "asking", "waiting"}
    /\ pc # "idle" => asked \in Jobs
    /\ target \in Handlers \cup {Dispatcher, None}
    /\ pending \in [code: FuncCodes, handler: Handlers] \cup {None}
    /\ exec \in {"none", "sent", "found", "done"}
    /\ exec # "none" => served \in Jobs
    /\ left \in Nat
    /\ ran \in Handlers \cup {Dispatcher, None}
    /\ runs \in Nat

\* The handler that runs for a request is one the router stood for at some
\* instant since the request was taken up, and an illegal function is answered
\* only if at some such instant nothing was registered for the request: neither
\* the steps between reading the table and running the handler, nor the wrapping
\* and unwrapping of the code in between, let a request fall through
\* (mb_master.c:180-218, mb_slave.c:175-192, 227-259).  This is said of requests
\* that had the pending target to themselves (of Jobs, apart; always, on a slave)
\* and of the first slave a broadcast is executed for; LateServed and
\* BroadcastServed say it of the others.
RanWasSelected == ran # Dispatcher /\ served.apart /\ runs = 1 => ran \in served.answers

\* A pending target belongs to the caller's request in progress: it is an answer to
\* that request, under its function code, and does not outlive it, whether it was
\* consumed or not, and by whom (mbc_serial_master.c:209-211, 301).
PendingIsOwn ==
    pending # None => /\ pc \in {"asking", "waiting"}
                      /\ pending.code = asked.req.code
                      /\ pending.handler \in asked.answers

\* RANGE_ROUTER_USAGE.md, 2.1: the response to a request that hits a range goes to the
\* handler of the range; here, also when the caller has given the request up or the
\* one before it.  (The code does not keep this.)
LateServed == ran # Dispatcher /\ runs = 1 => ran \in served.answers

\* The same of every slave a broadcast is executed for.  (The code does not keep this.)
BroadcastServed == ran # Dispatcher /\ served.apart => ran \in served.answers
===============================================================================
