--------------------------- MODULE MbDispatchProofs ---------------------------
(***************************************************************************)
(* The invariants of MbDispatch, for every set of function codes, handlers *)
(* and ranges: what a task reads of the table and of the router at one     *)
(* instant is still an answer of the router when it is used at a later one. *)
(***************************************************************************)
EXTENDS MbDispatch, MbRouterProofs

\* What the router answers now is among what it would have answered since the
\* request was taken up, for the request of the caller and for the one executed.
AnswersKept == /\ pc # "idle" => Select(asked.req) \subseteq asked.answers
               /\ exec # "none" => Select(served.req) \subseteq served.answers

\* The target that was selected is a handler the router answered with.
SelectedOwn == pc = "selected" => target \in Handlers \cap asked.answers

\* A task that has found the dispatcher in the table either still finds the
\* bucket, or there was an instant at which nothing was registered.
FoundKept == exec = "found" => served.req.code \in buckets \/ None \in served.answers

\* Nothing has run yet when no request is in progress; a function is executed for
\* somebody; a slave has no caller and executes for itself.
PhasesOK == /\ exec = "none" => runs = 0
            /\ runs = 0 => ran = Dispatcher
            /\ exec \in {"sent", "found"} => left >= 1
            /\ role = "slave" => /\ pc = "idle" /\ pending = None /\ exec # "sent"
                                 /\ exec = "found" => left = 1 /\ runs = 0

\* The inductive invariant: the one of the router, and what the tasks hold.
DInv == IInv /\ DispatchTypeOK /\ PendingIsOwn
        /\ AnswersKept /\ SelectedOwn /\ FoundKept /\ PhasesOK

\* The target of a request that has it to itself is there until the request is
\* executed for the first time.
PendingThere ==
    /\ pc = "asking" /\ asked.apart => exec = "none" /\ pending # None
    /\ role = "master" /\ exec \in {"sent", "found"} /\ served.apart /\ runs = 0
          => /\ pc = "waiting" /\ pending # None
             /\ pending.code = served.req.code /\ pending.handler \in served.answers

allVars == <<vars, dispatchVars>>

-------------------------------------------------------------------------------
(* What the router answers.                                                *)

\* The routes of a code do not share registers: a request hits at most one.
LEMMA OneAnswer ==
  ASSUME IInv, NEW q \in Requests
  PROVE  \E h \in Handlers \cup {None} : Select(q) = {h}
<1>1. /\ q.code \in FuncCodes /\ q.start \in Nat /\ q.len \in Nat
  BY RouterAssumption DEF Requests, RouterAssumption
<1>2. /\ table[q.code] \in Handlers \cup {Dispatcher, None}
      /\ fallback[q.code] \in Handlers \cup {None}
      /\ routes[q.code] \subseteq Route
  BY <1>1 DEF IInv, TypeOK
<1>3. CASE q.code \notin buckets
  <2>1. table[q.code] \in Handlers \cup {None}
    BY <1>1, <1>2, <1>3 DEF IInv, NothingUnreachable
  <2> QED
    BY <1>3, <2>1 DEF Select
<1>4. CASE q.code \in buckets
  <2> DEFINE hits == {r \in routes[q.code] : q.len > 0 /\ Contains(r, q.start, q.len)}
  <2>1. ASSUME NEW r \in hits, NEW s \in hits
        PROVE  r = s
    <3>1. /\ r \in routes[q.code] /\ s \in routes[q.code]
          /\ q.len > 0 /\ Contains(r, q.start, q.len) /\ Contains(s, q.start, q.len)
      OBVIOUS
    <3>2. /\ r.start \in Nat /\ r.len \in Nat /\ s.start \in Nat /\ s.len \in Nat
      BY <1>2, <3>1, RouterAssumption DEF Route, RouterAssumption
    <3>3. Overlap(r, s)
      BY <1>1, <3>1, <3>2 DEF Overlap, Contains
    <3> QED
      BY <1>1, <3>1, <3>3 DEF IInv, RoutesApart
  <2>2. CASE hits = {}
    <3>1. Select(q) = {fallback[q.code]}
      BY <1>4, <2>2 DEF Select
    <3> QED
      BY <1>2, <3>1
  <2>3. CASE hits # {}
    <3>1. PICK r \in hits : TRUE
      BY <2>3
    <3>2. Select(q) = {s.handler : s \in hits}
      BY <1>4, <2>3 DEF Select
    <3>3. Select(q) = {r.handler}
      BY <2>1, <3>1, <3>2
    <3>4. r.handler \in Handlers
      BY <1>2, <3>1 DEF Route
    <3> QED
      BY <3>3, <3>4
  <2> QED
    BY <2>2, <2>3
<1> QED
  BY <1>3, <1>4

LEMMA AnswerType ==
  ASSUME IInv, NEW q \in Requests
  PROVE  Select(q) \subseteq Handlers \cup {None}
BY OneAnswer

LEMMA AnswerTypeNext ==
  ASSUME NEW q \in Requests
  PROVE  (IInv => Select(q) \subseteq Handlers \cup {None})'
<1>1. IInv => Select(q) \subseteq Handlers \cup {None}
  BY AnswerType
<1> QED
  BY <1>1, PTL

\* A handler that is called straight from the table is what the router answers.
LEMMA TableAnswers ==
  ASSUME IInv, NEW q \in Requests, table[q.code] # Dispatcher
  PROVE  table[q.code] \in Select(q)
<1>1. q.code \in FuncCodes
  BY DEF Requests
<1>2. CASE q.code \notin buckets
  BY <1>2 DEF Select
<1>3. CASE q.code \in buckets
  <2>1. table[q.code] = None /\ fallback[q.code] = None /\ routes[q.code] = {}
    BY <1>1, <1>3 DEF IInv, NothingUnreachable
  <2> QED
    BY <1>3, <2>1 DEF Select
<1> QED
  BY <1>2, <1>3

\* So is the fallback of the bucket, for a request that hits no range.
LEMMA FallbackAnswers ==
  ASSUME IInv, NEW q \in Requests, q.code \in buckets, q.len = 0 \/ Select(q) = {None}
  PROVE  BucketFallback(q.code) \in Select(q)
<1> DEFINE hits == {r \in routes[q.code] : q.len > 0 /\ Contains(r, q.start, q.len)}
<1>1. q.code \in FuncCodes /\ q.len \in Nat
  BY RouterAssumption DEF Requests, RouterAssumption
<1>2. hits = {}
  <2>1. CASE q.len = 0
    BY <2>1
  <2>2. CASE Select(q) = {None}
    <3>1. ASSUME hits # {} PROVE FALSE
      <4>1. PICK r \in hits : TRUE
        BY <3>1
      <4>2. r \in Route
        BY <1>1 DEF IInv, TypeOK
      <4>3. r.handler \in Select(q)
        BY <3>1 DEF Select
      <4> QED
        BY <2>2, <4>2, <4>3, RouterAssumption DEF Route, RouterAssumption
    <3> QED
      BY <3>1
  <2> QED
    BY <2>1, <2>2
<1>3. Select(q) = {fallback[q.code]}
  BY <1>2 DEF Select
<1> QED
  BY <1>3 DEF BucketFallback

\* An operation that frees the bucket of a code leaves nothing registered for it.
LEMMA FreedBucket ==
  ASSUME IInv, Configure, NEW c \in buckets, c \notin buckets'
  PROVE  table'[c] = None
<1>1. c \in FuncCodes /\ table \in [FuncCodes -> Handlers \cup {Dispatcher, None}]
  BY DEF IInv, TypeOK
<1>2. ASSUME NEW d \in FuncCodes, ClearDefault(d) PROVE table'[c] = None
  <2>1. PICK s : \/ d \in buckets /\ CleanupIfEmpty(d, routes[d], None, s)
                 \/ UNCHANGED buckets
    BY <1>2 DEF ClearDefault
  <2>2. \/ UNCHANGED buckets
        \/ buckets' = buckets \ {d} /\ table' = [table EXCEPT ![d] = None]
    BY <2>1, CleanupEffect
  <2> QED
    BY <1>1, <2>2
<1>3. ASSUME NEW d \in FuncCodes, NEW start \in Starts, NEW len \in Lengths,
             UnregisterRange(d, start, len)
      PROVE  table'[c] = None
  <2>1. PICK R, s : \/ d \in buckets /\ CleanupIfEmpty(d, R, fallback[d], s)
                    \/ UNCHANGED buckets
    BY <1>3 DEF UnregisterRange
  <2>2. fallback[d] \in Handlers \cup {None}
    BY DEF IInv, TypeOK
  <2>3. \/ UNCHANGED buckets
        \/ buckets' = buckets \ {d} /\ table' = [table EXCEPT ![d] = None]
    BY <2>1, <2>2, CleanupEffect
  <2> QED
    BY <1>1, <2>3
<1>4. ASSUME NEW d \in FuncCodes, NEW h \in Handlers, SetDefault(d, h) PROVE FALSE
  BY <1>4 DEF SetDefault
<1>5. ASSUME NEW d \in FuncCodes, NEW start \in Starts, NEW len \in Lengths,
             NEW h \in Handlers, RegisterRange(d, start, len, h)
      PROVE  FALSE
  BY <1>5 DEF RegisterRange, RegisterRoute
<1> QED
  BY <1>2, <1>3, <1>4, <1>5 DEF Configure

-------------------------------------------------------------------------------
(* Every step preserves the invariant.                                     *)

LEMMA InitDInv == DispatchInit => DInv
<1> SUFFICES ASSUME DispatchInit PROVE DInv
  OBVIOUS
<1>1. IInv
  BY InitIInv DEF DispatchInit
<1> QED
  BY <1>1 DEF DispatchInit, DInv, DispatchTypeOK, PendingIsOwn, AnswersKept, SelectedOwn,
              FoundKept, PhasesOK, IInv

\* The router stays as it is in every step of a request.
LEMMA RouterKept ==
  ASSUME IInv, UNCHANGED vars
  PROVE  /\ IInv' /\ TypeOK' /\ buckets' = buckets
         /\ Select(asked.req)' = Select(asked'.req)
         /\ Select(served.req)' = Select(served'.req)
<1>1. IInv'
  BY NextIInv
<1>2. /\ Select(asked.req)' = Select(asked'.req)
      /\ Select(served.req)' = Select(served'.req)
  BY DEF Select, vars
<1>3. TypeOK'
  BY <1>1 DEF IInv
<1> QED
  BY <1>1, <1>2, <1>3 DEF vars

LEMMA StutterDInv ==
  ASSUME DInv, UNCHANGED vars, UNCHANGED dispatchVars
  PROVE  DInv'
<1>1. /\ IInv' /\ TypeOK' /\ buckets' = buckets
      /\ Select(asked.req)' = Select(asked.req) /\ Select(served.req)' = Select(served.req)
  BY RouterKept DEF DInv, dispatchVars, callerVars, pollVars
<1> QED
  BY <1>1 DEF DInv, dispatchVars, callerVars, pollVars, DispatchTypeOK, PendingIsOwn,
              AnswersKept, SelectedOwn, FoundKept, PhasesOK

\* The poll task is finished with a request.
LEMMA FinishDInv ==
  ASSUME DInv, Finish
  PROVE  DInv'
<1>1. /\ IInv' /\ TypeOK' /\ Select(asked.req)' = Select(asked.req)
  BY RouterKept DEF DInv, Finish, callerVars
<1> QED
  BY <1>1 DEF DInv, Finish, callerVars, DispatchTypeOK, PendingIsOwn,
              AnswersKept, SelectedOwn, FoundKept, PhasesOK

\* A handler runs.
LEMMA RunDInv ==
  ASSUME DInv, UNCHANGED <<vars, role, callerVars>>,
         NEW h \in Handlers \cup {None}, NEW n \in Nat, n >= 1, Run(h, n),
         role = "slave" => n = 1,
         served' \in Jobs, Select(served'.req) \subseteq served'.answers,
         pending' \in {pending, None}
  PROVE  DInv'
<1>1. /\ IInv' /\ TypeOK'
      /\ Select(asked.req)' = Select(asked.req) /\ Select(served.req)' = Select(served'.req)
  BY RouterKept DEF DInv, callerVars
<1>2. /\ exec' \in {"sent", "done"} /\ left' \in Nat /\ ran' = h /\ runs' = runs + 1
      /\ exec' = "sent" => n > 1 /\ left' >= 1
  BY DEF Run
<1>3. runs \in Nat /\ runs' \in Nat /\ runs' # 0
  BY <1>2 DEF DInv, DispatchTypeOK
<1>4. DispatchTypeOK'
  BY <1>1, <1>2, <1>3 DEF DInv, DispatchTypeOK, callerVars
<1>5. PhasesOK'
  BY <1>2, <1>3 DEF DInv, PhasesOK, callerVars
<1>6. PendingIsOwn' /\ SelectedOwn'
  BY DEF DInv, PendingIsOwn, SelectedOwn, callerVars
<1>7. AnswersKept' /\ FoundKept'
  BY <1>1, <1>2 DEF DInv, AnswersKept, FoundKept, callerVars
<1> QED
  BY <1>1, <1>4, <1>5, <1>6, <1>7 DEF DInv

\* The look-up in the table finds a handler, which runs, or the dispatcher.
LEMMA InvokeDInv ==
  ASSUME DInv, UNCHANGED <<vars, role, callerVars, pending>>,
         NEW q \in Requests, NEW n \in Nat, n >= 1, Invoke(q.code, n),
         role = "slave" => n = 1 /\ runs = 0,
         served' \in Jobs, served'.req = q, Select(q) \subseteq served'.answers
  PROVE  DInv'
<1>1. q.code \in FuncCodes /\ table[q.code] \in Handlers \cup {Dispatcher, None}
  BY DEF Requests, DInv, IInv, TypeOK
<1>2. CASE table[q.code] # Dispatcher
  <2>1. Run(table[q.code], n)
    BY <1>2 DEF Invoke
  <2>2. table[q.code] \in Handlers \cup {None}
    BY <1>1, <1>2
  <2> QED
    BY <2>1, <2>2, RunDInv
<1>3. CASE table[q.code] = Dispatcher
  <2>1. exec' = "found" /\ left' = n /\ ran' = ran /\ runs' = runs
    BY <1>3 DEF Invoke
  <2>2. q.code \in buckets
    BY <1>1, <1>3 DEF DInv, IInv, NothingUnreachable
  <2>3. /\ IInv' /\ TypeOK' /\ buckets' = buckets
        /\ Select(asked.req)' = Select(asked.req) /\ Select(served.req)' = Select(q)
    BY RouterKept DEF DInv, callerVars
  <2>4. DispatchTypeOK'
    BY <2>1, <2>3 DEF DInv, DispatchTypeOK, callerVars
  <2>5. PhasesOK'
    BY <2>1 DEF DInv, PhasesOK, callerVars
  <2>6. PendingIsOwn' /\ SelectedOwn' /\ AnswersKept' /\ FoundKept'
    BY <2>1, <2>2, <2>3 DEF DInv, PendingIsOwn, SelectedOwn, AnswersKept, FoundKept, callerVars
  <2> QED
    BY <2>3, <2>4, <2>5, <2>6 DEF DInv
<1> QED
  BY <1>2, <1>3

\* A request that is followed stays the same one, and its answers grow.
LEMMA FollowJob ==
  ASSUME NEW job \in Jobs, IInv'
  PROVE  /\ Follow(job) \in Jobs
         /\ Follow(job).req = job.req /\ Follow(job).apart = job.apart
         /\ job.answers \subseteq Follow(job).answers
         /\ \A q : q = job.req => Select(q)' \subseteq Follow(job).answers
<1>1. PICK q \in Requests : q = job.req
  BY DEF Jobs
<1>2. UNION {Select(x)' : x \in {job.req}} = Select(q)'
  BY <1>1
<1>3. Select(q)' \subseteq Handlers \cup {None}
  BY AnswerTypeNext
<1>4. Follow(job) = [job EXCEPT !.answers = @ \cup Select(q)']
  BY <1>2 DEF Follow
<1> QED
  BY <1>1, <1>3, <1>4 DEF Jobs

LEMMA NextDInv == DInv /\ [DispatchNext]_allVars => DInv'
<1> SUFFICES ASSUME DInv, [DispatchNext]_allVars PROVE DInv'
  OBVIOUS
<1>1. /\ IInv /\ DispatchTypeOK /\ left \in Nat /\ runs \in Nat
      /\ pending \in [code: FuncCodes, handler: Handlers] \cup {None}
      /\ pc # "idle" => asked \in Jobs /\ asked.req \in Requests
      /\ exec # "none" => served \in Jobs /\ served.req \in Requests
  BY DEF DInv, DispatchTypeOK, Jobs
<1>2. ASSUME NEW q \in Requests, MasterSelect(q) PROVE DInv'
  <2>1. PICK h \in Handlers \cup {None} : Select(q) = {h}
    BY <1>1, OneAnswer
  <2>2. /\ asked' = [req |-> q, answers |-> {h}, apart |-> FALSE]
        /\ target' = h /\ h \in Handlers /\ pc' = "selected" /\ pc = "idle" /\ role = "master"
    BY <1>2, <2>1 DEF MasterSelect
  <2>3. asked' \in Jobs /\ asked'.req = q /\ asked'.answers = {h}
    BY <2>2 DEF Jobs
  <2>4. /\ IInv' /\ TypeOK' /\ buckets' = buckets
        /\ Select(asked.req)' = {h} /\ Select(served.req)' = Select(served.req)
    BY <1>1, <1>2, <2>1, <2>3, RouterKept DEF MasterSelect, pollVars
  <2>5. UNCHANGED <<role, pending, exec, served, left, ran, runs>>
    BY <1>2 DEF MasterSelect, pollVars
  <2> QED
    BY <2>2, <2>3, <2>4, <2>5 DEF DInv, DispatchTypeOK, PendingIsOwn, AnswersKept,
                                  SelectedOwn, FoundKept, PhasesOK
<1>3. CASE MasterSetPending
  <2>1. /\ pc = "selected" /\ pc' = "asking" /\ role = "master"
        /\ asked' = [asked EXCEPT !.apart = exec = "none"]
        /\ pending' = [code |-> asked.req.code, handler |-> target]
        /\ UNCHANGED <<vars, role, target, exec, served, left, ran, runs>>
    BY <1>3 DEF MasterSetPending, pollVars
  <2>2. target \in Handlers /\ target \in asked.answers /\ asked \in Jobs
    BY <1>1, <2>1 DEF DInv, SelectedOwn
  <2>3. /\ asked' \in Jobs /\ asked'.req = asked.req /\ asked'.answers = asked.answers
        /\ asked.req.code \in FuncCodes
    BY <2>1, <2>2 DEF Jobs, Requests
  <2>4. /\ IInv' /\ TypeOK' /\ buckets' = buckets
        /\ Select(asked.req)' = Select(asked.req) /\ Select(served.req)' = Select(served.req)
    BY <1>1, <2>1, <2>3, RouterKept
  <2> QED
    BY <2>1, <2>2, <2>3, <2>4 DEF DInv, DispatchTypeOK, PendingIsOwn, AnswersKept,
                                  SelectedOwn, FoundKept, PhasesOK
<1>4. CASE MasterSend
  <2>1. /\ pc = "asking" /\ pc' = "waiting" /\ role = "master" /\ exec = "none" /\ exec' = "sent"
        /\ served' = asked /\ left' \in Nat /\ left' >= 1
        /\ UNCHANGED <<vars, role, pending, asked, target, ran, runs>>
    BY <1>4, DispatchAssumption DEF MasterSend, DispatchAssumption
  <2>2. /\ IInv' /\ TypeOK' /\ buckets' = buckets
        /\ Select(asked.req)' = Select(asked.req) /\ Select(served.req)' = Select(asked.req)
    BY <1>1, <2>1, RouterKept
  <2> QED
    BY <2>1, <2>2 DEF DInv, DispatchTypeOK, PendingIsOwn, AnswersKept,
                      SelectedOwn, FoundKept, PhasesOK
<1>5. CASE MasterClearPending
  <2>1. /\ pc' = "idle" /\ asked' = None /\ target' = None /\ pending' = None
        /\ UNCHANGED <<vars, role, exec, left, ran, runs>> /\ role = "master"
        /\ served' = served \/ (exec # "none" /\ served' = [served EXCEPT !.apart = FALSE])
    BY <1>5 DEF MasterClearPending, CallerReturns
  <2>2. exec # "none" => /\ served' \in Jobs
                         /\ served'.req = served.req /\ served'.answers = served.answers
    BY <1>1, <2>1 DEF Jobs
  <2>3. /\ IInv' /\ TypeOK' /\ buckets' = buckets
        /\ exec # "none" => Select(served.req)' = Select(served.req)
    BY <1>1, <2>1, <2>2, RouterKept
  <2> QED
    BY <2>1, <2>2, <2>3 DEF DInv, DispatchTypeOK, PendingIsOwn, AnswersKept,
                            SelectedOwn, FoundKept, PhasesOK
<1>6. CASE MasterLookup
  <2>1. /\ Select(served.req) \subseteq served.answers /\ left >= 1 /\ role # "slave"
        /\ served' = served
    BY <1>6 DEF MasterLookup, DInv, AnswersKept, PhasesOK
  <2> QED
    BY <1>1, <1>6, <2>1, InvokeDInv DEF MasterLookup
<1>7. ASSUME NEW q \in Requests, SlaveLookup(q) PROVE DInv'
  <2>1. Select(q) \subseteq Handlers \cup {None} /\ runs = 0
    BY <1>1, <1>7, AnswerType DEF SlaveLookup, DInv, PhasesOK
  <2>2. served' \in Jobs /\ served'.req = q /\ served'.answers = Select(q)
    BY <1>7, <2>1 DEF SlaveLookup, Jobs
  <2>3. UNCHANGED <<vars, role, callerVars, pending>> /\ Invoke(q.code, 1)
    BY <1>7 DEF SlaveLookup
  <2>4. 1 \in Nat /\ 1 >= 1
    OBVIOUS
  <2> QED
    BY <1>7, <2>1, <2>2, <2>3, <2>4, InvokeDInv
<1>8. CASE MasterResolve
  <2>1. BucketFallback(served.req.code) \in Handlers \cup {None}
    BY <1>1, <1>8 DEF MasterResolve, BucketFallback, IInv, TypeOK, Jobs, Requests
  <2>2. /\ left >= 1 /\ Select(served.req) \subseteq served.answers /\ role # "slave"
        /\ served' = served /\ served \in Jobs
    BY <1>1, <1>8 DEF MasterResolve, DInv, PhasesOK, AnswersKept
  <2>3. PICK h \in Handlers \cup {None} : Run(h, left) /\ pending' \in {pending, None}
    BY <1>1, <1>8, <2>1 DEF MasterResolve
  <2> QED
    BY <1>1, <1>8, <2>2, <2>3, RunDInv DEF MasterResolve
<1>9. CASE SlaveResolve
  <2>1. PICK h \in Handlers \cup {None} : Run(h, left)
    BY <1>1, <1>9, OneAnswer DEF SlaveResolve, BucketFallback, IInv, TypeOK, Jobs, Requests
  <2>2. /\ left = 1 /\ Select(served.req) \subseteq served.answers
        /\ served' = served /\ served \in Jobs
    BY <1>1, <1>9 DEF SlaveResolve, DInv, PhasesOK, AnswersKept
  <2> QED
    BY <1>1, <1>9, <2>1, <2>2, RunDInv DEF SlaveResolve
<1>10. CASE MasterFails \/ Executed
  BY <1>10, FinishDInv DEF MasterFails, Executed
<1>11. CASE Reconfigure
  <2>1. IInv' /\ TypeOK'
    BY <1>1, <1>11, NextIInv DEF Reconfigure, Next, IInv
  <2>2. UNCHANGED <<role, pc, target, pending, exec, left, ran, runs>>
    BY <1>11 DEF Reconfigure
  <2>3. ASSUME pc # "idle"
        PROVE  /\ asked' \in Jobs /\ asked'.req = asked.req
               /\ asked.answers \subseteq asked'.answers
               /\ Select(asked.req)' \subseteq asked'.answers
    <3>1. asked' = Follow(asked)
      BY <1>11, <2>3 DEF Reconfigure
    <3>2. PICK q \in Requests : q = asked.req
      BY <1>1, <2>3
    <3>3. PICK j \in Jobs : j = asked
      BY <1>1, <2>3
    <3>4. /\ asked' \in Jobs /\ asked'.req = q /\ asked.answers \subseteq asked'.answers
          /\ Select(q)' \subseteq asked'.answers
      BY <2>1, <3>1, <3>2, <3>3, FollowJob
    <3>5. Select(asked.req)' = Select(q)'
      BY <3>4 DEF Select
    <3> QED
      BY <3>2, <3>4, <3>5
  <2>4. ASSUME exec # "none"
        PROVE  /\ served' \in Jobs /\ served'.req = served.req
               /\ served.answers \subseteq served'.answers
               /\ Select(served.req)' \subseteq served'.answers
    <3>1. served' = Follow(served)
      BY <1>11, <2>4 DEF Reconfigure
    <3>2. PICK q \in Requests : q = served.req
      BY <1>1, <2>4
    <3>3. PICK j \in Jobs : j = served
      BY <1>1, <2>4
    <3>4. /\ served' \in Jobs /\ served'.req = q /\ served.answers \subseteq served'.answers
          /\ Select(q)' \subseteq served'.answers
      BY <2>1, <3>1, <3>2, <3>3, FollowJob
    <3>5. Select(served.req)' = Select(q)'
      BY <3>4 DEF Select
    <3> QED
      BY <3>2, <3>4, <3>5
  <2>5. DispatchTypeOK'
    BY <1>1, <2>1, <2>2, <2>3, <2>4 DEF DispatchTypeOK
  <2>6. FoundKept'
    <3>1. CASE exec = "found" /\ served.req.code \in buckets /\ served.req.code \notin buckets'
      <4>1. table'[served.req.code] = None
        BY <1>1, <1>11, <3>1, FreedBucket DEF Reconfigure
      <4>2. None \in Select(served.req)'
        BY <2>4, <3>1, <4>1 DEF Select
      <4> QED
        BY <2>4, <3>1, <4>2 DEF FoundKept
    <3> QED
      BY <2>2, <2>4, <3>1 DEF DInv, FoundKept
  <2>7. AnswersKept' /\ SelectedOwn' /\ PendingIsOwn' /\ PhasesOK'
    BY <2>2, <2>3, <2>4 DEF DInv, AnswersKept, SelectedOwn, PendingIsOwn, PhasesOK
  <2> QED
    BY <2>1, <2>5, <2>6, <2>7 DEF DInv
<1>12. CASE UNCHANGED allVars
  BY <1>12, StutterDInv DEF allVars
<1> QED
  BY <1>2, <1>3, <1>4, <1>5, <1>6, <1>7, <1>8, <1>9, <1>10, <1>11, <1>12 DEF DispatchNext

-------------------------------------------------------------------------------
(* The theorems.                                                           *)

LEMMA DispatchInvariance == DispatchSpec => []DInv
BY InitDInv, NextDInv, PTL DEF DispatchSpec, allVars

\* The variables keep their types in every interleaving of requests with the
\* operations of the API, for any function codes, handlers, ranges and slaves.
THEOREM DispatchTypeCorrect == DispatchSpec => []DispatchTypeOK
<1>1. DInv => DispatchTypeOK
  BY DEF DInv
<1> QED
  BY <1>1, DispatchInvariance, PTL

\* A pending target belongs to the caller's request in progress, for broadcasts and
\* requests that are given up, too.
THEOREM PendingAlwaysOwn == DispatchSpec => []PendingIsOwn
<1>1. DInv => PendingIsOwn
  BY DEF DInv
<1> QED
  BY <1>1, DispatchInvariance, PTL

\* Nobody takes the target away from a request that has it to itself.
LEMMA NextPending ==
  ASSUME DInv, PendingThere, [DispatchNext]_allVars
  PROVE  PendingThere'
<1>1. /\ None \notin Handlers /\ runs \in Nat /\ IInv
      /\ pc # "idle" => asked \in Jobs
      /\ exec # "none" => served \in Jobs
  BY RouterAssumption DEF RouterAssumption, DInv, DispatchTypeOK
<1>2. ASSUME NEW q \in Requests, MasterSelect(q) PROVE PendingThere'
  BY <1>2 DEF MasterSelect, PendingThere, pollVars
<1>3. CASE MasterSetPending
  <2>1. asked'.apart = (exec = "none")
    BY <1>1, <1>3 DEF MasterSetPending, Jobs
  <2>2. pending' # None
    <3>1. target \in Handlers /\ asked.req.code \in FuncCodes
      BY <1>1, <1>3 DEF MasterSetPending, DInv, SelectedOwn, Jobs, Requests
    <3>2. pending' \in [code: FuncCodes, handler: Handlers]
      BY <1>3, <3>1 DEF MasterSetPending
    <3> QED
      BY <3>2, DispatchAssumption DEF DispatchAssumption
  <2> QED
    BY <1>3, <2>1, <2>2 DEF MasterSetPending, PendingThere, pollVars
<1>4. CASE MasterSend
  BY <1>1, <1>4 DEF MasterSend, PendingThere, DInv, PendingIsOwn
<1>5. CASE MasterClearPending
  BY <1>1, <1>5 DEF MasterClearPending, CallerReturns, PendingThere, Jobs
<1>6. CASE MasterLookup
  BY <1>1, <1>6 DEF MasterLookup, Invoke, Run, PendingThere, callerVars
<1>7. ASSUME NEW q \in Requests, SlaveLookup(q) PROVE PendingThere'
  BY <1>7 DEF SlaveLookup, PendingThere, DInv, PhasesOK, callerVars
<1>8. CASE MasterResolve
  BY <1>1, <1>8 DEF MasterResolve, Run, PendingThere, callerVars
<1>9. CASE SlaveResolve
  BY <1>9 DEF SlaveResolve, PendingThere, DInv, PhasesOK, callerVars
<1>10. CASE MasterFails \/ Executed
  BY <1>10 DEF MasterFails, Executed, Finish, PendingThere, callerVars
<1>11. CASE Reconfigure
  <2>1. IInv'
    BY <1>1, <1>11, NextIInv DEF Reconfigure, Next
  <2>2. pc # "idle" => asked'.apart = asked.apart
    BY <1>1, <1>11, <2>1, FollowJob DEF Reconfigure
  <2>3. exec # "none" => /\ served'.apart = served.apart /\ served'.req = served.req
                         /\ served.answers \subseteq served'.answers
    BY <1>1, <1>11, <2>1, FollowJob DEF Reconfigure
  <2> QED
    BY <1>11, <2>2, <2>3 DEF Reconfigure, PendingThere
<1>12. CASE UNCHANGED allVars
  BY <1>12 DEF PendingThere, allVars, dispatchVars, callerVars, pollVars
<1> QED
  BY <1>2, <1>3, <1>4, <1>5, <1>6, <1>7, <1>8, <1>9, <1>10, <1>11, <1>12 DEF DispatchNext

\* What runs is among the answers, and stays so.
LEMMA NextRan ==
  ASSUME DInv, PendingThere, RanWasSelected, [DispatchNext]_allVars
  PROVE  RanWasSelected'
<1>1. /\ IInv /\ runs \in Nat
      /\ exec = "none" => ran = Dispatcher
      /\ exec # "none" => /\ served \in Jobs /\ served.req \in Requests
                          /\ Select(served.req) \subseteq served.answers
  BY DEF DInv, DispatchTypeOK, Jobs, AnswersKept, PhasesOK
<1>2. ASSUME NEW q \in Requests, MasterSelect(q) PROVE RanWasSelected'
  BY <1>2 DEF MasterSelect, RanWasSelected, pollVars
<1>3. CASE MasterSetPending
  BY <1>3 DEF MasterSetPending, RanWasSelected, pollVars
<1>4. CASE MasterSend
  BY <1>1, <1>4 DEF MasterSend, RanWasSelected
<1>5. CASE MasterClearPending
  BY <1>1, <1>5 DEF MasterClearPending, CallerReturns, RanWasSelected, Jobs
<1>6. CASE MasterLookup
  <2>1. table[served.req.code] # Dispatcher => table[served.req.code] \in served.answers
    BY <1>1, <1>6, TableAnswers DEF MasterLookup
  <2> QED
    BY <1>6, <2>1 DEF MasterLookup, Invoke, Run, RanWasSelected
<1>7. ASSUME NEW q \in Requests, SlaveLookup(q) PROVE RanWasSelected'
  <2>1. table[q.code] # Dispatcher => table[q.code] \in Select(q)
    BY <1>1, TableAnswers
  <2>2. ran = Dispatcher /\ served'.answers = Select(q)
    BY <1>1, <1>7 DEF SlaveLookup
  <2> QED
    BY <1>7, <2>1, <2>2 DEF SlaveLookup, Invoke, Run, RanWasSelected
<1>8. CASE MasterResolve
  <2>1. served.apart /\ runs = 0 => /\ pending # None /\ pending.code = served.req.code
                                    /\ pending.handler \in served.answers
    BY <1>8 DEF MasterResolve, PendingThere
  <2>2. runs' = runs + 1 /\ served' = served
    BY <1>8 DEF MasterResolve, Run
  <2>3. served.apart /\ runs = 0 => ran' = pending.handler
    BY <1>8, <2>1 DEF MasterResolve, Run
  <2> QED
    BY <1>1, <2>1, <2>2, <2>3 DEF RanWasSelected
<1>9. CASE SlaveResolve
  <2>1. /\ exec = "found" /\ served' = served
        /\ served.req.code \in buckets \/ None \in served.answers
    BY <1>9 DEF SlaveResolve, DInv, FoundKept
  <2>2. ASSUME ~(served.req.len > 0 /\ Select(served.req) # {None})
        PROVE  BucketFallback(served.req.code) \in served.answers
    <3>1. served.req.len \in Nat
      BY <1>1, <2>1, RouterAssumption DEF Requests, RouterAssumption
    <3>2. served.req.len = 0 \/ Select(served.req) = {None}
      BY <2>2, <3>1
    <3>3. CASE served.req.code \in buckets
      BY <1>1, <2>1, <3>2, <3>3, FallbackAnswers
    <3>4. CASE served.req.code \notin buckets
      BY <2>1, <3>4 DEF BucketFallback
    <3> QED
      BY <3>3, <3>4
  <2> QED
    BY <1>1, <1>9, <2>1, <2>2 DEF SlaveResolve, Run, RanWasSelected
<1>10. CASE MasterFails \/ Executed
  BY <1>10 DEF MasterFails, Executed, Finish, RanWasSelected
<1>11. CASE Reconfigure
  <2>1. IInv'
    BY <1>1, <1>11, NextIInv DEF Reconfigure, Next
  <2>2. exec # "none" => /\ served'.apart = served.apart
                         /\ served.answers \subseteq served'.answers
    BY <1>1, <1>11, <2>1, FollowJob DEF Reconfigure
  <2> QED
    BY <1>1, <1>11, <2>2 DEF Reconfigure, RanWasSelected
<1>12. CASE UNCHANGED allVars
  BY <1>12 DEF allVars, dispatchVars, pollVars, RanWasSelected
<1> QED
  BY <1>2, <1>3, <1>4, <1>5, <1>6, <1>7, <1>8, <1>9, <1>10, <1>11, <1>12 DEF DispatchNext

\* Whatever the API does between the steps of a request, and whatever became of the
\* requests before it, the handler that runs first for a request that had the pending
\* target to itself is one the router answered with meanwhile; on a slave every
\* request is such a one.
THEOREM RanAlwaysSelected == DispatchSpec => []RanWasSelected
<1>1. DispatchInit => PendingThere /\ RanWasSelected
  BY DEF DispatchInit, PendingThere, RanWasSelected
<1>2. DInv /\ PendingThere /\ [DispatchNext]_allVars => PendingThere'
  BY NextPending
<1>3. DInv /\ PendingThere /\ RanWasSelected /\ [DispatchNext]_allVars => RanWasSelected'
  BY NextRan
<1> QED
  BY <1>1, <1>2, <1>3, DispatchInvariance, PTL DEF DispatchSpec, allVars
===============================================================================
