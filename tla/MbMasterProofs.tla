---------------------------- MODULE MbMasterProofs ----------------------------
(***************************************************************************)
(* Theorems about MbMaster for any number of requests, frames and stops:   *)
(* its types, that an error which is set will be processed, and that a     *)
(* resource which is taken has somebody who is going to give it back; and  *)
(* for the nominal case, that a request writes into no other's buffer and  *)
(* that the caller sees RequestReply.                                      *)
(***************************************************************************)
EXTENDS MbMaster, SequenceTheorems, TLAPS

EventSet == [ev: Events, frame: 0..MaxReq]

-------------------------------------------------------------------------------
(* The event queue.                                                        *)

\* Posting adds one event and loses none.
LEMMA PostHas ==
  ASSUME NEW q \in Seq(EventSet), NEW x \in EventSet, NEW e
  PROVE  /\ PostTo(q, x) \in Seq(EventSet)
         /\ Has(PostTo(q, x), e) <=> Has(q, e) \/ x.ev = e
<1>1. /\ Append(q, x) \in Seq(EventSet)
      /\ DOMAIN q = 1..Len(q) /\ DOMAIN Append(q, x) = 1..(Len(q) + 1)
      /\ Len(q) \in Nat
      /\ \A i \in 1..Len(q) : Append(q, x)[i] = q[i]
      /\ Append(q, x)[Len(q) + 1] = x
  OBVIOUS
<1>2. ASSUME Has(q, e) PROVE Has(Append(q, x), e)
  <2>1. PICK i \in 1..Len(q) : q[i].ev = e  BY <1>1, <1>2 DEF Has
  <2>2. i \in DOMAIN Append(q, x) /\ Append(q, x)[i].ev = e  BY <1>1, <2>1
  <2>. QED  BY <2>2 DEF Has
<1>3. ASSUME x.ev = e PROVE Has(Append(q, x), e)
  <2>1. Len(q) + 1 \in DOMAIN Append(q, x)  BY <1>1
  <2>. QED  BY <1>1, <1>3, <2>1 DEF Has
<1>4. ASSUME Has(Append(q, x), e), x.ev # e PROVE Has(q, e)
  <2>1. PICK i \in 1..(Len(q) + 1) : Append(q, x)[i].ev = e  BY <1>1, <1>4 DEF Has
  <2>2. i \in 1..Len(q)  BY <1>1, <1>4, <2>1
  <2>. QED  BY <1>1, <2>1, <2>2 DEF Has
<1>. QED  BY <1>1, <1>2, <1>3, <1>4 DEF PostTo

\* Taking the first event leaves all others in the queue.
LEMMA TailHas ==
  ASSUME NEW q \in Seq(EventSet), q # <<>>, NEW e
  PROVE  /\ Head(q) \in EventSet
         /\ Tail(q) \in Seq(EventSet)
         /\ Has(q, e) <=> Has(Tail(q), e) \/ Head(q).ev = e
<1>1. /\ Tail(q) \in Seq(EventSet) /\ Head(q) \in EventSet
      /\ Len(q) \in Nat \ {0}
      /\ DOMAIN q = 1..Len(q) /\ DOMAIN Tail(q) = 1..(Len(q) - 1)
      /\ Head(q) = q[1]
      /\ \A i \in 1..(Len(q) - 1) : Tail(q)[i] = q[i + 1]
  OBVIOUS
<1>2. ASSUME Has(q, e), Head(q).ev # e PROVE Has(Tail(q), e)
  <2>1. PICK i \in 1..Len(q) : q[i].ev = e  BY <1>1, <1>2 DEF Has
  <2>2. i # 1  BY <1>1, <1>2, <2>1
  <2>3. i - 1 \in 1..(Len(q) - 1)  BY <1>1, <2>1, <2>2
  <2>4. Tail(q)[i - 1] = q[i]  BY <1>1, <2>3
  <2>. QED  BY <1>1, <2>1, <2>3, <2>4 DEF Has
<1>3. ASSUME Has(Tail(q), e) PROVE Has(q, e)
  <2>1. PICK i \in 1..(Len(q) - 1) : Tail(q)[i].ev = e  BY <1>1, <1>3 DEF Has
  <2>2. i + 1 \in 1..Len(q) /\ q[i + 1].ev = e  BY <1>1, <2>1
  <2>. QED  BY <1>1, <2>2 DEF Has
<1>4. ASSUME Head(q).ev = e PROVE Has(q, e)
  <2>1. 1 \in DOMAIN q /\ q[1].ev = e  BY <1>1, <1>4
  <2>. QED  BY <2>1 DEF Has
<1>. QED  BY <1>1, <1>2, <1>3, <1>4

\* Flushing the receive buffer loses no event.
LEMMA FlushedHas ==
  ASSUME NEW q \in Seq(EventSet), NEW e
  PROVE  /\ Flushed(q) \in Seq(EventSet)
         /\ Has(Flushed(q), e) <=> Has(q, e)
<1>1. /\ Len(q) \in Nat /\ DOMAIN q = 1..Len(q)
      /\ \A i \in 1..Len(q) : q[i] \in EventSet
  OBVIOUS
<1>2. \A i \in 1..Len(q) : /\ Flushed(q)[i] \in EventSet
                           /\ Flushed(q)[i].ev = q[i].ev
  <2> SUFFICES ASSUME NEW i \in 1..Len(q)
               PROVE  Flushed(q)[i] \in EventSet /\ Flushed(q)[i].ev = q[i].ev
    OBVIOUS
  <2>1. MaxReq \in Nat  BY MasterAssumption DEF MasterAssumption
  <2>2. Flushed(q)[i] = [q[i] EXCEPT !.frame = 0]  BY <1>1 DEF Flushed, Bad
  <2>3. q[i] \in [ev: Events, frame: 0..MaxReq]  BY <1>1 DEF EventSet
  <2>. QED  BY <2>1, <2>2, <2>3 DEF EventSet
<1>3. DOMAIN Flushed(q) = 1..Len(q)  BY <1>1 DEF Flushed
<1>4. Flushed(q) \in [1..Len(q) -> EventSet]  BY <1>1, <1>2, <1>3 DEF Flushed
<1>5. Flushed(q) \in Seq(EventSet)  BY <1>1, <1>4
<1>. QED  BY <1>1, <1>2, <1>3, <1>5 DEF Has

LEMMA EventInSet ==
  ASSUME NEW e \in Events
  PROVE  Event(e) \in EventSet /\ Event(e).ev = e
<1>1. MaxReq \in Nat  BY MasterAssumption DEF MasterAssumption
<1>. QED  BY <1>1 DEF Event, EventSet, Bad

-------------------------------------------------------------------------------
(* Types.                                                                  *)

LEMMA InitType == Init => TypeOK
<1> SUFFICES ASSUME Init PROVE TypeOK  OBVIOUS
<1>1. MaxReq \in Nat /\ MaxStops \in Nat /\ MaxFaults \in Nat
  BY MasterAssumption DEF MasterAssumption
<1>2. Event("READY") \in EventSet  BY EventInSet DEF Events
<1>3. queue \in Seq(EventSet)  BY <1>2 DEF Init
<1>4. wire \in [sent: SUBSET (0..MaxReq), answered: SUBSET (0..MaxReq),
                bad: 0..MaxFaults, stops: 0..MaxStops]
  BY <1>1 DEF Init
<1>5. mode \in Modes /\ cbMode \in Modes  BY DEF Init, Modes
<1>6. errType \in ErrTypes \cup {"INIT"} /\ flags \subseteq ErrTypes  BY DEF Init
<1>7. rcvFrame \in 0..MaxReq  BY <1>1 DEF Init, Bad
<1>8. /\ enabled \in BOOLEAN /\ resFree \in BOOLEAN /\ frameBcast \in BOOLEAN
      /\ armed \in BOOLEAN /\ bcast \in BOOLEAN
  BY DEF Init
<1>9. /\ evTrans = 0 /\ curTrans = 0 /\ n = 0
      /\ cb = "idle" /\ pollPc = "get" /\ reqPc = "idle" /\ outcome = "none" /\ done = {}
  BY DEF Init
<1>. QED  BY <1>1, <1>3, <1>4, <1>5, <1>6, <1>7, <1>8, <1>9 DEF TypeOK, EventSet

\* The poll task keeps the types.
LEMMA PollType ==
  ASSUME TypeOK, Poll
  PROVE  TypeOK'
<1>1. MaxReq \in Nat /\ MaxStops \in Nat /\ MaxFaults \in Nat
  BY MasterAssumption DEF MasterAssumption
<1>2. queue \in Seq(EventSet)  BY DEF TypeOK, EventSet
<1>3. ASSUME queue # <<>>
      PROVE  Head(queue) \in EventSet /\ Tail(queue) \in Seq(EventSet)
  BY <1>2, <1>3, TailHas
<1>4. \A e \in Events : PostTo(queue, Event(e)) \in Seq(EventSet)
  BY <1>2, EventInSet, PostHas
<1>5. ASSUME queue # <<>>
      PROVE  \A e \in Events : PostTo(Tail(queue), Event(e)) \in Seq(EventSet)
  BY <1>3, <1>5, EventInSet, PostHas
<1>6. Loop \in {"get", "idle"}  BY DEF Loop
<1> USE DEF TypeOK, PollFrame, core, timer, caller
<1>7. CASE PollEnter  BY <1>1, <1>7 DEF PollEnter
<1>8. CASE PollIdle  BY <1>1, <1>8 DEF PollIdle
<1>9. CASE PollReady  BY <1>1, <1>3, <1>6, <1>9 DEF PollReady, Get, EventSet
<1>10. CASE PollTransmitSent
  <2>1. Flushed(Tail(queue)) \in Seq(EventSet)
    BY <1>3, <1>10, FlushedHas DEF PollTransmitSent, Get
  <2>2. queue' \in Seq(EventSet)
    <3>1. CASE enabled
      BY <2>1, <3>1, <1>10, EventInSet, PostHas DEF PollTransmitSent, SendData, Events
    <3>2. CASE ~enabled
      BY <1>5, <3>2, <1>10 DEF PollTransmitSent, SendData, Get, Events
    <3>. QED  BY <3>1, <3>2
  <2>3. wire' \in [sent: SUBSET (0..MaxReq), answered: SUBSET (0..MaxReq),
                   bad: 0..MaxFaults, stops: 0..MaxStops]
    BY <1>1, <1>10 DEF PollTransmitSent, SendFrame
  <2>4. mode' \in Modes  BY <1>10 DEF PollTransmitSent, SendFrame, StartTimer, Modes
  <2>5. frameBcast' \in BOOLEAN /\ armed' \in BOOLEAN /\ curTrans' \in 0..MaxReq
    BY <1>10 DEF PollTransmitSent, SendFrame, StartTimer
  <2>6. /\ pollPc' \in {"get", "idle"}
        /\ UNCHANGED <<enabled, errType, flags, resFree, evTrans, rcvFrame, cb, cbMode, caller, done>>
    BY <1>6, <1>10 DEF PollTransmitSent
  <2>. QED  BY <2>2, <2>3, <2>4, <2>5, <2>6 DEF EventSet
<1>11. CASE PollTransmitFailed
  BY <1>1, <1>5, <1>6, <1>11, SMTT(30) DEF PollTransmitFailed, Get, EventSet, Events, ErrTypes
<1>12. CASE PollSent  BY <1>1, <1>3, <1>6, <1>12 DEF PollSent, Get, EventSet
<1>13. CASE PollReceived
  <2>1. rcvFrame' \in 0..MaxReq
    BY <1>1, <1>3, <1>13 DEF PollReceived, RecvData, Buffer, Get, EventSet, Bad
  <2>2. queue' \in Seq(EventSet)
    BY <1>3, <1>5, <1>13 DEF PollReceived, Get, Events
  <2>3. errType' \in ErrTypes \cup {"INIT"} /\ armed' \in BOOLEAN
    BY <1>13 DEF PollReceived, ErrTypes
  <2>. QED  BY <1>1, <1>6, <1>13, <2>1, <2>2, <2>3 DEF PollReceived, EventSet
<1>14. CASE PollExecuteExpired
  BY <1>1, <1>5, <1>6, <1>14, SMTT(30) DEF PollExecuteExpired, Get, EventSet, Events, ErrTypes
<1>15. CASE PollExecuteException
  BY <1>1, <1>5, <1>6, <1>15, SMTT(30)
  DEF PollExecuteException, Executed, Get, EventSet, Events, ErrTypes
<1>16. CASE PollExecuteOk
  <2>1. Executed \in 0..MaxReq  BY <1>16 DEF Executed
  <2>2. pollPc' \in {"get", "idle", "ok"}  BY <1>6, <1>16 DEF PollExecuteOk
  <2>3. queue' \in Seq(EventSet)  BY <1>3, <1>16 DEF PollExecuteOk, Get
  <2>4. /\ rcvFrame' = Executed /\ done' = done \cup {Executed}
        /\ UNCHANGED <<errType, flags, resFree, curTrans, frameBcast, armed, wire, PollFrame>>
    BY <1>16 DEF PollExecuteOk
  <2>5. rcvFrame' \in 0..MaxReq /\ done' \subseteq 0..MaxReq  BY <2>1, <2>4
  <2>6. UNCHANGED <<enabled, evTrans, mode, cb, cbMode, reqPc, n, bcast, outcome>>
    BY <2>4
  <2>7. UNCHANGED <<errType, flags, resFree, curTrans, frameBcast, armed, wire>>
    BY <2>4
  <2>. QED  BY <2>2, <2>3, <2>5, <2>6, <2>7 DEF EventSet
<1>17. CASE PollExecuteDone
  BY <1>1, <1>4, <1>6, <1>17 DEF PollExecuteDone, EventSet, Events, ErrTypes
<1>18. CASE PollError
  <2>1. flags' \subseteq ErrTypes  BY <1>18 DEF PollError
  <2>2. queue' \in Seq(EventSet) /\ armed' \in BOOLEAN /\ pollPc' = "err"
    BY <1>3, <1>18 DEF PollError, Get
  <2>3. UNCHANGED <<errType, resFree, curTrans, frameBcast, rcvFrame, done, wire, PollFrame>>
    BY <1>18 DEF PollError
  <2>. QED  BY <2>1, <2>2, <2>3 DEF EventSet
<1>19. CASE PollErrorEnd  BY <1>1, <1>6, <1>19 DEF PollErrorEnd
<1> HIDE DEF TypeOK, PollFrame, core, timer, caller
<1>. QED
  BY <1>7, <1>8, <1>9, <1>10, <1>11, <1>12, <1>13, <1>14, <1>15, <1>16, <1>17, <1>18, <1>19
  DEF Poll, PollEvent

\* The timer, the UART task, the caller and the controller keep the types.
LEMMA OthersType ==
  ASSUME TypeOK,
         \/ TimerAlarm \/ TimerCallback
         \/ (\E k \in 1..MaxReq : UartAnswer(k)) \/ UartBad
         \/ Call \/ Start \/ Stop
  PROVE  TypeOK'
<1>1. MaxReq \in Nat /\ MaxStops \in Nat /\ MaxFaults \in Nat
  BY MasterAssumption DEF MasterAssumption
<1>2. queue \in Seq(EventSet)  BY DEF TypeOK, EventSet
<1>4. \A e \in Events : PostTo(queue, Event(e)) \in Seq(EventSet)
  BY <1>2, EventInSet, PostHas
<1>5. \A f \in 0..MaxReq : PostTo(queue, [ev |-> "RECEIVED", frame |-> f]) \in Seq(EventSet)
  <2> SUFFICES ASSUME NEW f \in 0..MaxReq
               PROVE  PostTo(queue, [ev |-> "RECEIVED", frame |-> f]) \in Seq(EventSet)
    OBVIOUS
  <2>1. [ev |-> "RECEIVED", frame |-> f] \in EventSet  BY DEF EventSet, Events
  <2>. QED  BY <1>2, <2>1, PostHas
<1> USE DEF TypeOK, core, timer, caller
<1>6. CASE TimerAlarm  BY <1>6, ZenonT(30) DEF TimerAlarm, TimerFrame
<1>7. CASE TimerRead  BY <1>7 DEF TimerRead, TimerFrame
<1>8. CASE TimerStop
  <2>1. cb' \in {"idle", "stopped", "post"}  BY <1>8 DEF TimerStop, Modes
  <2>2. armed' \in BOOLEAN /\ UNCHANGED <<queue, errType, cbMode, TimerFrame>>
    BY <1>8 DEF TimerStop
  <2>. QED  BY <2>1, <2>2 DEF TimerFrame
<1>9. CASE TimerSetErr  BY <1>9 DEF TimerSetErr, TimerFrame, ErrTypes
<1>10. CASE TimerPost
  BY <1>4, <1>10, SMTT(30) DEF TimerPost, TimerFrame, Events, EventSet
<1>11. ASSUME NEW k \in 1..MaxReq, UartAnswer(k) PROVE TypeOK'
  <2>1. wire' \in [sent: SUBSET (0..MaxReq), answered: SUBSET (0..MaxReq),
                   bad: 0..MaxFaults, stops: 0..MaxStops]
    BY <1>1, <1>11 DEF UartAnswer
  <2>2. queue' \in Seq(EventSet)  BY <1>1, <1>5, <1>11 DEF UartAnswer
  <2>3. UNCHANGED UartFrame  BY <1>11 DEF UartAnswer
  <2>. QED  BY <2>1, <2>2, <2>3 DEF UartFrame, EventSet
<1>12. CASE UartBad
  <2>1. wire' \in [sent: SUBSET (0..MaxReq), answered: SUBSET (0..MaxReq),
                   bad: 0..MaxFaults, stops: 0..MaxStops]
    <3>1. wire.bad \in 0..MaxFaults /\ wire.stops \in 0..MaxStops
      OBVIOUS
    <3>2. wire.bad + 1 \in 0..MaxFaults  BY <1>1, <1>12, <3>1 DEF UartBad
    <3>3. PICK a \in SUBSET (0..MaxReq) :
            wire' = [wire EXCEPT !.bad = @ + 1, !.answered = a]
      <4>1. CASE Race
        BY <1>12, <4>1 DEF UartBad
      <4>2. CASE ~Race
        BY <1>12, <4>2 DEF UartBad
      <4>. QED  BY <4>1, <4>2
    <3>. QED  BY <3>2, <3>3
  <2>2. queue' \in Seq(EventSet)  BY <1>1, <1>5, <1>12 DEF UartBad, Bad
  <2>3. UNCHANGED UartFrame  BY <1>12 DEF UartBad
  <2>. QED  BY <2>1, <2>2, <2>3 DEF UartFrame, EventSet
<1>13. CASE CallTake
  <2>1. n' \in 0..MaxReq /\ evTrans' \in 0..MaxReq  BY <1>1, <1>13 DEF CallTake
  <2>2. resFree' \in BOOLEAN /\ bcast' \in BOOLEAN  BY <1>13 DEF CallTake
  <2>3. reqPc' = "post" /\ outcome' = "none" /\ UNCHANGED <<queue, flags, CallerFrame>>
    BY <1>13 DEF CallTake
  <2>. QED  BY <2>1, <2>2, <2>3 DEF CallerFrame
<1>14. CASE CallBusy  BY <1>14 DEF CallBusy, CallerFrame
<1>15. CASE CallPost  BY <1>4, <1>15 DEF CallPost, CallerFrame, Events, EventSet
<1>16. CASE CallReturn
  <2>1. Result(flags) \in {"ENOERR", "ETIMEDOUT", "ERECVDATA", "EILLFUNC"}
    <3>1. flags \subseteq ErrTypes /\ flags # {}  BY <1>16 DEF CallReturn
    <3>. QED  BY <3>1 DEF Result, ErrTypes
  <2>. QED  BY <1>16, <2>1 DEF CallReturn, CallerFrame
<1>17. CASE CallGiveUp  BY <1>17 DEF CallGiveUp, CallerFrame
<1>18. CASE Start
  BY <1>4, <1>18 DEF Start, StartTimer, Events, Modes, EventSet
<1>19. CASE Stop
  <2>1. wire' \in [sent: SUBSET (0..MaxReq), answered: SUBSET (0..MaxReq),
                   bad: 0..MaxFaults, stops: 0..MaxStops]
    <3>1. wire.stops \in 0..MaxStops  OBVIOUS
    <3>2. wire.stops + 1 \in 0..MaxStops  BY <1>1, <1>19, <3>1 DEF Stop
    <3>. QED  BY <1>19, <3>2 DEF Stop
  <2>2. pollPc' \in {"idle", "get", "ok", "err"}  BY <1>19 DEF Stop
  <2>. QED  BY <1>19, <2>1, <2>2, ZenonT(30) DEF Stop
<1> HIDE DEF TypeOK, core, timer, caller
<1>. QED
  BY <1>6, <1>7, <1>8, <1>9, <1>10, <1>11, <1>12, <1>13, <1>14, <1>15, <1>16, <1>17, <1>18, <1>19
  DEF TimerCallback, Call

LEMMA NextType == TypeOK /\ [Next]_vars => TypeOK'
<1>1. ASSUME TypeOK, Next PROVE TypeOK'
  BY <1>1, PollType, OthersType DEF Next
<1>2. ASSUME TypeOK, UNCHANGED vars PROVE TypeOK'
  BY <1>2 DEF TypeOK, vars, core, timer, caller
<1>. QED  BY <1>1, <1>2

\* The variables keep their types.
THEOREM TypeCorrect == Spec => []TypeOK
BY InitType, NextType, PTL DEF Spec

-------------------------------------------------------------------------------
(* No event is lost: an event stays in the queue until it is handled.      *)

LEMMA PollKeepsEvents ==
  ASSUME TypeOK, Poll, NEW e \in Events, Has(queue, e), ~Get(e)
  PROVE  Has(queue', e)
<1>1. queue \in Seq(EventSet)  BY DEF TypeOK, EventSet
<1>2. ASSUME NEW h \in Events, Get(h)
      PROVE  Tail(queue) \in Seq(EventSet) /\ Has(Tail(queue), e)
  BY <1>1, <1>2, TailHas DEF Get
<1>3. ASSUME NEW h \in Events, Get(h), NEW g \in Events
      PROVE  Has(PostTo(Tail(queue), Event(g)), e)
  BY <1>2, <1>3, EventInSet, PostHas
<1>4. CASE PollEnter \/ PollIdle \/ PollErrorEnd
  BY <1>4 DEF PollEnter, PollIdle, PollErrorEnd
<1>5. CASE PollReady \/ PollSent \/ PollExecuteOk \/ PollError
  BY <1>2, <1>5 DEF PollReady, PollSent, PollExecuteOk, PollError, Events
<1>6. CASE PollTransmitSent
  <2>1. Get("TRANSMIT")  BY <1>6 DEF PollTransmitSent
  <2>2. Tail(queue) \in Seq(EventSet) /\ Has(Tail(queue), e)  BY <1>2, <2>1 DEF Events
  <2>3. Flushed(Tail(queue)) \in Seq(EventSet) /\ Has(Flushed(Tail(queue)), e)
    BY <2>2, FlushedHas
  <2>4. Event("SENT") \in EventSet  BY EventInSet DEF Events
  <2>. QED  BY <1>6, <2>2, <2>3, <2>4, PostHas DEF PollTransmitSent, SendData
<1>7. CASE PollTransmitFailed \/ PollExecuteExpired \/ PollExecuteException
  BY <1>3, <1>7 DEF PollTransmitFailed, PollExecuteExpired, PollExecuteException, Events
<1>8. CASE PollReceived
  BY <1>2, <1>3, <1>8 DEF PollReceived, Events
<1>9. CASE PollExecuteDone
  <2>1. Event("ERROR") \in EventSet  BY EventInSet DEF Events
  <2>. QED  BY <1>1, <1>9, <2>1, PostHas DEF PollExecuteDone
<1>. QED  BY <1>4, <1>5, <1>6, <1>7, <1>8, <1>9 DEF Poll, PollEvent

LEMMA OthersKeepEvents ==
  ASSUME TypeOK, NEW e \in Events, Has(queue, e),
         \/ TimerAlarm \/ TimerCallback
         \/ (\E k \in 1..MaxReq : UartAnswer(k)) \/ UartBad
         \/ Call \/ Start \/ Stop
  PROVE  Has(queue', e)
<1>1. queue \in Seq(EventSet) /\ MaxReq \in Nat
  BY MasterAssumption DEF TypeOK, EventSet, MasterAssumption
<1>2. ASSUME NEW x \in EventSet, queue' = PostTo(queue, x) PROVE Has(queue', e)
  BY <1>1, <1>2, PostHas
<1>3. \A f \in 0..MaxReq : [ev |-> "RECEIVED", frame |-> f] \in EventSet
  BY DEF EventSet, Events
<1>4. Event("EXECUTE") \in EventSet /\ Event("ERROR") \in EventSet
      /\ Event("TRANSMIT") \in EventSet /\ Event("READY") \in EventSet
  BY EventInSet DEF Events
<1>5. CASE TimerAlarm  BY <1>5 DEF TimerAlarm
<1>6. CASE TimerRead \/ TimerStop \/ TimerSetErr
  BY <1>6 DEF TimerRead, TimerStop, TimerSetErr
<1>7. CASE TimerPost
  <2>1. CASE cbMode = "CONV"  BY <1>2, <1>4, <1>7, <2>1 DEF TimerPost
  <2>2. CASE cbMode # "CONV"  BY <1>2, <1>4, <1>7, <2>2 DEF TimerPost
  <2>. QED  BY <2>1, <2>2
<1>8. ASSUME NEW k \in 1..MaxReq, UartAnswer(k) PROVE Has(queue', e)
  BY <1>1, <1>2, <1>3, <1>8 DEF UartAnswer
<1>9. CASE UartBad  BY <1>1, <1>2, <1>3, <1>9 DEF UartBad, Bad
<1>10. CASE CallPost  BY <1>2, <1>4, <1>10 DEF CallPost
<1>11. CASE CallTake \/ CallBusy \/ CallReturn \/ CallGiveUp
  BY <1>11 DEF CallTake, CallBusy, CallReturn, CallGiveUp
<1>12. CASE Start  BY <1>2, <1>4, <1>12 DEF Start
<1>13. CASE Stop  BY <1>13 DEF Stop
<1>. QED
  BY <1>5, <1>6, <1>7, <1>8, <1>9, <1>10, <1>11, <1>12, <1>13 DEF TimerCallback, Call

LEMMA EventKept ==
  ASSUME TypeOK, Next, NEW e \in Events, Has(queue, e), ~Get(e)
  PROVE  Has(queue', e)
BY PollKeepsEvents, OthersKeepEvents DEF Next

-------------------------------------------------------------------------------
(* An error that is set is on its way to be processed.  The callback sets  *)
(* it only after it has read the mode of the response timeout.             *)

ErrInv == /\ TypeOK
          /\ ErrTypeAccounted
          /\ cb = "stopped" => cbMode = "RESP"

LEMMA InitErr == Init => ErrInv
BY InitType DEF Init, ErrInv, ErrTypeAccounted

LEMMA PollErr ==
  ASSUME ErrInv, Poll
  PROVE  ErrTypeAccounted' /\ (cb = "stopped" => cbMode = "RESP")'
<1>1. TypeOK /\ queue \in Seq(EventSet)  BY DEF ErrInv, TypeOK, EventSet
<1>2. Has(queue, "ERROR") /\ ~Get("ERROR") => Has(queue', "ERROR")
  BY <1>1, PollKeepsEvents DEF Events
<1>3. Event("ERROR") \in EventSet /\ Event("ERROR").ev = "ERROR"
  BY EventInSet DEF Events
<1>4. ASSUME NEW h \in Events, Get(h), queue' = PostTo(Tail(queue), Event("ERROR"))
      PROVE  Has(queue', "ERROR")
  <2>1. Tail(queue) \in Seq(EventSet)  BY <1>1, <1>4, TailHas DEF Get
  <2>. QED  BY <1>3, <1>4, <2>1, PostHas
<1> USE DEF ErrInv, ErrTypeAccounted, Queued, PollFrame
\* A step that leaves the error as it is, and the poll task where it loses
\* nothing, needs only that the event stays in the queue.
<1>5. ASSUME UNCHANGED <<errType, cb, cbMode>>, pollPc # "err", ~Get("ERROR")
      PROVE  ErrTypeAccounted' /\ (cb = "stopped" => cbMode = "RESP")'
  BY <1>2, <1>5
<1>6. CASE PollEnter \/ PollIdle
  BY <1>5, <1>6 DEF PollEnter, PollIdle, timer, core, Get
<1>7. CASE PollReady \/ PollSent \/ PollTransmitSent \/ PollExecuteOk
  BY <1>5, <1>7 DEF PollReady, PollSent, PollTransmitSent, PollExecuteOk, Get
<1>8. CASE PollTransmitFailed \/ PollExecuteExpired \/ PollExecuteException
  BY <1>4, <1>8 DEF PollTransmitFailed, PollExecuteExpired, PollExecuteException, Events
<1>9. CASE PollReceived
  <2>1. CASE UNCHANGED errType
    BY <1>5, <1>9, <2>1 DEF PollReceived, Get
  <2>2. CASE queue' = PostTo(Tail(queue), Event("ERROR"))
    BY <1>4, <1>9, <2>2 DEF PollReceived, Events
  <2>. QED  BY <1>9, <2>1, <2>2 DEF PollReceived
<1>10. CASE PollExecuteDone
  BY <1>1, <1>3, <1>10, PostHas DEF PollExecuteDone
<1>11. CASE PollError \/ PollErrorEnd
  BY <1>11 DEF PollError, PollErrorEnd
<1>. QED  BY <1>6, <1>7, <1>8, <1>9, <1>10, <1>11 DEF Poll, PollEvent

LEMMA OthersErr ==
  ASSUME ErrInv,
         \/ TimerAlarm \/ TimerCallback
         \/ (\E k \in 1..MaxReq : UartAnswer(k)) \/ UartBad
         \/ Call \/ Start \/ Stop
  PROVE  ErrTypeAccounted' /\ (cb = "stopped" => cbMode = "RESP")'
<1>1. TypeOK /\ queue \in Seq(EventSet)  BY DEF ErrInv, TypeOK, EventSet
<1>2. Has(queue, "ERROR") => Has(queue', "ERROR")
  BY <1>1, OthersKeepEvents DEF Events
<1>3. Event("ERROR") \in EventSet /\ Event("ERROR").ev = "ERROR"
  BY EventInSet DEF Events
<1> USE DEF ErrInv, ErrTypeAccounted, Queued, TimerFrame, timer, core, CallerFrame, UartFrame
<1>4. CASE TimerAlarm \/ TimerRead  BY <1>2, <1>4 DEF TimerAlarm, TimerRead
<1>5. CASE TimerStop
  <2>1. cb' = "stopped" => cbMode = "RESP"
    BY <1>1, <1>5 DEF TimerStop, TypeOK, Modes
  <2>2. UNCHANGED <<errType, cbMode, pollPc>> /\ cb = "read"  BY <1>5 DEF TimerStop
  <2>. QED  BY <1>2, <2>1, <2>2
<1>6. CASE TimerSetErr  BY <1>6 DEF TimerSetErr
<1>7. CASE TimerPost
  <2>1. CASE cbMode = "CONV"  BY <1>2, <1>7, <2>1 DEF TimerPost
  <2>2. CASE cbMode # "CONV"  BY <1>1, <1>3, <1>7, <2>2, PostHas DEF TimerPost
  <2>. QED  BY <2>1, <2>2
<1>8. ASSUME NEW k \in 1..MaxReq, UartAnswer(k)
      PROVE  ErrTypeAccounted' /\ (cb = "stopped" => cbMode = "RESP")'
  BY <1>2, <1>8 DEF UartAnswer
<1>9. CASE UartBad  BY <1>2, <1>9 DEF UartBad
<1>10. CASE Call
  BY <1>2, <1>10 DEF Call, CallTake, CallBusy, CallPost, CallReturn, CallGiveUp
<1>11. CASE Start  BY <1>2, <1>11 DEF Start
<1>12. CASE Stop
  <2>1. pollPc = "err" => pollPc' = "err"  BY <1>12 DEF Stop
  <2>. QED  BY <1>2, <1>12, <2>1 DEF Stop
<1>. QED
  BY <1>4, <1>5, <1>6, <1>7, <1>8, <1>9, <1>10, <1>11, <1>12 DEF TimerCallback

LEMMA NextErr == ErrInv /\ [Next]_vars => ErrInv'
<1>1. ASSUME ErrInv, Next PROVE ErrInv'
  BY <1>1, NextType, PollErr, OthersErr DEF Next, ErrInv
<1>2. ASSUME ErrInv, UNCHANGED vars PROVE ErrInv'
  <2>1. TypeOK'  BY <1>2, NextType DEF ErrInv
  <2>. QED
    BY <1>2, <2>1 DEF vars, core, timer, ErrInv, ErrTypeAccounted, Queued
<1>. QED  BY <1>1, <1>2

\* An error that is set is processed, or about to be: EV_EXECUTE may rely on it
\* when it finds an error set and posts nothing (mb_master.c:725-731).
THEOREM ErrorsAccounted == Spec => []ErrTypeAccounted
<1>1. ErrInv => ErrTypeAccounted  BY DEF ErrInv
<1>. QED  BY <1>1, InitErr, NextErr, PTL DEF Spec

-------------------------------------------------------------------------------
(* A resource that is taken will be given back.  The callback of a T35     *)
(* timer, which stops whatever timer runs, must not meet the timer of a    *)
(* request: this is where SlowT35 is excluded.                             *)

DriveInv == /\ ErrInv
            /\ HeldIsDriven
            /\ cb = "post" => cbMode # "T35"
            /\ cb = "read" /\ cbMode = "T35" => ~(armed /\ mode # "T35")

LEMMA InitDrive == Init => DriveInv
<1> SUFFICES ASSUME Init PROVE DriveInv  OBVIOUS
<1>1. ErrInv  BY InitErr
<1>2. Queued("READY")
  <2>1. queue = <<Event("READY")>> /\ Event("READY").ev = "READY"
    BY EventInSet DEF Init, Events
  <2>2. 1 \in DOMAIN queue /\ queue[1].ev = "READY"  BY <2>1
  <2>. QED  BY <2>2 DEF Queued, Has
<1>. QED  BY <1>1, <1>2 DEF Init, DriveInv, HeldIsDriven

\* The poll task hands every event that drives a transaction on to the next.
LEMMA PollDrive ==
  ASSUME DriveInv, Poll, ~SlowT35
  PROVE  /\ HeldIsDriven'
         /\ (cb = "post" => cbMode # "T35")'
         /\ (cb = "read" /\ cbMode = "T35" => ~(armed /\ mode # "T35"))'
<1>1. TypeOK /\ queue \in Seq(EventSet)  BY DEF DriveInv, ErrInv, TypeOK, EventSet
<1>2. \A e \in Events : Has(queue, e) /\ ~Get(e) => Has(queue', e)
  BY <1>1, PollKeepsEvents
<1>3. {"READY", "TRANSMIT", "EXECUTE", "ERROR"} \subseteq Events  BY DEF Events
<1>4. ASSUME NEW h \in Events, Get(h), NEW g \in Events,
             queue' = PostTo(Tail(queue), Event(g))
      PROVE  Has(queue', g)
  <2>1. Tail(queue) \in Seq(EventSet)  BY <1>1, <1>4, TailHas DEF Get
  <2>. QED  BY <1>4, <2>1, PostHas, EventInSet
<1> DEFINE Kept == UNCHANGED <<enabled, resFree, reqPc, mode, cb, cbMode>>
<1> USE DEF DriveInv, HeldIsDriven, Queued, PollFrame, caller, timer, core
\* An event that drives nothing may go.
<1>5. ASSUME Kept, UNCHANGED armed, pollPc \notin {"ok", "err"},
             ~Get("READY"), ~Get("TRANSMIT"), ~Get("EXECUTE"), ~Get("ERROR")
      PROVE  /\ HeldIsDriven'
             /\ (cb = "post" => cbMode # "T35")'
             /\ (cb = "read" /\ cbMode = "T35" => ~(armed /\ mode # "T35"))'
  <2>1. \A e \in {"READY", "TRANSMIT", "EXECUTE", "ERROR"} :
          Has(queue, e) => Has(queue', e)
    BY <1>2, <1>3, <1>5
  <2>. QED  BY <1>5, <2>1
\* With EV_EXECUTE or EV_ERROR_PROCESS in the queue nothing else is needed.
<1>6. ASSUME Kept, Has(queue', "EXECUTE") \/ Has(queue', "ERROR"),
             armed' = armed \/ ~armed'
      PROVE  /\ HeldIsDriven'
             /\ (cb = "post" => cbMode # "T35")'
             /\ (cb = "read" /\ cbMode = "T35" => ~(armed /\ mode # "T35"))'
  BY <1>6
<1>7. CASE PollEnter \/ PollIdle
  BY <1>5, <1>7 DEF PollEnter, PollIdle, Get
<1>8. CASE PollReady  BY <1>8 DEF PollReady
<1>9. CASE PollTransmitSent
  <2>1. armed' = TRUE /\ mode' # "T35" /\ UNCHANGED <<cb, cbMode>>
        /\ ~(cb = "read" /\ cbMode = "T35")
    BY <1>9 DEF PollTransmitSent, SendFrame, StartTimer
  <2>. QED  BY <2>1
<1>10. CASE PollTransmitFailed
  BY <1>3, <1>4, <1>6, <1>10 DEF PollTransmitFailed
<1>11. CASE PollSent  BY <1>5, <1>11 DEF PollSent, Get
<1>12. CASE PollReceived
  <2>1. CASE UNCHANGED armed
    BY <1>5, <1>12, <2>1 DEF PollReceived, Get
  <2>2. CASE queue' = PostTo(Tail(queue), Event("EXECUTE")) /\ armed' = FALSE
    BY <1>3, <1>4, <1>6, <1>12, <2>2 DEF PollReceived, Events
  <2>3. CASE queue' = PostTo(Tail(queue), Event("ERROR")) /\ armed' = FALSE
    BY <1>3, <1>4, <1>6, <1>12, <2>3 DEF PollReceived, Events
  <2>. QED  BY <1>12, <2>1, <2>2, <2>3 DEF PollReceived
<1>13. CASE PollExecuteExpired \/ PollExecuteException
  BY <1>3, <1>4, <1>6, <1>13 DEF PollExecuteExpired, PollExecuteException
\* Here the error that is already set has to be accounted for.
<1>14. CASE PollExecuteOk
  <2>1. Kept /\ UNCHANGED armed /\ pollPc = "get" /\ ~Get("ERROR")
    BY <1>14 DEF PollExecuteOk, Get
  <2>2. CASE errType = "INIT"
    BY <1>14, <2>1, <2>2 DEF PollExecuteOk
  <2>3. CASE errType # "INIT"
    <3>1. Has(queue, "ERROR") \/ (cb = "post" /\ cbMode = "RESP")
      <4>1. ErrTypeAccounted /\ pollPc # "err"  BY <2>1 DEF ErrInv
      <4>. QED  BY <4>1, <2>3 DEF ErrTypeAccounted
    <3>2. CASE Has(queue, "ERROR")
      BY <1>2, <1>3, <1>6, <2>1, <3>2
    <3>3. CASE cb = "post" /\ cbMode = "RESP"
      BY <2>1, <3>3
    <3>. QED  BY <3>1, <3>2, <3>3
  <2>. QED  BY <2>2, <2>3
<1>15. CASE PollExecuteDone
  <2>1. Has(queue', "ERROR")
    BY <1>1, <1>3, <1>15, PostHas, EventInSet DEF PollExecuteDone
  <2>. QED  BY <1>6, <1>15, <2>1 DEF PollExecuteDone
<1>16. CASE PollError  BY <1>16 DEF PollError
<1>17. CASE PollErrorEnd  BY <1>17 DEF PollErrorEnd
<1>. QED
  BY <1>7, <1>8, <1>9, <1>10, <1>11, <1>12, <1>13, <1>14, <1>15, <1>16, <1>17
  DEF Poll, PollEvent

LEMMA OthersDrive ==
  ASSUME DriveInv,
         \/ TimerAlarm \/ TimerCallback
         \/ (\E k \in 1..MaxReq : UartAnswer(k)) \/ UartBad
         \/ Call \/ Start \/ Stop
  PROVE  /\ HeldIsDriven'
         /\ (cb = "post" => cbMode # "T35")'
         /\ (cb = "read" /\ cbMode = "T35" => ~(armed /\ mode # "T35"))'
<1>1. TypeOK /\ queue \in Seq(EventSet)  BY DEF DriveInv, ErrInv, TypeOK, EventSet
<1>2. \A e \in {"READY", "TRANSMIT", "EXECUTE", "ERROR"} :
        Has(queue, e) => Has(queue', e)
  BY <1>1, OthersKeepEvents DEF Events
<1>3. \A e \in {"READY", "TRANSMIT", "EXECUTE", "ERROR"} :
        queue' = PostTo(queue, Event(e)) => Has(queue', e)
  <2> SUFFICES ASSUME NEW e \in {"READY", "TRANSMIT", "EXECUTE", "ERROR"},
                      queue' = PostTo(queue, Event(e))
               PROVE  Has(queue', e)
    OBVIOUS
  <2>1. Event(e) \in EventSet /\ Event(e).ev = e  BY EventInSet DEF Events
  <2>. QED  BY <1>1, <2>1, PostHas
<1> USE DEF DriveInv, HeldIsDriven, Queued, TimerFrame, timer, core, caller, CallerFrame, UartFrame
<1>4. CASE TimerAlarm  BY <1>2, <1>4 DEF TimerAlarm
<1>5. CASE TimerRead  BY <1>2, <1>5 DEF TimerRead
<1>6. CASE TimerStop
  <2>1. /\ cbMode # "T35" => cb' \in {"stopped", "post"}
        /\ cb' = "post" => cbMode # "T35"
    BY <1>1, <1>6 DEF TimerStop, TypeOK, Modes
  <2>2. /\ cb = "read" /\ armed' = FALSE
        /\ UNCHANGED <<queue, enabled, resFree, reqPc, mode, cbMode, pollPc>>
    BY <1>6 DEF TimerStop
  <2>. QED  BY <1>2, <2>1, <2>2
<1>7. CASE TimerSetErr
  <2>1. cbMode = "RESP"  BY <1>7 DEF TimerSetErr, ErrInv
  <2>. QED  BY <1>2, <1>7, <2>1 DEF TimerSetErr
<1>8. CASE TimerPost
  <2>1. Has(queue', "EXECUTE") \/ Has(queue', "ERROR")
    BY <1>3, <1>8 DEF TimerPost
  <2>. QED  BY <1>8, <2>1 DEF TimerPost
<1>9. ASSUME NEW k \in 1..MaxReq, UartAnswer(k)
      PROVE  /\ HeldIsDriven'
             /\ (cb = "post" => cbMode # "T35")'
             /\ (cb = "read" /\ cbMode = "T35" => ~(armed /\ mode # "T35"))'
  BY <1>2, <1>9 DEF UartAnswer
<1>10. CASE UartBad  BY <1>2, <1>10 DEF UartBad
<1>11. CASE CallTake  BY <1>11 DEF CallTake
<1>12. CASE CallPost
  <2>1. Has(queue', "TRANSMIT")  BY <1>3, <1>12 DEF CallPost
  <2>. QED  BY <1>12, <2>1 DEF CallPost
<1>13. CASE CallBusy \/ CallReturn \/ CallGiveUp
  BY <1>2, <1>13 DEF CallBusy, CallReturn, CallGiveUp
<1>14. CASE Start
  <2>1. Has(queue', "READY")  BY <1>3, <1>14 DEF Start
  <2>. QED  BY <1>14, <2>1 DEF Start, StartTimer
<1>15. CASE Stop  BY <1>15 DEF Stop
<1>. QED
  BY <1>4, <1>5, <1>6, <1>7, <1>8, <1>9, <1>10, <1>11, <1>12, <1>13, <1>14, <1>15
  DEF TimerCallback, Call

LEMMA NextDrive ==
  ASSUME ~SlowT35
  PROVE  DriveInv /\ [Next]_vars => DriveInv'
<1>1. ASSUME DriveInv, Next PROVE DriveInv'
  <2>1. ErrInv'  BY <1>1, NextErr DEF DriveInv
  <2>. QED  BY <1>1, <2>1, PollDrive, OthersDrive DEF Next, DriveInv
<1>2. ASSUME DriveInv, UNCHANGED vars PROVE DriveInv'
  <2>1. ErrInv'  BY <1>2, NextErr DEF DriveInv
  <2>. QED
    BY <1>2, <2>1 DEF vars, core, timer, caller, DriveInv, HeldIsDriven, Queued
<1>. QED  BY <1>1, <1>2

\* While the master runs, a resource that is taken has somebody who is going to
\* give it back, unless the callback of the T35 timer lasts until the request is
\* sent.
THEOREM HeldResourceDriven ==
  ASSUME ~SlowT35
  PROVE  Spec => []HeldIsDriven
<1>1. DriveInv => HeldIsDriven  BY DEF DriveInv
<1>2. DriveInv /\ [Next]_vars => DriveInv'  BY NextDrive
<1>. QED  BY <1>1, <1>2, InitDrive, PTL DEF Spec

-------------------------------------------------------------------------------
(* The one transaction under way.  With a response time below 3000 ms,     *)
(* frames only in their time and no stop, a request goes through these     *)
(* stages one after the other, and the caller waits until it has been      *)
(* closed: the function it executes is its own, and what it returns is     *)
(* true of this request.  A callback of the T35 timer that stops the timer *)
(* of the request (SlowT35) ends this: nothing is executed any more.       *)

\* Nothing is timed but the T35 of the start.
Quiet == /\ armed => mode = "T35" /\ cb = "idle"
         /\ \/ cb = "idle"
            \/ cb = "fired" /\ mode = "T35"
            \/ cb = "read" /\ cbMode = "T35"

\* The event is the last one, and may still have EV_FRAME_SENT before it.
EndsIn(x) == queue = <<x>> \/ queue = <<Event("SENT"), x>>

\* The caller waits for request n, which has been sent.
Waiting == /\ reqPc = "wait" /\ flags = {} /\ ~resFree
           /\ evTrans = n /\ curTrans = n /\ n # 0

\* The master has not become ready for the first time.
Boot == /\ queue = <<Event("READY")>> /\ pollPc = "get"
        /\ reqPc = "idle" /\ flags = {} /\ ~resFree /\ errType = "INIT"

\* A caller that has not returned yet has a flag to return with.
Answered(e) == flags = {e} /\ e \in ErrTypes /\ (e = "OK" <=> n \in done) /\ n # 0

Returns == \/ reqPc = "idle" /\ flags = {}
           \/ reqPc = "wait" /\ \E e \in ErrTypes : Answered(e)

Free == /\ queue = <<>> /\ pollPc = "get" /\ resFree /\ errType = "INIT"
        /\ Returns

Taken == /\ queue = <<>> /\ pollPc = "get" /\ ~resFree /\ errType = "INIT"
         /\ reqPc = "post" /\ flags = {}
         /\ evTrans = n /\ n # 0 /\ n \notin done

Posted == /\ queue = <<Event("TRANSMIT")>> /\ pollPc = "get" /\ ~resFree /\ errType = "INIT"
          /\ reqPc = "wait" /\ flags = {}
          /\ evTrans = n /\ n # 0 /\ n \notin done

\* The timer of the request runs, or its callback is under way.
Timed == /\ mode = (IF bcast THEN "CONV" ELSE "RESP")
         /\ \/ armed /\ cb \in {"idle", "fired"}
            \/ cb = "fired"
            \/ cb = "read" /\ cbMode \in {mode, "T35"}
            \/ ~armed /\ cb = "stopped" /\ cbMode = mode /\ ~bcast
            \/ ~armed /\ cb = "post" /\ cbMode = mode
         /\ errType = IF cb = "post" /\ ~bcast THEN "TIMEOUT" ELSE "INIT"

Sent == /\ queue = <<>> \/ queue = <<Event("SENT")>>
        /\ pollPc = "get" /\ Waiting /\ n \notin done
        /\ frameBcast = bcast
        /\ Timed

\* The timer of the request was stopped in place of the T35: neither a response
\* nor the end of the time is waited for, and the caller gives up.
Lost == /\ queue = <<>> \/ queue = <<Event("SENT")>>
        /\ pollPc = "get" /\ reqPc \in {"idle", "wait"} /\ flags = {} /\ ~resFree
        /\ n \notin done
        /\ ~armed /\ cb = "idle"

Received == /\ \E f \in {n, Bad} : EndsIn([ev |-> "RECEIVED", frame |-> f])
            /\ pollPc = "get" /\ Waiting /\ n \notin done
            /\ frameBcast = FALSE /\ ~bcast
            /\ mode = "RESP" /\ armed /\ cb = "idle" /\ errType = "INIT"
            /\ n \in wire.answered

Executing == /\ EndsIn(Event("EXECUTE"))
             /\ pollPc = "get" /\ Waiting /\ n \notin done /\ errType = "INIT"
             /\ frameBcast \/ rcvFrame = n

Served == /\ queue = <<>> /\ pollPc = "ok" /\ Waiting /\ n \in done /\ errType = "INIT"

Failing == /\ EndsIn(Event("ERROR"))
           /\ pollPc = "get" /\ reqPc = "wait" /\ flags = {} /\ ~resFree /\ n # 0
           /\ errType \in ErrTypes /\ (errType = "OK" <=> n \in done)

Closing == /\ queue = <<>> /\ pollPc = "err" /\ ~resFree
           /\ errType \in ErrTypes
           /\ Returns

Stage == \/ Quiet /\ (Boot \/ Free \/ Taken \/ Posted)
         \/ Sent \/ Received \/ Lost
         \/ Quiet /\ (Executing \/ Served \/ Failing \/ Closing)

OneInv == /\ TypeOK /\ enabled /\ done \subseteq 1..n /\ Stage

\* The queue holds at most two events.
LEMMA ShortQueues ==
  ASSUME NEW x, NEW y
  PROVE  /\ <<x>> # <<>> /\ Head(<<x>>) = x /\ Tail(<<x>>) = <<>>
         /\ <<x, y>> # <<>> /\ Head(<<x, y>>) = x /\ Tail(<<x, y>>) = <<y>>
         /\ Append(<<>>, x) = <<x>> /\ Append(<<x>>, y) = <<x, y>>
<1>1. <<x>> # <<>> /\ Head(<<x>>) = x /\ Tail(<<x>>) = <<>>  OBVIOUS
<1>2. <<x, y>> # <<>> /\ Head(<<x, y>>) = x  OBVIOUS
<1>3. Tail(<<x, y>>) = <<y>>  OBVIOUS
<1>4. Append(<<>>, x) = <<x>>  OBVIOUS
<1>5. Append(<<x>>, y) = <<x, y>>
  <2>1. <<x>> \in Seq({x, y}) /\ Len(<<x>>) = 1 /\ <<x>>[1] = x  OBVIOUS
  <2>2. /\ Append(<<x>>, y) \in Seq({x, y})
        /\ Len(Append(<<x>>, y)) = 2
        /\ Append(<<x>>, y)[1] = x /\ Append(<<x>>, y)[2] = y
    BY <2>1, AppendProperties
  <2>3. <<x, y>> \in Seq({x, y}) /\ Len(<<x, y>>) = 2
        /\ <<x, y>>[1] = x /\ <<x, y>>[2] = y
    OBVIOUS
  <2>4. \A i \in 1..2 : Append(<<x>>, y)[i] = <<x, y>>[i]
    <3>1. \A i \in 1..2 : i = 1 \/ i = 2  OBVIOUS
    <3>. QED  BY <2>2, <2>3, <3>1
  <2> DEFINE s == Append(<<x>>, y)
             t == <<x, y>>
  <2>5. s \in Seq({x, y}) /\ t \in Seq({x, y}) /\ Len(s) = Len(t)
        /\ \A i \in 1..Len(s) : s[i] = t[i]
    BY <2>2, <2>3, <2>4
  <2> HIDE DEF s, t
  <2>6. s = t  BY <2>5, SeqEqual
  <2>. QED  BY <2>6 DEF s, t
<1>. QED  BY <1>1, <1>2, <1>3, <1>4, <1>5

LEMMA Evs == \A e \in Events : Event(e).ev = e /\ Event(e).frame = Bad
BY DEF Event

\* The event at the head of the queue tells the stage.
LEMMA HeadTells ==
  ASSUME Stage, pollPc = "get", queue # <<>>
  PROVE  /\ Head(queue).ev \in Events
         /\ Head(queue).ev = "READY" => Quiet /\ Boot /\ Tail(queue) = <<>>
         /\ Head(queue).ev = "TRANSMIT" => Quiet /\ Posted /\ Tail(queue) = <<>>
         /\ Head(queue).ev = "SENT" =>
              \/ (Sent \/ Lost) /\ Tail(queue) = <<>>
              \/ /\ Received
                 /\ \E f \in {n, Bad} : Tail(queue) = <<[ev |-> "RECEIVED", frame |-> f]>>
              \/ Quiet /\ Executing /\ Tail(queue) = <<Event("EXECUTE")>>
              \/ Quiet /\ Failing /\ Tail(queue) = <<Event("ERROR")>>
         /\ Head(queue).ev = "RECEIVED" =>
              Received /\ Tail(queue) = <<>> /\ Head(queue).frame \in {n, Bad}
         /\ Head(queue).ev = "EXECUTE" => Quiet /\ Executing /\ Tail(queue) = <<>>
         /\ Head(queue).ev = "ERROR" => Quiet /\ Failing /\ Tail(queue) = <<>>
<1>1. CASE Quiet /\ Boot
  BY <1>1, ShortQueues, Evs DEF Boot, Events
<1>2. CASE Quiet /\ Posted
  BY <1>2, ShortQueues, Evs DEF Posted, Events
<1>3. CASE Sent \/ Lost
  <2>1. queue = <<Event("SENT")>>  BY <1>3 DEF Sent, Lost
  <2>2. Head(queue) = Event("SENT") /\ Tail(queue) = <<>>  BY <2>1, ShortQueues
  <2>3. Head(queue).ev = "SENT"  BY <2>2, Evs DEF Events
  <2>. QED  BY <1>3, <2>2, <2>3 DEF Events
<1>4. CASE Received
  <2>1. PICK f \in {n, Bad} : EndsIn([ev |-> "RECEIVED", frame |-> f])
    BY <1>4 DEF Received
  <2>2. CASE queue = <<[ev |-> "RECEIVED", frame |-> f]>>
    <3>1. /\ Head(queue) = [ev |-> "RECEIVED", frame |-> f]
          /\ Tail(queue) = <<>>
      BY <2>2, ShortQueues
    <3>2. Head(queue).ev = "RECEIVED" /\ Head(queue).frame \in {n, Bad}  BY <3>1
    <3>. QED  BY <1>4, <3>1, <3>2 DEF Events
  <2>3. CASE queue = <<Event("SENT"), [ev |-> "RECEIVED", frame |-> f]>>
    <3>1. /\ Head(queue) = Event("SENT")
          /\ Tail(queue) = <<[ev |-> "RECEIVED", frame |-> f]>>
      BY <2>3, ShortQueues
    <3>2. Head(queue).ev = "SENT"  BY <3>1, Evs DEF Events
    <3>. QED  BY <1>4, <3>1, <3>2 DEF Events
  <2>. QED  BY <2>1, <2>2, <2>3 DEF EndsIn
<1>5. CASE Quiet /\ Executing
  <2>1. CASE queue = <<Event("EXECUTE")>>
    <3>1. Head(queue) = Event("EXECUTE") /\ Tail(queue) = <<>>  BY <2>1, ShortQueues
    <3>2. Head(queue).ev = "EXECUTE"  BY <3>1, Evs DEF Events
    <3>. QED  BY <1>5, <3>1, <3>2 DEF Events
  <2>2. CASE queue = <<Event("SENT"), Event("EXECUTE")>>
    <3>1. Head(queue) = Event("SENT") /\ Tail(queue) = <<Event("EXECUTE")>>
      BY <2>2, ShortQueues
    <3>2. Head(queue).ev = "SENT"  BY <3>1, Evs DEF Events
    <3>. QED  BY <1>5, <3>1, <3>2 DEF Events
  <2>. QED  BY <1>5, <2>1, <2>2 DEF Executing, EndsIn
<1>6. CASE Quiet /\ Failing
  <2>1. CASE queue = <<Event("ERROR")>>
    <3>1. Head(queue) = Event("ERROR") /\ Tail(queue) = <<>>  BY <2>1, ShortQueues
    <3>2. Head(queue).ev = "ERROR"  BY <3>1, Evs DEF Events
    <3>. QED  BY <1>6, <3>1, <3>2 DEF Events
  <2>2. CASE queue = <<Event("SENT"), Event("ERROR")>>
    <3>1. Head(queue) = Event("SENT") /\ Tail(queue) = <<Event("ERROR")>>
      BY <2>2, ShortQueues
    <3>2. Head(queue).ev = "SENT"  BY <3>1, Evs DEF Events
    <3>. QED  BY <1>6, <3>1, <3>2 DEF Events
  <2>. QED  BY <1>6, <2>1, <2>2 DEF Failing, EndsIn
<1>7. CASE Free \/ Taken \/ Served \/ Closing
  BY <1>7 DEF Free, Taken, Served, Closing
<1>. QED  BY <1>1, <1>2, <1>3, <1>4, <1>5, <1>6, <1>7 DEF Stage

\* What no step of the timer or of a caller that is refused touches.
Staged == <<queue, pollPc, reqPc, flags, resFree, errType, evTrans, curTrans, n, bcast,
            frameBcast, rcvFrame, done, wire>>

LEMMA StageKept ==
  ASSUME UNCHANGED Staged
  PROVE  /\ Boot => Boot'
         /\ Free => Free'
         /\ Taken => Taken'
         /\ Posted => Posted'
         /\ Executing => Executing'
         /\ Served => Served'
         /\ Failing => Failing'
         /\ Closing => Closing'
         /\ Received /\ UNCHANGED <<mode, armed, cb>> => Received'
         /\ Lost /\ UNCHANGED <<mode, armed, cb>> => Lost'
         /\ Sent /\ Timed' => Sent'
<1> USE DEF Staged
<1>1. Returns => Returns'  BY DEF Returns, Answered
<1>2. Waiting => Waiting'  BY DEF Waiting
<1>3. \A x : EndsIn(x) => queue' = <<x>> \/ queue' = <<Event("SENT"), x>>
  BY DEF EndsIn
<1>4. (Boot => Boot') /\ (Taken => Taken') /\ (Posted => Posted')
  BY DEF Boot, Taken, Posted
<1>5. (Free => Free') /\ (Closing => Closing')
  BY <1>1 DEF Free, Closing
<1>6. /\ Executing => Executing'
      /\ Served => Served'
      /\ Failing => Failing'
  BY <1>2, <1>3 DEF Executing, Served, Failing, EndsIn
<1>7. Received /\ UNCHANGED <<mode, armed, cb>> => Received'
  <2> SUFFICES ASSUME Received, UNCHANGED <<mode, armed, cb>> PROVE Received'
    OBVIOUS
  <2>1. PICK f \in {n, Bad} : EndsIn([ev |-> "RECEIVED", frame |-> f])  BY DEF Received
  <2>2. f \in {n', Bad} /\ EndsIn([ev |-> "RECEIVED", frame |-> f])'
    BY <2>1 DEF EndsIn
  <2>. QED  BY <1>2, <2>2 DEF Received
<1>8. Sent /\ Timed' => Sent'  BY <1>2 DEF Sent
<1>9. Lost /\ UNCHANGED <<mode, armed, cb>> => Lost'  BY DEF Lost
<1>. QED  BY <1>4, <1>5, <1>6, <1>7, <1>8, <1>9

\* The poll task takes the transaction from one stage to the next.
LEMMA PollStage ==
  ASSUME OneInv, Poll
  PROVE  Stage' /\ enabled' /\ (done \subseteq 1..n)'
<1>1. /\ TypeOK /\ enabled /\ Stage /\ done \subseteq 1..n
      /\ n \in Nat /\ MaxReq \in Nat
  BY MasterAssumption DEF OneInv, TypeOK, MasterAssumption
<1>2. Loop = "get"  BY <1>1 DEF Loop
<1>3. \A e \in Events : Get(e) => pollPc = "get" /\ queue # <<>> /\ Head(queue).ev = e
  BY DEF Get
<1> USE DEF PollFrame, core, timer, caller
<1>4. ASSUME PollEnter \/ PollIdle PROVE FALSE
  BY <1>1, <1>4 DEF PollEnter, PollIdle, Stage, Boot, Free, Taken, Posted, Sent, Lost, Received,
                    Executing, Served, Failing, Closing
<1>5. CASE PollReady
  <2>1. Quiet /\ Boot /\ Tail(queue) = <<>>
    BY <1>1, <1>5, HeadTells DEF PollReady, Get
  <2>2. Free' /\ Quiet'
    BY <1>2, <1>5, <2>1 DEF PollReady, Boot, Free, Returns, Quiet
  <2>. QED  BY <1>1, <1>5, <2>2 DEF PollReady, Stage
<1>6. CASE PollTransmitSent
  <2>1. Quiet /\ Posted /\ Tail(queue) = <<>>
    BY <1>1, <1>6, HeadTells DEF PollTransmitSent, Get
  <2>2. SendData(Tail(queue)) = <<>>  BY <2>1 DEF SendData, Flushed
  <2>3. queue' = <<Event("SENT")>>
    BY <1>6, <2>2, ShortQueues DEF PollTransmitSent, PostTo
  <2>4. /\ mode' = (IF bcast' THEN "CONV" ELSE "RESP") /\ armed' /\ frameBcast' = bcast'
        /\ cb' \in {"idle", "fired"} \/ (cb' = "read" /\ cbMode' = "T35")
        /\ errType' = "INIT"
    BY <1>6, <2>1 DEF PollTransmitSent, SendFrame, StartTimer, Quiet, Posted
  <2>5. Timed'  BY <2>4 DEF Timed
  <2>6. Waiting' /\ pollPc' = "get" /\ (n \notin done)'
    BY <1>2, <1>6, <2>1 DEF PollTransmitSent, Posted, Waiting
  <2>7. Sent'  BY <2>3, <2>4, <2>5, <2>6 DEF Sent
  <2>. QED  BY <1>1, <1>6, <2>7 DEF PollTransmitSent, Stage
<1>7. CASE PollTransmitFailed
  <2>1. Quiet /\ Posted /\ Tail(queue) = <<>>
    BY <1>1, <1>7, HeadTells DEF PollTransmitFailed, Get
  <2>2. queue' = <<Event("ERROR")>>
    BY <1>7, <2>1, ShortQueues DEF PollTransmitFailed, PostTo
  <2>3. Failing'
    BY <1>2, <1>7, <2>1, <2>2 DEF PollTransmitFailed, Posted, Failing, EndsIn, ErrTypes
  <2>4. Quiet'  BY <1>7, <2>1 DEF PollTransmitFailed, Quiet
  <2>. QED  BY <1>1, <1>7, <2>3, <2>4 DEF PollTransmitFailed, Stage
<1>8. CASE PollSent
  <2>1. /\ queue' = Tail(queue) /\ pollPc' = "get" /\ pollPc = "get"
        /\ queue # <<>> /\ Head(queue).ev = "SENT"
        /\ UNCHANGED <<errType, flags, resFree, evTrans, curTrans, frameBcast, rcvFrame,
                       armed, mode, cb, cbMode, reqPc, n, bcast, done, wire, enabled>>
    BY <1>2, <1>8 DEF PollSent, Get
  <2>2. (Waiting => Waiting') /\ (Quiet => Quiet') /\ (Timed => Timed')
    BY <2>1 DEF Waiting, Quiet, Timed
  <2>3. ASSUME Sent, Tail(queue) = <<>> PROVE Stage'
    BY <2>1, <2>2, <2>3 DEF Sent, Stage
  <2>8. ASSUME Lost, Tail(queue) = <<>> PROVE Stage'
    BY <2>1, <2>8 DEF Lost, Stage
  <2>4. ASSUME Received,
               \E f \in {n, Bad} : Tail(queue) = <<[ev |-> "RECEIVED", frame |-> f]>>
        PROVE  Stage'
    <3>1. PICK f \in {n', Bad} : queue' = <<[ev |-> "RECEIVED", frame |-> f]>>
      BY <2>1, <2>4
    <3>2. EndsIn([ev |-> "RECEIVED", frame |-> f])'  BY <3>1 DEF EndsIn
    <3>3. Received'  BY <2>1, <2>2, <2>4, <3>2 DEF Received
    <3>. QED  BY <3>3 DEF Stage
  <2>5. ASSUME Quiet, Executing, Tail(queue) = <<Event("EXECUTE")>> PROVE Stage'
    BY <2>1, <2>2, <2>5 DEF Executing, EndsIn, Stage
  <2>6. ASSUME Quiet, Failing, Tail(queue) = <<Event("ERROR")>> PROVE Stage'
    BY <2>1, <2>2, <2>6 DEF Failing, EndsIn, Stage
  <2>7. Stage'  BY <1>1, <2>1, <2>3, <2>4, <2>5, <2>6, <2>8, HeadTells
  <2>. QED  BY <1>1, <2>1, <2>7
<1>9. CASE PollReceived
  <2>1. Received /\ Tail(queue) = <<>> /\ Head(queue).frame \in {n, Bad}
    BY <1>1, <1>9, HeadTells DEF PollReceived, Get
  <2>2. /\ evTrans = curTrans /\ evTrans # 0 /\ ~bcast /\ ~frameBcast
        /\ cb = "idle" /\ errType = "INIT" /\ Waiting /\ n \notin done
    BY <2>1 DEF Received, Waiting
  <2>3. PICK f \in RecvData(Head(queue).frame) :
           /\ rcvFrame' \in Buffer(f)
           /\ \/ /\ f # Bad
                 /\ queue' = PostTo(Tail(queue), Event("EXECUTE"))
                 /\ armed' = FALSE
                 /\ UNCHANGED errType
              \/ /\ f = Bad
                 /\ queue' = PostTo(Tail(queue), Event("ERROR"))
                 /\ armed' = FALSE
                 /\ errType' = "RECV"
    BY <1>9, <2>2 DEF PollReceived
  <2>4. f = Head(queue).frame  BY <1>1, <2>3 DEF RecvData
  <2>5. /\ pollPc' = "get" /\ armed' = FALSE
        /\ UNCHANGED <<flags, resFree, evTrans, curTrans, frameBcast, mode, cb, cbMode,
                       reqPc, n, bcast, done, wire, enabled>>
    BY <1>2, <1>9, <2>3 DEF PollReceived
  <2>6. Waiting' /\ Quiet'  BY <2>2, <2>5 DEF Waiting, Quiet
  <2>7. CASE f # Bad
    <3>1. rcvFrame' = n' /\ queue' = <<Event("EXECUTE")>> /\ errType' = "INIT"
      BY <2>1, <2>2, <2>3, <2>4, <2>5, <2>7, ShortQueues DEF Buffer, PostTo
    <3>. QED  BY <1>1, <2>2, <2>5, <2>6, <3>1 DEF Executing, EndsIn, Stage
  <2>8. CASE f = Bad
    <3>1. queue' = <<Event("ERROR")>> /\ errType' = "RECV"
      BY <2>1, <2>3, <2>8, ShortQueues DEF PostTo
    <3>2. Failing'
      BY <2>2, <2>5, <2>6, <3>1 DEF Failing, EndsIn, ErrTypes, Waiting
    <3>. QED  BY <1>1, <2>5, <2>6, <3>2 DEF Stage
  <2>. QED  BY <2>7, <2>8
<1>10. ASSUME PollExecuteExpired PROVE FALSE
  <2>1. Executing  BY <1>1, <1>10, HeadTells DEF PollExecuteExpired, Get
  <2>. QED  BY <1>10, <2>1 DEF PollExecuteExpired, Executing, Waiting
<1>11. CASE PollExecuteException
  <2>1. Quiet /\ Executing /\ Tail(queue) = <<>>
    BY <1>1, <1>11, HeadTells DEF PollExecuteException, Get
  <2>2. queue' = <<Event("ERROR")>>
    BY <1>11, <2>1, ShortQueues DEF PollExecuteException, PostTo
  <2>3. Failing'
    BY <1>2, <1>11, <2>1, <2>2
    DEF PollExecuteException, Executing, Waiting, Failing, EndsIn, ErrTypes
  <2>4. Quiet'  BY <1>11, <2>1 DEF PollExecuteException, Quiet
  <2>. QED  BY <1>1, <1>11, <2>3, <2>4 DEF PollExecuteException, Stage
<1>12. CASE PollExecuteOk
  <2>1. Quiet /\ Executing /\ Tail(queue) = <<>>
    BY <1>1, <1>12, HeadTells DEF PollExecuteOk, Get
  <2>2. Executed = n  BY <2>1 DEF Executed, Executing
  <2>3. done' = done \cup {n}  BY <1>12, <2>2 DEF PollExecuteOk
  <2>4. /\ queue' = <<>> /\ pollPc' = "ok"
        /\ UNCHANGED <<enabled, errType, flags, resFree, evTrans, curTrans, reqPc, n, armed,
                       mode, cb, cbMode>>
    BY <1>12, <2>1 DEF PollExecuteOk, Executing
  <2>5. Served' /\ Quiet'
    BY <2>1, <2>3, <2>4 DEF Executing, Served, Waiting, Quiet
  <2>6. n \in 1..n  BY <1>1, <2>1 DEF Executing, Waiting
  <2>. QED  BY <1>1, <2>3, <2>4, <2>5, <2>6 DEF Stage
<1>13. CASE PollExecuteDone
  <2>1. Quiet /\ Served
    BY <1>1, <1>13 DEF PollExecuteDone, Stage, Boot, Free, Taken, Posted, Sent, Lost, Received,
                       Executing, Failing, Closing
  <2>2. queue' = <<Event("ERROR")>>
    BY <1>13, <2>1, ShortQueues DEF PollExecuteDone, Served, PostTo
  <2>3. Failing'
    BY <1>2, <1>13, <2>1, <2>2 DEF PollExecuteDone, Served, Waiting, Failing, EndsIn, ErrTypes
  <2>4. Quiet'  BY <1>13, <2>1 DEF PollExecuteDone, Quiet
  <2>. QED  BY <1>1, <1>13, <2>3, <2>4 DEF PollExecuteDone, Stage
<1>14. CASE PollError
  <2>1. Quiet /\ Failing /\ Tail(queue) = <<>>
    BY <1>1, <1>14, HeadTells DEF PollError, Get
  <2>2. errType \in ErrTypes /\ errType # "INIT"  BY <2>1 DEF Failing, ErrTypes
  <2>3. flags' = {errType}
    BY <1>14, <2>1, <2>2 DEF PollError, Failing
  <2>4. /\ queue' = <<>> /\ pollPc' = "err" /\ armed' = FALSE
        /\ UNCHANGED <<enabled, errType, resFree, reqPc, n, done, mode, cb, cbMode>>
    BY <1>14, <2>1 DEF PollError
  <2>5. Answered(errType)'
    BY <2>1, <2>2, <2>3, <2>4 DEF Answered, Failing
  <2>6. Returns'
    BY <2>1, <2>2, <2>4, <2>5 DEF Returns, Failing
  <2>7. Closing' /\ Quiet'
    BY <2>1, <2>2, <2>4, <2>6 DEF Closing, Failing, Quiet
  <2>. QED  BY <1>1, <2>4, <2>7 DEF Stage
<1>15. CASE PollErrorEnd
  <2>1. Quiet /\ Closing
    BY <1>1, <1>15 DEF PollErrorEnd, Stage, Boot, Free, Taken, Posted, Sent, Lost, Received,
                       Executing, Failing, Served
  <2>2. /\ queue' = <<>> /\ pollPc' = "get" /\ resFree' /\ errType' = "INIT"
        /\ UNCHANGED <<enabled, flags, reqPc, n, done, armed, mode, cb, cbMode>>
    BY <1>2, <1>15, <2>1 DEF PollErrorEnd, Closing
  <2>3. Returns'
    BY <2>1, <2>2 DEF Closing, Returns, Answered
  <2>4. Free' /\ Quiet'  BY <2>1, <2>2, <2>3 DEF Free, Quiet
  <2>. QED  BY <1>1, <2>2, <2>4 DEF Stage
<1>. QED
  BY <1>4, <1>5, <1>6, <1>7, <1>8, <1>9, <1>10, <1>11, <1>12, <1>13, <1>14, <1>15
  DEF Poll, PollEvent

\* The timer of the start may run out, and its callback come, at any stage before
\* the first request is sent.
LEMMA TimerQuiet ==
  ASSUME OneInv, Quiet, TimerAlarm \/ TimerCallback
  PROVE  Quiet' /\ UNCHANGED Staged
<1> USE DEF TimerFrame, core, caller, Staged
<1>1. CASE TimerAlarm  BY <1>1 DEF TimerAlarm, Quiet
<1>2. CASE TimerRead  BY <1>2 DEF TimerRead, Quiet
<1>3. CASE TimerStop
  <2>1. cbMode = "T35" /\ cb' = "idle"  BY <1>3 DEF TimerStop, Quiet
  <2>2. armed' = FALSE /\ UNCHANGED <<queue, errType, cbMode, TimerFrame>>
    BY <1>3 DEF TimerStop
  <2>. QED  BY <2>1, <2>2 DEF Quiet
<1>4. ASSUME TimerSetErr \/ TimerPost PROVE FALSE
  BY <1>4 DEF TimerSetErr, TimerPost, Quiet
<1>. QED  BY <1>1, <1>2, <1>3, <1>4 DEF TimerCallback

\* The timer of the request and its callback, up to the event that is posted.
LEMMA TimerSent ==
  ASSUME OneInv, Sent, TimerAlarm \/ TimerCallback
  PROVE  Stage'
<1>1. Timed /\ Waiting /\ pollPc = "get" /\ n \notin done /\ frameBcast = bcast
  BY DEF Sent
<1>2. bcast \in BOOLEAN  BY DEF OneInv, TypeOK
<1> USE DEF TimerFrame, core, caller
<1>3. CASE TimerAlarm
  <2>1. Timed'  BY <1>1, <1>3 DEF TimerAlarm, Timed
  <2>2. UNCHANGED Staged  BY <1>3 DEF TimerAlarm, Staged
  <2>. QED  BY <2>1, <2>2, StageKept DEF Stage
<1>4. CASE TimerRead
  <2>1. Timed'  BY <1>1, <1>4 DEF TimerRead, Timed
  <2>2. UNCHANGED Staged  BY <1>4 DEF TimerRead, Staged
  <2>. QED  BY <2>1, <2>2, StageKept DEF Stage
<1>5. CASE TimerStop
  <2>1. /\ cb = "read" /\ armed' = FALSE
        /\ UNCHANGED <<queue, errType, cbMode, TimerFrame>>
    BY <1>5 DEF TimerStop
  <2>7. CASE cbMode = "T35"
    <3>1. cb' = "idle"  BY <1>5, <2>7 DEF TimerStop
    <3>2. Lost'  BY <1>1, <2>1, <3>1 DEF Lost, Sent, Waiting
    <3>. QED  BY <3>2 DEF Stage
  <2> SUFFICES ASSUME cbMode # "T35" PROVE Stage'  BY <2>7
  <2>2. mode = (IF bcast THEN "CONV" ELSE "RESP") /\ cbMode = mode /\ errType = "INIT"
    BY <1>1, <2>1 DEF Timed
  <2>3. cb' = IF bcast THEN "post" ELSE "stopped"
    BY <1>2, <1>5, <2>2 DEF TimerStop
  <2>4. CASE bcast
    <3>1. Timed'  BY <2>1, <2>2, <2>3, <2>4 DEF Timed
    <3>2. UNCHANGED Staged  BY <2>1 DEF Staged
    <3>. QED  BY <3>1, <3>2, StageKept DEF Stage
  <2>5. CASE ~bcast
    <3>1. Timed'  BY <2>1, <2>2, <2>3, <2>5 DEF Timed
    <3>2. UNCHANGED Staged  BY <2>1 DEF Staged
    <3>. QED  BY <3>1, <3>2, StageKept DEF Stage
  <2>. QED  BY <2>4, <2>5
<1>6. CASE TimerSetErr
  <2>1. ~bcast /\ cbMode = mode /\ ~armed /\ mode = "RESP"
    BY <1>1, <1>6 DEF TimerSetErr, Timed
  <2>2. /\ cb' = "post" /\ errType' = "TIMEOUT"
        /\ UNCHANGED <<queue, armed, cbMode, TimerFrame>>
    BY <1>6 DEF TimerSetErr
  <2>3. Timed'  BY <2>1, <2>2 DEF Timed
  <2>4. Waiting'  BY <1>1, <2>2 DEF Waiting
  <2>5. Sent'  BY <1>1, <2>2, <2>3, <2>4 DEF Sent
  <2>. QED  BY <2>5 DEF Stage
<1>7. CASE TimerPost
  <2>1. /\ cb = "post" /\ cb' = "idle" /\ ~armed
        /\ mode = (IF bcast THEN "CONV" ELSE "RESP") /\ cbMode = mode
        /\ errType = (IF ~bcast THEN "TIMEOUT" ELSE "INIT")
    BY <1>1, <1>7 DEF TimerPost, Timed
  <2>2. UNCHANGED <<errType, armed, cbMode, TimerFrame>>  BY <1>7 DEF TimerPost
  <2>3. Quiet' /\ Waiting'  BY <1>1, <2>1, <2>2 DEF Quiet, Waiting
  <2>4. \A x : queue' = PostTo(queue, x) => EndsIn(x)'
    <3>1. queue = <<>> \/ queue = <<Event("SENT")>>  BY DEF Sent
    <3>. QED  BY <3>1, ShortQueues DEF PostTo, EndsIn
  <2>5. CASE bcast
    <3>1. queue' = PostTo(queue, Event("EXECUTE"))
      BY <1>7, <2>1, <2>5 DEF TimerPost
    <3>2. EndsIn(Event("EXECUTE"))'  BY <2>4, <3>1
    <3>3. Executing'  BY <1>1, <2>1, <2>2, <2>3, <2>5, <3>2 DEF Executing
    <3>. QED  BY <2>3, <3>3 DEF Stage
  <2>6. CASE ~bcast
    <3>1. queue' = PostTo(queue, Event("ERROR"))
      BY <1>7, <2>1, <2>6 DEF TimerPost
    <3>2. EndsIn(Event("ERROR"))'  BY <2>4, <3>1
    <3>3. Failing'
      BY <1>1, <2>1, <2>2, <2>3, <2>6, <3>2 DEF Failing, Waiting, ErrTypes
    <3>. QED  BY <2>3, <3>3 DEF Stage
  <2>. QED  BY <2>5, <2>6
<1>. QED  BY <1>3, <1>4, <1>5, <1>6, <1>7 DEF TimerCallback

\* A response that has come in time is waited for no longer; and of a timer that
\* was stopped nothing comes.
LEMMA TimerReceived ==
  ASSUME OneInv, Received \/ Lost, ~Race
  PROVE  ~(TimerAlarm \/ TimerCallback)
BY DEF Received, Lost, TimerAlarm, TimerCallback, TimerRead, TimerStop, TimerSetErr, TimerPost

LEMMA TimerStage ==
  ASSUME OneInv, TimerAlarm \/ TimerCallback, ~Race
  PROVE  Stage' /\ enabled' /\ (done \subseteq 1..n)'
<1>1. UNCHANGED <<enabled, done, n>>
  BY DEF TimerAlarm, TimerCallback, TimerRead, TimerStop, TimerSetErr, TimerPost, TimerFrame,
         caller
<1>2. Stage'
  <2>1. Stage  BY DEF OneInv
  <2>2. ASSUME Quiet, Boot \/ Free \/ Taken \/ Posted PROVE Stage'
    BY <2>2, TimerQuiet, StageKept DEF Stage
  <2>3. ASSUME Quiet, Executing \/ Served \/ Failing \/ Closing PROVE Stage'
    BY <2>3, TimerQuiet, StageKept DEF Stage
  <2>. QED  BY <2>1, <2>2, <2>3, TimerSent, TimerReceived DEF Stage
<1>. QED  BY <1>1, <1>2 DEF OneInv

\* A frame is taken only while its request waits for it.
LEMMA FrameStage ==
  ASSUME OneInv, ~Race, (\E k \in 1..MaxReq : UartAnswer(k)) \/ UartBad
  PROVE  Stage' /\ enabled' /\ (done \subseteq 1..n)'
<1>1. TypeOK /\ Stage /\ enabled /\ done \subseteq 1..n  BY DEF OneInv
<1>2. UNCHANGED UartFrame /\ InTime  BY DEF UartAnswer, UartBad
<1>3. PICK f \in {n, Bad} : queue' = PostTo(queue, [ev |-> "RECEIVED", frame |-> f])
  BY DEF UartAnswer, UartBad
<1>4. (n \in wire.answered)'
  <2>1. n \in 0..MaxReq /\ wire.answered \subseteq 0..MaxReq
        /\ wire \in [sent: SUBSET (0..MaxReq), answered: SUBSET (0..MaxReq),
                     bad: 0..MaxFaults, stops: 0..MaxStops]
    BY <1>1 DEF TypeOK
  <2>2. n' = n  BY <1>2 DEF UartFrame, caller
  <2>3. wire'.answered = wire.answered \cup {n}
    BY <2>1 DEF UartAnswer, UartBad
  <2>. QED  BY <2>2, <2>3
<1>5. Sent
  BY <1>1, <1>2 DEF Stage, InTime, Quiet, Received, Lost
<1>6. /\ ~bcast /\ frameBcast = FALSE /\ errType = "INIT" /\ Waiting
      /\ n \notin done /\ pollPc = "get"
  BY <1>1, <1>2, <1>5 DEF Sent, Timed, InTime, TypeOK
<1>7. EndsIn([ev |-> "RECEIVED", frame |-> f])'
  <2>1. queue = <<>> \/ queue = <<Event("SENT")>>  BY <1>5 DEF Sent
  <2>. QED  BY <1>3, <2>1, ShortQueues DEF PostTo, EndsIn
<1> USE DEF UartFrame, core, timer, caller
<1>8. Waiting'  BY <1>2, <1>6 DEF Waiting
<1>9. Received'
  BY <1>2, <1>4, <1>6, <1>7, <1>8 DEF Received, InTime
<1>. QED  BY <1>1, <1>2, <1>9 DEF Stage

\* The caller.  It gives up a request that is lost and no other: as long as it has
\* no flag, somebody is about to give it one.
LEMMA CallerWaits ==
  ASSUME OneInv, CallGiveUp, ~LongTimeout
  PROVE  Lost
<1>1. /\ reqPc = "wait" /\ flags = {} /\ queue = <<>> /\ ~armed /\ cb = "idle"
      /\ pollPc = "get"
  BY DEF CallGiveUp, NoFlagSoon, OneInv
<1>2. Stage  BY DEF OneInv
<1>3. ~Sent  BY <1>1 DEF Sent, Timed
<1>4. ~Free  BY <1>1 DEF Free, Returns, Answered
<1>5. ~(Boot \/ Taken \/ Served \/ Closing)
  BY <1>1 DEF Boot, Taken, Served, Closing
<1>6. ~(Posted \/ Executing \/ Failing \/ Received)
  BY <1>1, ShortQueues DEF Posted, Executing, Failing, Received, EndsIn
<1>. QED  BY <1>2, <1>3, <1>4, <1>5, <1>6 DEF Stage

\* It returns with the one flag that the error of its own transaction has set.
LEMMA CallerReturns ==
  ASSUME OneInv, CallReturn
  PROVE  /\ Quiet /\ (Free \/ Closing)
         /\ \E e \in ErrTypes : Answered(e)
<1>1. reqPc = "wait" /\ flags # {} /\ Stage  BY DEF CallReturn, OneInv
<1>2. Quiet /\ (Free \/ Closing)
  BY <1>1 DEF Stage, Boot, Taken, Posted, Sent, Lost, Received, Executing, Served, Failing, Waiting
<1>3. \E e \in ErrTypes : Answered(e)
  BY <1>1, <1>2 DEF Free, Closing, Returns
<1>. QED  BY <1>2, <1>3

LEMMA CallStage ==
  ASSUME OneInv, Call, ~LongTimeout
  PROVE  Stage' /\ enabled' /\ (done \subseteq 1..n)'
<1>1. TypeOK /\ Stage /\ enabled /\ done \subseteq 1..n /\ n \in Nat
  BY MasterAssumption DEF OneInv, TypeOK, MasterAssumption
<1> USE DEF CallerFrame, timer
<1>2. CASE CallTake
  <2>1. Quiet /\ Free
    BY <1>1, <1>2 DEF CallTake, Stage, Boot, Taken, Posted, Sent, Lost, Received, Executing, Served,
                      Failing, Closing, Waiting
  <2>2. /\ reqPc' = "post" /\ ~resFree' /\ n' = n + 1 /\ evTrans' = n'
        /\ UNCHANGED <<queue, flags, CallerFrame>>
    BY <1>2 DEF CallTake
  <2>3. n' \notin done /\ n' # 0 /\ done \subseteq 1..n'
    BY <1>1, <2>2
  <2>4. flags = {}  BY <1>2, <2>1 DEF CallTake, Free, Returns
  <2>5. Taken' /\ Quiet'
    BY <2>1, <2>2, <2>3, <2>4 DEF Free, Taken, Quiet
  <2>. QED  BY <1>1, <2>2, <2>3, <2>5 DEF Stage
<1>3. CASE CallBusy
  <2>1. UNCHANGED Staged /\ UNCHANGED <<enabled, armed, mode, cb, cbMode>>
    BY <1>3 DEF CallBusy, Staged
  <2>2. (Quiet => Quiet') /\ (Timed => Timed')
    BY <2>1 DEF Quiet, Timed, Staged
  <2>3. Sent => Timed  BY DEF Sent
  <2>4. Stage'  BY <1>1, <2>1, <2>2, <2>3, StageKept DEF Stage
  <2>. QED  BY <1>1, <2>1, <2>4 DEF Staged
<1>4. CASE CallPost
  <2>1. Quiet /\ Taken
    BY <1>1, <1>4 DEF CallPost, Stage, Boot, Free, Posted, Sent, Lost, Received, Executing, Served,
                      Failing, Closing, Waiting, Returns
  <2>2. queue' = <<Event("TRANSMIT")>>
    BY <1>4, <2>1, ShortQueues DEF CallPost, PostTo, Taken
  <2>3. reqPc' = "wait" /\ UNCHANGED <<flags, resFree, evTrans, n, bcast, outcome, CallerFrame>>
    BY <1>4 DEF CallPost
  <2>4. Posted' /\ Quiet'  BY <2>1, <2>2, <2>3 DEF Taken, Posted, Quiet
  <2>. QED  BY <1>1, <2>3, <2>4 DEF Stage
<1>5. CASE CallReturn
  <2>1. Quiet /\ (Free \/ Closing)  BY <1>5, CallerReturns
  <2>2. /\ flags' = {} /\ reqPc' = "idle"
        /\ UNCHANGED <<queue, resFree, evTrans, n, bcast, CallerFrame>>
    BY <1>5 DEF CallReturn
  <2>3. Returns' /\ Quiet'  BY <2>1, <2>2 DEF Returns, Quiet
  <2>4. (Free => Free') /\ (Closing => Closing')
    BY <2>2, <2>3 DEF Free, Closing
  <2>. QED  BY <1>1, <2>1, <2>2, <2>3, <2>4 DEF Stage
<1>6. CASE CallGiveUp
  <2>1. Lost  BY <1>6, CallerWaits
  <2>2. reqPc' = "idle" /\ UNCHANGED <<queue, flags, resFree, evTrans, n, bcast, CallerFrame>>
    BY <1>6 DEF CallGiveUp
  <2>3. Lost'  BY <2>1, <2>2 DEF Lost
  <2>. QED  BY <1>1, <2>2, <2>3 DEF Stage
<1>. QED  BY <1>2, <1>3, <1>4, <1>5, <1>6 DEF Call

\* The nominal case: frames come before the response timeout and one per request,
\* the timeout is below 3000 ms, and the master is not stopped.
Nominal == ~Race /\ ~LongTimeout /\ MaxStops = 0

LEMMA InitOne == Init => OneInv
<1> SUFFICES ASSUME Init PROVE OneInv  OBVIOUS
<1>1. TypeOK  BY InitType
<1>2. Boot /\ Quiet  BY DEF Init, Boot, Quiet
<1>. QED  BY <1>1, <1>2 DEF Init, OneInv, Stage

LEMMA NextOne == Nominal => (OneInv /\ [Next]_vars => OneInv')
<1> SUFFICES ASSUME Nominal, OneInv, [Next]_vars PROVE OneInv'  OBVIOUS
<1>1. TypeOK'  BY NextType DEF OneInv
<1>2. ASSUME Start \/ Stop PROVE FALSE
  <2>1. enabled /\ TypeOK  BY DEF OneInv
  <2>2. wire.stops \in 0..MaxStops /\ MaxStops = 0  BY <2>1 DEF TypeOK, Nominal
  <2>3. ~(wire.stops < MaxStops)  BY <2>2
  <2>. QED  BY <1>2, <2>1, <2>3 DEF Start, Stop
<1>3. CASE Next
  BY <1>1, <1>2, <1>3, PollStage, TimerStage, FrameStage, CallStage DEF Next, OneInv, Nominal
<1>4. CASE UNCHANGED vars
  <2>1. UNCHANGED Staged /\ UNCHANGED <<enabled, armed, mode, cb, cbMode>>
    BY <1>4 DEF vars, core, timer, caller, Staged
  <2>2. (Quiet => Quiet') /\ (Timed => Timed')
    BY <2>1 DEF Quiet, Timed, Staged
  <2>3. Sent => Timed  BY DEF Sent
  <2>4. Stage'  BY <2>1, <2>2, <2>3, StageKept DEF Stage, OneInv
  <2>. QED  BY <1>1, <2>1, <2>4 DEF Staged, OneInv
<1>. QED  BY <1>3, <1>4

\* The only step that executes a function executes the one of the request whose
\* caller waits.
LEMMA OwnBuffer ==
  ASSUME OneInv, [Next]_vars
  PROVE  done' # done => reqPc = "wait" /\ done' = done \cup {n}
<1> SUFFICES ASSUME done' # done PROVE reqPc = "wait" /\ done' = done \cup {n}
  OBVIOUS
<1>1. PollExecuteOk
  BY DEF Next, vars, Poll, PollEvent, PollEnter, PollIdle, PollReady, PollTransmitSent,
         PollTransmitFailed, PollSent, PollReceived, PollExecuteExpired, PollExecuteException,
         PollExecuteDone, PollError, PollErrorEnd, TimerAlarm, TimerCallback, TimerRead,
         TimerStop, TimerSetErr, TimerPost, TimerFrame, UartAnswer, UartBad, UartFrame,
         Call, CallTake, CallBusy, CallPost, CallReturn, CallGiveUp, CallerFrame, Start, Stop
<1>2. Executing  BY <1>1, HeadTells DEF OneInv, PollExecuteOk, Get
<1>. QED  BY <1>1, <1>2 DEF PollExecuteOk, Executed, Executing, Waiting

\* In the nominal case the function of a request is executed, and its data
\* written, only while the caller of this very request waits
\* (mbc_serial_master.c:216-217, mb_master.c:709-732): never into the buffer of a
\* caller that has gone or of a later one.
THEOREM OwnBufferWritten == Nominal => (Spec => WritesOwnBuffer)
<1> SUFFICES ASSUME Nominal PROVE Spec => WritesOwnBuffer  OBVIOUS
<1>1. OneInv /\ [Next]_vars => OneInv'  BY NextOne
<1>2. OneInv /\ [Next]_vars => [done' # done => reqPc = "wait" /\ done' = done \cup {n}]_vars
  BY OwnBuffer
<1>. QED  BY <1>1, <1>2, InitOne, PTL DEF Spec, WritesOwnBuffer

-------------------------------------------------------------------------------
(* What the caller sees, step by step.                                     *)

\* What the outcome of one flag is.
LEMMA ResultOf ==
  ASSUME NEW e \in ErrTypes
  PROVE  /\ e = "OK" => Result({e}) = "ENOERR"
         /\ e # "OK" => Result({e}) \in {"ETIMEDOUT", "ERECVDATA", "EILLFUNC"}
BY DEF Result, ErrTypes

LEMMA ReplyStep ==
  ASSUME OneInv, [Next]_vars, Nominal
  PROVE  [Reply!Next]_(Reply!vars)
<1>1. TypeOK /\ Stage /\ enabled /\ done \subseteq 1..n /\ n \in Nat
  BY MasterAssumption DEF OneInv, TypeOK, MasterAssumption
\* A step that touches neither the caller nor what has been executed.
<1>2. ASSUME UNCHANGED <<reqPc, n, done, outcome>> PROVE UNCHANGED Reply!vars
  BY <1>2 DEF Reply!vars
<1>3. CASE Poll
  <2>1. UNCHANGED <<reqPc, n, outcome>>
    BY <1>3 DEF Poll, PollEvent, PollEnter, PollIdle, PollReady, PollTransmitSent,
           PollTransmitFailed, PollSent, PollReceived, PollExecuteExpired,
           PollExecuteException, PollExecuteOk, PollExecuteDone, PollError, PollErrorEnd,
           PollFrame, caller
  <2>2. CASE PollExecuteOk
    <3>1. Executing  BY <1>1, <2>2, HeadTells DEF PollExecuteOk, Get
    <3>2. Executed = n /\ n # 0 /\ n \notin done /\ reqPc = "wait"
      BY <3>1 DEF Executed, Executing, Waiting
    <3>3. done' = done \cup {n}  BY <2>2, <3>2 DEF PollExecuteOk
    <3>4. Reply!Serve  BY <2>1, <3>2, <3>3 DEF Reply!Serve
    <3>. QED  BY <3>4 DEF Reply!Next
  <2>3. CASE ~PollExecuteOk
    <3>1. done' = done
      BY <1>3, <2>3 DEF Poll, PollEvent, PollEnter, PollIdle, PollReady, PollTransmitSent,
           PollTransmitFailed, PollSent, PollReceived, PollExecuteExpired,
           PollExecuteException, PollExecuteDone, PollError, PollErrorEnd
    <3>. QED  BY <1>2, <2>1, <3>1
  <2>. QED  BY <2>2, <2>3
<1>4. CASE TimerAlarm \/ TimerCallback
  <2>1. UNCHANGED <<reqPc, n, done, outcome>>
    BY <1>4 DEF TimerAlarm, TimerCallback, TimerRead, TimerStop, TimerSetErr, TimerPost,
                TimerFrame, caller
  <2>. QED  BY <1>2, <2>1
<1>5. CASE (\E k \in 1..MaxReq : UartAnswer(k)) \/ UartBad
  <2>1. UNCHANGED <<reqPc, n, done, outcome>>
    BY <1>5 DEF UartAnswer, UartBad, UartFrame, caller
  <2>. QED  BY <1>2, <2>1
<1>6. CASE CallTake
  <2>1. /\ reqPc = "idle" /\ reqPc' = "post" /\ n' = n + 1 /\ outcome' = "none"
        /\ done' = done
    BY <1>6 DEF CallTake, CallerFrame
  <2>2. n' \notin done'  BY <1>1, <2>1
  <2>3. Reply!Issue  BY <2>1, <2>2 DEF Reply!Issue
  <2>. QED  BY <2>3 DEF Reply!Next
<1>7. CASE CallBusy
  <2>1. /\ reqPc = "idle" /\ outcome' = "EBUSY" /\ UNCHANGED <<reqPc, n, done>>
    BY <1>7 DEF CallBusy, CallerFrame
  <2>2. Reply!Refuse  BY <2>1 DEF Reply!Refuse
  <2>. QED  BY <2>2 DEF Reply!Next
<1>8. CASE CallPost
  <2>1. /\ reqPc = "post" /\ reqPc' = "wait" /\ UNCHANGED <<n, done, outcome>>
    BY <1>8 DEF CallPost, CallerFrame
  <2>. QED  BY <2>1 DEF Reply!vars
<1>9. CASE CallReturn
  <2>1. PICK e \in ErrTypes : Answered(e)  BY <1>9, CallerReturns
  <2>2. /\ reqPc = "wait" /\ reqPc' = "idle" /\ outcome' = Result({e})
        /\ UNCHANGED <<n, done>>
    BY <1>9, <2>1 DEF CallReturn, CallerFrame, Answered
  <2>3. CASE e = "OK"
    <3>1. n \in done /\ n # 0  BY <2>1, <2>3 DEF Answered
    <3>2. outcome' = "ENOERR"  BY <2>2, <2>3, ResultOf
    <3>3. Reply!Succeed  BY <2>2, <3>1, <3>2 DEF Reply!Succeed
    <3>. QED  BY <3>3 DEF Reply!Next
  <2>4. CASE e # "OK"
    <3>1. n \notin done  BY <2>1, <2>4 DEF Answered
    <3>2. outcome' \in Reply!Errors  BY <2>2, <2>4, ResultOf DEF Reply!Errors
    <3>3. Reply!Fail  BY <2>2, <3>1, <3>2 DEF Reply!Fail
    <3>. QED  BY <3>3 DEF Reply!Next
  <2>. QED  BY <2>3, <2>4
<1>10. CASE CallGiveUp
  <2>1. Lost  BY <1>10, CallerWaits DEF Nominal
  <2>2. /\ reqPc = "wait" /\ reqPc' = "idle" /\ outcome' = "ETIMEDOUT"
        /\ UNCHANGED <<n, done>> /\ n \notin done
    BY <1>10, <2>1 DEF CallGiveUp, CallerFrame, Lost
  <2>3. Reply!Fail  BY <2>2 DEF Reply!Fail, Reply!Errors
  <2>. QED  BY <2>3 DEF Reply!Next
<1>11. ASSUME Start \/ Stop PROVE FALSE
  <2>1. wire.stops \in 0..MaxStops /\ MaxStops = 0  BY <1>1 DEF TypeOK, Nominal
  <2>2. ~(wire.stops < MaxStops)  BY <2>1
  <2>. QED  BY <1>1, <1>11, <2>2 DEF Start, Stop
<1>12. CASE UNCHANGED vars
  BY <1>2, <1>12 DEF vars, caller
<1>. QED
  BY <1>3, <1>4, <1>5, <1>6, <1>7, <1>8, <1>9, <1>10, <1>11, <1>12 DEF Next, Call

\* In the nominal case a call returns once per request, with ESP_OK if and only
\* if the function of this very request was executed, and with an error only if
\* it was not (esp_modbus_master.h:286-303, port_event.c:163-217).
THEOREM ReplyImplemented == Nominal => (Spec => ImplementsReply)
<1> SUFFICES ASSUME Nominal PROVE Spec => ImplementsReply  OBVIOUS
<1>1. Init => Reply!Init  BY DEF Init, Reply!Init
<1>2. OneInv /\ [Next]_vars => OneInv'  BY NextOne
<1>3. OneInv /\ [Next]_vars => [Reply!Next]_(Reply!vars)  BY ReplyStep
<1>. QED  BY <1>1, <1>2, <1>3, InitOne, PTL DEF Spec, ImplementsReply, Reply!Spec

LEMMA OkStep ==
  ASSUME OneInv, OkIsOwn, [Next]_vars, Nominal
  PROVE  OkIsOwn'
<1>1. [Reply!Next]_(Reply!vars)  BY ReplyStep
<1>2. done \subseteq done'
  <2>1. done' # done => done' = done \cup {n}  BY OwnBuffer
  <2>. QED  BY <2>1
<1>3. n' = n \/ reqPc' = "post"
  BY DEF Next, vars, Poll, PollEvent, PollEnter, PollIdle, PollReady, PollTransmitSent,
         PollTransmitFailed, PollSent, PollReceived, PollExecuteExpired, PollExecuteException,
         PollExecuteOk, PollExecuteDone, PollError, PollErrorEnd, PollFrame, TimerAlarm,
         TimerCallback, TimerRead, TimerStop, TimerSetErr, TimerPost, TimerFrame, UartAnswer,
         UartBad, UartFrame, Call, CallTake, CallBusy, CallPost, CallReturn, CallGiveUp, Start,
         Stop, caller
<1> SUFFICES ASSUME (reqPc = "idle")', outcome' = "ENOERR" PROVE n' \in done'
  BY DEF OkIsOwn
<1>4. CASE Reply!Succeed
  BY <1>2, <1>3, <1>4 DEF Reply!Succeed
<1>5. CASE Reply!Issue \/ Reply!Serve \/ Reply!Fail \/ Reply!Refuse
  BY <1>5 DEF Reply!Issue, Reply!Serve, Reply!Fail, Reply!Refuse, Reply!Errors
<1>6. CASE UNCHANGED Reply!vars
  <2>1. reqPc = "idle" /\ outcome = "ENOERR"  BY <1>6 DEF Reply!vars
  <2>. QED  BY <1>2, <1>3, <2>1 DEF OkIsOwn
<1>. QED  BY <1>1, <1>4, <1>5, <1>6 DEF Reply!Next

\* In the nominal case ESP_OK means that the request was successful
\* (esp_modbus_master.h:296).  The code does not keep this promise when the caller
\* gives up before the response timeout (LongTimeout).
THEOREM OkAlwaysOwn == Nominal => (Spec => []OkIsOwn)
<1> SUFFICES ASSUME Nominal PROVE Spec => []OkIsOwn  OBVIOUS
<1>1. Init => OneInv /\ OkIsOwn  BY InitOne DEF Init, OkIsOwn
<1>2. OneInv /\ OkIsOwn /\ [Next]_vars => OneInv' /\ OkIsOwn'  BY NextOne, OkStep
<1>. QED  BY <1>1, <1>2, PTL DEF Spec
===============================================================================
