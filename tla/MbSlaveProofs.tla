----------------------------- MODULE MbSlaveProofs -----------------------------
(***************************************************************************)
(* Theorems about MbSlave for any number of frames and faults and any      *)
(* length of the event queue: its types; that a failed transmission costs  *)
(* no more than one later frame; that an error is accounted for as long as *)
(* no event is lost; and that a prompt slave serves every frame once.      *)
(***************************************************************************)
EXTENDS MbSlave, SequenceTheorems, TLAPS

EventSet == [ev: Events, frame: Frames]
Wires == [n: 0..MaxReq, faults: 0..MaxFaults, failed: Nat, lost: Nat]

-------------------------------------------------------------------------------
(* The event queue.                                                        *)

LEMMA NoFrameType == NoFrame \in Frames
BY SlaveAssumption DEF SlaveAssumption, NoFrame, Frames, Addresses

LEMMA EventType == ASSUME NEW e \in Events PROVE Event(e) \in EventSet
BY NoFrameType DEF Event, EventSet

\* An event posted by the poll task leaves a queue that is not too long.
LEMMA PollPostType ==
  ASSUME NEW q \in Seq(EventSet), NEW e \in Events
  PROVE  PollPost(q, e) \in Seq(EventSet) /\ Len(PollPost(q, e)) <= QueueLen
<1>1. Event(e) \in EventSet
  BY EventType
<1>2. QueueLen \in Nat \ {0} /\ Len(q) \in Nat
  BY SlaveAssumption DEF SlaveAssumption
<1>3. CASE Len(q) < QueueLen
  <2>1. PollPost(q, e) = Append(q, Event(e))
    BY <1>3 DEF PollPost
  <2>2. Append(q, Event(e)) \in Seq(EventSet) /\ Len(Append(q, Event(e))) = Len(q) + 1
    BY <1>1
  <2> QED
    BY <1>2, <1>3, <2>1, <2>2
<1>4. CASE ~(Len(q) < QueueLen)
  BY <1>2, <1>4 DEF PollPost
<1> QED
  BY <1>3, <1>4

LEMMA PostType ==
  ASSUME NEW q \in Seq(EventSet), NEW e \in EventSet, Post(q, e)
  PROVE  queue' \in Seq(EventSet) /\ Len(queue') <= QueueLen
<1>1. QueueLen \in Nat \ {0} /\ Len(q) \in Nat
  BY SlaveAssumption DEF SlaveAssumption
<1>2. CASE Len(q) < QueueLen /\ queue' = Append(q, e)
  <2>1. Append(q, e) \in Seq(EventSet) /\ Len(Append(q, e)) = Len(q) + 1
    OBVIOUS
  <2> QED
    BY <1>1, <1>2, <2>1
<1>3. CASE Len(q) >= QueueLen /\ queue' = <<>>
  BY <1>1, <1>3
<1> QED
  BY <1>2, <1>3 DEF Post

LEMMA FlushedType ==
  ASSUME NEW q \in Seq(EventSet)
  PROVE  Flushed(q) \in Seq(EventSet) /\ Len(Flushed(q)) = Len(q)
<1>1. /\ Len(q) \in Nat /\ DOMAIN q = 1..Len(q)
      /\ \A i \in 1..Len(q) : q[i] \in EventSet
  OBVIOUS
<1>2. ASSUME NEW i \in 1..Len(q)
      PROVE  [q[i] EXCEPT !.frame = NoFrame] \in EventSet
  BY <1>1, NoFrameType DEF EventSet
<1>3. Flushed(q) \in [1..Len(q) -> EventSet]
  BY <1>1, <1>2 DEF Flushed
<1> QED
  BY <1>1, <1>3

LEMMA TailType ==
  ASSUME NEW q \in Seq(EventSet), q # <<>>, Len(q) <= QueueLen
  PROVE  /\ Head(q) \in EventSet
         /\ Tail(q) \in Seq(EventSet)
         /\ Len(Tail(q)) <= QueueLen
<1>1. QueueLen \in Nat \ {0}
  BY SlaveAssumption DEF SlaveAssumption
<1>2. Head(q) \in EventSet /\ Tail(q) \in Seq(EventSet) /\ Len(Tail(q)) = Len(q) - 1
  OBVIOUS
<1>3. Len(q) \in Nat
  OBVIOUS
<1> QED
  BY <1>1, <1>2, <1>3

-------------------------------------------------------------------------------
(* Types.                                                                  *)

QueueOK == queue \in Seq(EventSet) /\ Len(queue) <= QueueLen

LEMMA InitType == Init => TypeOK
<1> SUFFICES ASSUME Init PROVE TypeOK
  OBVIOUS
<1>1. MaxReq \in Nat /\ MaxFaults \in Nat /\ QueueLen \in Nat \ {0}
  BY SlaveAssumption DEF SlaveAssumption
<1>2. Event("READY") \in EventSet
  BY EventType DEF Events
<1>3. queue \in Seq(EventSet) /\ Len(queue) = 1
  BY <1>2 DEF Init
<1>4. buf \in Frames /\ rcvAddr \in Addresses
  BY NoFrameType DEF Init, Addresses
<1>5. wire \in Wires
  BY <1>1 DEF Init, Wires
<1>6. ran \in Seq(Frames) /\ answered \in Seq(Frames)
  BY DEF Init
<1> QED
  BY <1>1, <1>3, <1>4, <1>5, <1>6 DEF Init, TypeOK, EventSet, Wires

\* A step of the poll task leaves a queue of events.
LEMMA PollQueue ==
  ASSUME TypeOK, Poll
  PROVE  QueueOK'
<1>1. queue \in Seq(EventSet) /\ Len(queue) <= QueueLen
  BY DEF TypeOK, EventSet
<1>2. ASSUME queue # <<>>
      PROVE  Tail(queue) \in Seq(EventSet) /\ Len(Tail(queue)) <= QueueLen
  BY <1>1, <1>2, TailType
<1>3. ASSUME queue # <<>>
      PROVE  \A e \in Events : /\ PollPost(Tail(queue), e) \in Seq(EventSet)
                               /\ Len(PollPost(Tail(queue), e)) <= QueueLen
  BY <1>2, <1>3, PollPostType
<1>4. \A e \in Events : /\ PollPost(queue, e) \in Seq(EventSet)
                        /\ Len(PollPost(queue, e)) <= QueueLen
  BY <1>1, PollPostType
<1>5. Flushed(queue) \in Seq(EventSet)
  BY <1>1, FlushedType
<1>6. \A e \in Events : /\ PollPost(Flushed(queue), e) \in Seq(EventSet)
                        /\ Len(PollPost(Flushed(queue), e)) <= QueueLen
  BY <1>5, PollPostType
<1>7. {"EXECUTE", "SENT", "ERROR"} \subseteq Events
  BY DEF Events
<1>8. CASE UNCHANGED queue
  BY <1>1, <1>8 DEF QueueOK
<1>9. CASE queue # <<>> /\ queue' = Tail(queue)
  BY <1>2, <1>9 DEF QueueOK
<1>10. ASSUME queue # <<>>, NEW e \in Events, queue' = PollPost(Tail(queue), e)
       PROVE  QueueOK'
  BY <1>3, <1>10 DEF QueueOK
<1>11. ASSUME NEW e \in Events, queue' = PollPost(queue, e)
       PROVE  QueueOK'
  BY <1>4, <1>11 DEF QueueOK
<1>12. ASSUME NEW e \in Events, queue' = PollPost(Flushed(queue), e)
       PROVE  QueueOK'
  BY <1>6, <1>12 DEF QueueOK
<1>13. CASE PollEnter \/ PollIdle
  BY <1>8, <1>13 DEF PollEnter, PollIdle
<1>14. CASE PollReady \/ Execute \/ PollError
  BY <1>9, <1>14 DEF PollReady, Execute, PollError, Get
<1>15. CASE PollSent
  BY <1>7, <1>9, <1>10, <1>15 DEF PollSent, Get
<1>16. CASE ReceiveBusy
  BY <1>7, <1>10, <1>16 DEF ReceiveBusy, Reject, Get
<1>17. CASE ReceiveRead
  BY <1>7, <1>9, <1>10, <1>17 DEF ReceiveRead, Accept, Reject, Get
<1>18. CASE ReceiveStale
  BY <1>7, <1>9, <1>10, <1>18 DEF ReceiveStale, Accept, Reject, Get
<1>19. CASE SendDone \/ SendFailed
  BY <1>7, <1>12, <1>19 DEF SendDone, SendFailed
<1>20. CASE SendNothing \/ SendBusy
  BY <1>7, <1>11, <1>20 DEF SendNothing, SendBusy
<1> QED
  BY <1>13, <1>14, <1>15, <1>16, <1>17, <1>18, <1>19, <1>20 DEF Poll, PollEvent, Send

LEMMA PollType ==
  ASSUME TypeOK, Poll
  PROVE  TypeOK'
<1>1. QueueOK'
  BY PollQueue
<1>2. MaxReq \in Nat /\ MaxFaults \in Nat
  BY SlaveAssumption DEF SlaveAssumption
<1>3. ASSUME queue # <<>> PROVE Head(queue).frame \in Frames
  <2>1. Head(queue) \in EventSet
    BY <1>3, TailType DEF TypeOK, EventSet
  <2> QED
    BY <2>1 DEF EventSet
<1>4. ASSUME NEW f \in Frames PROVE f.to \in Addresses
  BY DEF Frames
<1>5. [buf EXCEPT !.resp = TRUE] \in Frames /\ buf \in Frames
  BY DEF TypeOK, Frames
<1>6. Append(ran, buf) \in Seq(Frames) /\ Append(answered, buf) \in Seq(Frames)
  BY DEF TypeOK
<1>7. wire' \in Wires
  <2>1. wire \in Wires
    BY DEF TypeOK, Wires
  <2>2. CASE UNCHANGED wire
    BY <2>1, <2>2
  <2>3. CASE wire' = [wire EXCEPT !.lost = @ + 1]
    BY <2>1, <2>3 DEF Wires
  <2>4. CASE wire.faults < MaxFaults /\ wire' = [Fault(wire) EXCEPT !.failed = @ + 1]
    <3>1. Fault(wire) \in Wires
      BY <1>2, <2>1, <2>4 DEF Wires, Fault
    <3> QED
      BY <2>4, <3>1 DEF Wires
  <2> QED
    BY <2>2, <2>3, <2>4
    DEF Poll, PollEvent, Send, PollEnter, PollIdle, PollReady, ReceiveBusy, ReceiveRead,
        ReceiveStale, Execute, SendDone, SendNothing, SendFailed, SendBusy, PollSent, PollError
<1>8. /\ buf' \in Frames /\ rcvAddr' \in Addresses
      /\ ran' \in Seq(Frames) /\ answered' \in Seq(Frames)
  <2>1. ran \in Seq(Frames) /\ answered \in Seq(Frames) /\ rcvAddr \in Addresses
    BY DEF TypeOK
  <2> QED
    BY <1>3, <1>4, <1>5, <1>6, <2>1, NoFrameType
    DEF Poll, PollEvent, Send, PollEnter, PollIdle, PollReady, ReceiveBusy, ReceiveRead,
        ReceiveStale, Execute, SendDone, SendNothing, SendFailed, SendBusy, PollSent, PollError,
        Accept, Reject, Get
<1>9. /\ enabled' \in BOOLEAN /\ busFree' \in BOOLEAN
      /\ errType' \in {"INIT", "OK", "TIMEOUT", "RECV"}
  <2>1. enabled' = enabled /\ (busFree' = busFree \/ busFree' = TRUE \/ busFree' = FALSE)
    BY DEF Poll, PollEvent, Send, PollEnter, PollIdle, PollReady, ReceiveBusy, ReceiveRead,
           ReceiveStale, Execute, SendDone, SendNothing, SendFailed, SendBusy, PollSent, PollError
  <2>2. errType' \in {errType, "INIT", "OK", "TIMEOUT", "RECV"}
    BY DEF Poll, PollEvent, Send, PollEnter, PollIdle, PollReady, ReceiveBusy, ReceiveRead,
           ReceiveStale, Execute, SendDone, SendNothing, SendFailed, SendBusy, SendError,
           PollSent, PollError, Accept, Reject
  <2> QED
    BY <2>1, <2>2 DEF TypeOK
<1>10. asked' \in 0..MaxReq
  <2>1. asked' = asked \/ asked' = 0
    BY DEF Poll, PollEvent, Send, PollEnter, PollIdle, PollReady, ReceiveBusy, ReceiveRead,
           ReceiveStale, Execute, SendDone, SendNothing, SendFailed, SendBusy, PollSent, PollError
  <2> QED
    BY <1>2, <2>1 DEF TypeOK
<1>11. pollPc' \in {"idle", "get", "send"}
  <2>1. Loop \in {"idle", "get", "send"}
    BY DEF Loop
  <2> QED
    BY <2>1
    DEF Poll, PollEvent, Send, PollEnter, PollIdle, PollReady, ReceiveBusy, ReceiveRead,
        ReceiveStale, Execute, SendDone, SendNothing, SendFailed, SendBusy, SendError, PollSent,
        PollError
<1> QED
  BY <1>1, <1>7, <1>8, <1>9, <1>10, <1>11 DEF TypeOK, QueueOK, EventSet, Wires

\* The UART task and the controller keep the types.
LEMMA OthersType ==
  ASSUME TypeOK,
         (\E to \in Addresses : UartFrame(to)) \/ UartBad \/ UartFlush \/ Start \/ Stop
  PROVE  TypeOK'
<1>1. queue \in Seq(EventSet) /\ Len(queue) <= QueueLen /\ wire \in Wires
  BY DEF TypeOK, EventSet, Wires
<1>2. MaxReq \in Nat /\ MaxFaults \in Nat
  BY SlaveAssumption DEF SlaveAssumption
<1>3. Event("RECEIVED") \in EventSet /\ Event("READY") \in EventSet
  BY EventType DEF Events
<1>4. ASSUME wire.faults < MaxFaults PROVE Fault(wire) \in Wires
  BY <1>1, <1>2, <1>4 DEF Wires, Fault
<1>5. ASSUME NEW to \in Addresses, UartFrame(to) PROVE TypeOK'
  <2> DEFINE f == [id |-> wire.n + 1, to |-> to, resp |-> FALSE]
             e == [ev |-> "RECEIVED", frame |-> f]
  <2>1. wire.n \in 0..MaxReq /\ wire.n + 1 <= MaxReq
    BY <1>1, <1>5 DEF UartFrame, Wires
  <2>2. wire.n + 1 \in 0..MaxReq
    BY <1>2, <2>1
  <2>3. e \in EventSet
    BY <2>2 DEF EventSet, Frames, Events
  <2>4. Post(queue, e)
    BY <1>5 DEF UartFrame
  <2>5. queue' \in Seq(EventSet) /\ Len(queue') <= QueueLen
    BY <1>1, <2>3, <2>4, PostType
  <2>6. wire' \in Wires /\ asked' \in 0..MaxReq
    BY <1>1, <1>2, <1>5, <2>2 DEF UartFrame, Wires
  <2> QED
    BY <1>5, <2>5, <2>6 DEF TypeOK, UartFrame, EventSet, Wires
<1>6. CASE UartBad
  <2>1. queue' \in Seq(EventSet) /\ Len(queue') <= QueueLen
    BY <1>1, <1>3, <1>6, PostType DEF UartBad
  <2> QED
    BY <1>2, <1>4, <1>6, <2>1 DEF TypeOK, UartBad, EventSet, Wires
<1>7. CASE UartFlush
  <2>1. queue' \in Seq(EventSet) /\ Len(queue') <= QueueLen
    BY <1>1, <1>7, FlushedType DEF UartFlush
  <2> QED
    BY <1>2, <1>4, <1>7, <2>1 DEF TypeOK, UartFlush, EventSet, Wires
<1>8. CASE Start
  <2>1. queue' \in Seq(EventSet) /\ Len(queue') <= QueueLen
    BY <1>1, <1>3, <1>8, PostType DEF Start
  <2> QED
    BY <1>8, <2>1 DEF TypeOK, Start, EventSet
<1>9. CASE Stop
  <2>1. pollPc' \in {"idle", "get", "send"}
    BY <1>9 DEF Stop, TypeOK
  <2>2. wire' \in Wires
    BY <1>4, <1>9 DEF Stop
  <2>3. enabled' \in BOOLEAN
    BY <1>9 DEF Stop
  <2>4. asked' \in 0..MaxReq
    BY <1>2, <1>9 DEF Stop
  <2>5. UNCHANGED <<queue, errType, busFree, buf, rcvAddr, ran, answered>>
    BY <1>9 DEF Stop
  <2> QED
    BY <2>1, <2>2, <2>3, <2>4, <2>5 DEF TypeOK, Wires
<1> QED
  BY <1>5, <1>6, <1>7, <1>8, <1>9

LEMMA NextType == TypeOK /\ [Next]_vars => TypeOK'
<1>1. ASSUME TypeOK, UNCHANGED vars PROVE TypeOK'
  BY <1>1 DEF TypeOK, vars
<1> QED
  BY <1>1, PollType, OthersType DEF Next

\* The variables keep their types, and the event queue its length, for any number
\* of frames and faults.
THEOREM TypeCorrect == Spec => []TypeOK
BY InitType, NextType, PTL DEF Spec

-------------------------------------------------------------------------------
(* The bus semaphore.                                                      *)

LEMMA NextHeals ==
  ASSUME TypeOK, LeakHeals, [Next]_vars
  PROVE  LeakHeals'
<1>1. wire \in Wires /\ busFree \in BOOLEAN
  BY DEF TypeOK, Wires
<1>2. wire.lost \in Nat /\ wire.failed \in Nat
  BY <1>1 DEF Wires
<1>3. CASE UNCHANGED <<busFree, wire.lost, wire.failed>>
  BY <1>3 DEF LeakHeals
<1>4. CASE /\ ~busFree /\ busFree' = TRUE
           /\ wire'.lost = wire.lost + 1 /\ wire'.failed = wire.failed
  BY <1>2, <1>4 DEF LeakHeals
<1>5. CASE /\ busFree /\ busFree' = FALSE
           /\ wire'.lost = wire.lost /\ wire'.failed = wire.failed + 1
  BY <1>2, <1>5 DEF LeakHeals
<1>6. CASE /\ busFree' = TRUE /\ UNCHANGED wire
  BY <1>1, <1>2, <1>6 DEF LeakHeals
<1>7. CASE ReceiveBusy \/ SendBusy
  BY <1>1, <1>4, <1>7 DEF ReceiveBusy, SendBusy, Wires
<1>8. CASE SendFailed
  BY <1>1, <1>5, <1>8 DEF SendFailed, Fault, Wires
<1>9. CASE Start
  BY <1>6, <1>9 DEF Start
<1>10. CASE \/ PollEnter \/ PollIdle \/ PollReady \/ ReceiveRead \/ ReceiveStale \/ Execute
            \/ PollSent \/ PollError \/ SendDone \/ SendNothing
  BY <1>3, <1>10 DEF PollEnter, PollIdle, PollReady, ReceiveRead, ReceiveStale, Execute,
                     PollSent, PollError, SendDone, SendNothing
<1>11. CASE (\E to \in Addresses : UartFrame(to)) \/ UartBad \/ UartFlush \/ Stop
  BY <1>1, <1>3, <1>11 DEF UartFrame, UartBad, UartFlush, Stop, Fault, Wires
<1>12. CASE UNCHANGED vars
  BY <1>3, <1>12 DEF vars
<1> QED
  BY <1>7, <1>8, <1>9, <1>10, <1>11, <1>12 DEF Next, Poll, PollEvent, Send

\* A failed transmission costs at most one later frame or response: the bus
\* semaphore that it keeps is given back by the next attempt to take it.
THEOREM LeakAlwaysHeals == Spec => []LeakHeals
<1>1. Init => LeakHeals
  BY DEF Init, LeakHeals
<1>2. TypeOK /\ LeakHeals /\ [Next]_vars => LeakHeals'
  BY NextHeals
<1> QED
  BY <1>1, <1>2, TypeCorrect, PTL DEF Spec

-------------------------------------------------------------------------------
(* The error type.                                                         *)

\* No event is lost: a post that finds the event queue full empties it.
Fits == Len(queue) >= QueueLen => queue' # <<>>

\* An event that is queued stays queued when another is posted behind it, ...
LEMMA PollPostHas ==
  ASSUME NEW q \in Seq(EventSet), NEW e \in Events, PollPost(q, e) # <<>>
  PROVE  /\ \A i \in DOMAIN q : i \in DOMAIN PollPost(q, e) /\ PollPost(q, e)[i] = q[i]
         /\ \E i \in DOMAIN PollPost(q, e) : PollPost(q, e)[i].ev = e
<1>1. PollPost(q, e) = Append(q, Event(e)) /\ Event(e) \in EventSet /\ Event(e).ev = e
  BY EventType DEF PollPost, Event
<1> QED
  BY <1>1

\* ... and when one of another kind is taken off.
LEMMA TailHas ==
  ASSUME NEW q \in Seq(EventSet), q # <<>>, NEW e, Head(q).ev # e,
         \E i \in DOMAIN q : q[i].ev = e
  PROVE  \E i \in DOMAIN Tail(q) : Tail(q)[i].ev = e
<1>1. PICK i \in DOMAIN q : q[i].ev = e
  OBVIOUS
<1>2. i \in 2..Len(q)
  BY <1>1
<1>3. i - 1 \in DOMAIN Tail(q) /\ Tail(q)[i - 1] = q[i]
  BY <1>2
<1> QED
  BY <1>1, <1>3

LEMMA FlushedHas ==
  ASSUME NEW q \in Seq(EventSet)
  PROVE  /\ DOMAIN Flushed(q) = DOMAIN q
         /\ \A i \in DOMAIN q : Flushed(q)[i].ev = q[i].ev
<1>1. \A i \in DOMAIN q : q[i] \in EventSet
  OBVIOUS
<1> QED
  BY <1>1 DEF Flushed, EventSet

\* What the poll task posts in place of an event it has taken always finds room.
LEMMA PollPostRoom ==
  ASSUME NEW q \in Seq(EventSet), q # <<>>, Len(q) <= QueueLen, NEW e \in Events
  PROVE  PollPost(Tail(q), e) # <<>>
<1>1. Tail(q) \in Seq(EventSet) /\ Len(Tail(q)) = Len(q) - 1 /\ Len(q) \in Nat
  OBVIOUS
<1>2. Len(Tail(q)) < QueueLen
  BY <1>1, SlaveAssumption DEF SlaveAssumption
<1>3. PollPost(Tail(q), e) = Append(Tail(q), Event(e))
  BY <1>2 DEF PollPost
<1>4. Event(e) \in EventSet
  BY EventType
<1> QED
  BY <1>1, <1>3, <1>4

LEMMA PollAccounted ==
  ASSUME TypeOK, ErrTypeAccounted, Fits, PollEvent \/ Send
  PROVE  ErrTypeAccounted'
<1>1. /\ queue \in Seq(EventSet) /\ Len(queue) <= QueueLen /\ Len(queue) \in Nat
      /\ {"EXECUTE", "SENT", "ERROR"} \subseteq Events
  BY DEF TypeOK, EventSet, Events
<1>2. QueueLen \in Nat \ {0}
  BY SlaveAssumption DEF SlaveAssumption
\* An event other than ERROR is taken, and perhaps another one posted.
<1>3. ASSUME queue # <<>>, Head(queue).ev # "ERROR", Queued("ERROR"),
             queue' = Tail(queue) \/ \E e \in Events : queue' = PollPost(Tail(queue), e)
      PROVE  Queued("ERROR")'
  <2>1. Tail(queue) \in Seq(EventSet)
    BY <1>1, <1>3
  <2>2. \E i \in DOMAIN Tail(queue) : Tail(queue)[i].ev = "ERROR"
    BY <1>1, <1>3, TailHas DEF Queued
  <2>3. ASSUME NEW e \in Events, queue' = PollPost(Tail(queue), e) PROVE Queued("ERROR")'
    <3>1. PollPost(Tail(queue), e) # <<>>
      BY <1>1, <1>3, PollPostRoom
    <3> QED
      BY <2>1, <2>2, <2>3, <3>1, PollPostHas DEF Queued
  <2> QED
    BY <1>3, <2>2, <2>3 DEF Queued
\* An ERROR event is posted in its place.
<1>4. ASSUME queue # <<>>, queue' = PollPost(Tail(queue), "ERROR") PROVE Queued("ERROR")'
  <2>1. Tail(queue) \in Seq(EventSet) /\ PollPost(Tail(queue), "ERROR") # <<>>
    BY <1>1, <1>4, PollPostRoom
  <2>2. \E i \in DOMAIN PollPost(Tail(queue), "ERROR") :
            PollPost(Tail(queue), "ERROR")[i].ev = "ERROR"
    <3>1. "ERROR" \in Events
      BY <1>1
    <3> QED
      BY <2>1, <3>1, PollPostHas
  <2> QED
    BY <1>4, <2>2 DEF Queued
\* The poll task posts behind what is queued.
<1>5. ASSUME NEW q \in Seq(EventSet), q = queue \/ q = Flushed(queue), NEW e \in Events,
             queue' = PollPost(q, e)
      PROVE  Queued(e)' /\ (Queued("ERROR") => Queued("ERROR")')
  <2>1. /\ Len(q) = Len(queue) /\ DOMAIN q = DOMAIN queue
        /\ \A i \in DOMAIN q : q[i].ev = queue[i].ev
    BY <1>1, <1>5, FlushedType, FlushedHas
  <2>2. PollPost(q, e) # <<>>
    <3>1. CASE Len(q) < QueueLen
      BY <1>5, <3>1, EventType DEF PollPost
    <3>2. CASE ~(Len(q) < QueueLen)
      BY <1>1, <1>2, <1>5, <2>1, <3>2 DEF Fits
    <3> QED
      BY <3>1, <3>2
  <2> QED
    BY <1>5, <2>1, <2>2, PollPostHas DEF Queued
<1>6. Flushed(queue) \in Seq(EventSet)
  BY <1>1, FlushedType
<1>7. CASE PollIdle
  BY <1>7 DEF PollIdle, ErrTypeAccounted, Queued
<1>8. CASE PollReady \/ Execute
  BY <1>3, <1>8 DEF PollReady, Execute, Get, ErrTypeAccounted
<1>9. CASE ReceiveBusy
  BY <1>4, <1>9 DEF ReceiveBusy, Reject, Get, ErrTypeAccounted
<1>10. CASE ReceiveRead
  BY <1>1, <1>3, <1>4, <1>10 DEF ReceiveRead, Accept, Reject, Get, ErrTypeAccounted
<1>11. CASE ReceiveStale
  BY <1>1, <1>3, <1>4, <1>11 DEF ReceiveStale, Accept, Reject, Get, ErrTypeAccounted
<1>12. CASE PollSent
  BY <1>3, <1>4, <1>12 DEF PollSent, Get, ErrTypeAccounted
<1>13. CASE PollError
  BY <1>13 DEF PollError, ErrTypeAccounted
<1>14. CASE SendDone
  BY <1>1, <1>5, <1>6, <1>14 DEF SendDone, ErrTypeAccounted
<1>15. CASE SendFailed
  BY <1>1, <1>5, <1>6, <1>15 DEF SendFailed, ErrTypeAccounted
<1>16. CASE SendNothing
  BY <1>1, <1>5, <1>16 DEF SendNothing, ErrTypeAccounted
<1>17. CASE SendBusy
  BY <1>1, <1>5, <1>17 DEF SendBusy, ErrTypeAccounted
<1> QED
  BY <1>7, <1>8, <1>9, <1>10, <1>11, <1>12, <1>13, <1>14, <1>15, <1>16, <1>17
  DEF PollEvent, Send

LEMMA OthersAccounted ==
  ASSUME TypeOK, ErrTypeAccounted, Fits,
         PollEnter \/ (\E to \in Addresses : UartFrame(to)) \/ UartBad \/ UartFlush
                   \/ Start \/ Stop
  PROVE  ErrTypeAccounted'
<1>1. queue \in Seq(EventSet) /\ Len(queue) \in Nat
  BY DEF TypeOK, EventSet
<1>2. ASSUME NEW e, Post(queue, e), UNCHANGED errType PROVE ErrTypeAccounted'
  <2>1. queue' = Append(queue, e)
    <3>1. CASE Len(queue) < QueueLen /\ queue' = Append(queue, e)
      BY <3>1
    <3>2. CASE Len(queue) >= QueueLen /\ queue' = <<>>
      BY <3>2 DEF Fits
    <3> QED
      BY <1>2, <3>1, <3>2 DEF Post
  <2>2. \A i \in DOMAIN queue : i \in DOMAIN queue' /\ queue'[i] = queue[i]
    BY <1>1, <2>1
  <2> QED
    BY <1>2, <2>2 DEF ErrTypeAccounted, Queued
<1>3. CASE UNCHANGED <<queue, errType>>
  BY <1>3 DEF ErrTypeAccounted, Queued
<1>4. CASE UartFlush
  BY <1>1, <1>4, FlushedHas DEF UartFlush, ErrTypeAccounted, Queued
<1> QED
  BY <1>2, <1>3, <1>4 DEF PollEnter, UartFrame, UartBad, Start, Stop

\* As long as no event is lost in the event queue, an error that is set has its
\* EV_ERROR_PROCESS queued, however frames, stops and failed transmissions come:
\* only an overflow of the queue can leave an error behind.
THEOREM ErrorsAccounted == Spec /\ [][Fits]_vars => []ErrTypeAccounted
<1>1. Init => ErrTypeAccounted
  BY DEF Init, ErrTypeAccounted
<1>2. TypeOK /\ ErrTypeAccounted /\ [Next]_vars /\ [Fits]_vars => ErrTypeAccounted'
  <2>1. CASE UNCHANGED vars
    BY <2>1 DEF vars, ErrTypeAccounted, Queued
  <2>2. ASSUME TypeOK, ErrTypeAccounted, Next, Fits PROVE ErrTypeAccounted'
    BY <2>2, PollAccounted, OthersAccounted DEF Next, Poll
  <2> QED
    BY <2>1, <2>2
<1> QED
  BY <1>1, <1>2, TypeCorrect, PTL DEF Spec

-------------------------------------------------------------------------------
(* A prompt slave serves every frame once.                                 *)

\* An event of a frame that is not executed yet.
InHand(e) == e.ev \in {"RECEIVED", "EXECUTE"}

\* There is at most one, and none while a response is being sent.
OneInHand == /\ \A i, j \in DOMAIN queue : InHand(queue[i]) /\ InHand(queue[j]) => i = j
             /\ pollPc = "send" => \A i \in DOMAIN queue : ~InHand(queue[i])

\* What was executed came over the wire; what is received is younger.
Younger(f) == f.id <= wire.n /\ \A j \in DOMAIN ran : ran[j].id < f.id

Received == \A i \in DOMAIN queue : queue[i].ev = "RECEIVED" =>
              /\ enabled
              /\ queue[i].frame # NoFrame =>
                   queue[i].frame.id # 0 /\ ~queue[i].frame.resp /\ Younger(queue[i].frame)

\* What is to be executed is in the buffer, and for this slave.
ToExecute == \A i \in DOMAIN queue : queue[i].ev = "EXECUTE" =>
               /\ buf.id # 0 /\ ~buf.resp /\ Younger(buf)
               /\ buf.to = rcvAddr /\ ForUs(buf)

\* What is to be sent is the response to the request executed last.
ToSend == pollPc = "send" =>
            /\ buf.to = "own"
            /\ \E j \in DOMAIN ran : ran[j].id = buf.id
            /\ \A j \in DOMAIN answered : answered[j].id < buf.id

RanCame == \A j \in DOMAIN ran : ran[j].id <= wire.n

QueueInv == OneInHand /\ Received /\ ToExecute

\* The inductive invariant.
PInv == QueueInv /\ ToSend /\ RanCame /\ ServesOnce

\* q holds no frames in hand but those of p, at d places further to the front, perhaps
\* without their data.
Shift(q, p, d) == \A i \in DOMAIN q : InHand(q[i]) =>
                    /\ i + d \in DOMAIN p
                    /\ q[i].ev = p[i + d].ev
                    /\ q[i].frame = p[i + d].frame \/ q[i].frame = NoFrame

LEMMA ShiftTail ==
  ASSUME NEW q \in Seq(EventSet), q # <<>>
  PROVE  Shift(Tail(q), q, 1)
<1>1. \A i \in DOMAIN Tail(q) : i + 1 \in DOMAIN q /\ Tail(q)[i] = q[i + 1]
  OBVIOUS
<1> QED
  BY <1>1 DEF Shift

LEMMA ShiftPollPost ==
  ASSUME NEW q \in Seq(EventSet), NEW e \in Events, e \notin {"RECEIVED", "EXECUTE"}
  PROVE  Shift(PollPost(q, e), q, 0)
<1>1. CASE PollPost(q, e) = <<>>
  BY <1>1 DEF Shift
<1>2. CASE PollPost(q, e) = Append(q, Event(e))
  <2>1. Event(e) \in EventSet /\ ~InHand(Event(e))
    BY EventType DEF Event, InHand
  <2>2. \A i \in DOMAIN Append(q, Event(e)) :
           (i \in DOMAIN q /\ Append(q, Event(e))[i] = q[i]) \/ Append(q, Event(e))[i] = Event(e)
    BY <2>1
  <2>3. \A i \in DOMAIN q : i + 0 = i
    OBVIOUS
  <2> QED
    BY <1>2, <2>1, <2>2, <2>3 DEF Shift
<1> QED
  BY <1>1, <1>2 DEF PollPost

LEMMA ShiftFlushed ==
  ASSUME NEW q \in Seq(EventSet)
  PROVE  Shift(Flushed(q), q, 0)
<1>1. \A i \in DOMAIN Flushed(q) : i + 0 = i /\ i \in DOMAIN q /\ q[i] \in EventSet
  BY DEF Flushed
<1>2. \A i \in DOMAIN q : Flushed(q)[i] = [q[i] EXCEPT !.frame = NoFrame]
  BY DEF Flushed
<1>3. \A i \in DOMAIN Flushed(q) : Flushed(q)[i].ev = q[i].ev /\ Flushed(q)[i].frame = NoFrame
  BY <1>1, <1>2 DEF EventSet
<1> QED
  BY <1>1, <1>3 DEF Shift

LEMMA ShiftTwice ==
  ASSUME NEW p \in Seq(EventSet), NEW q, NEW r, NEW d \in Nat, Shift(q, p, d), Shift(r, q, 0),
         DOMAIN r \subseteq Nat
  PROVE  Shift(r, p, d)
<1>1. \A i \in DOMAIN r : i + 0 = i
  OBVIOUS
<1>2. \A i \in DOMAIN r : InHand(r[i]) =>
         i \in DOMAIN q /\ r[i].ev = q[i].ev /\ (r[i].frame = q[i].frame \/ r[i].frame = NoFrame)
  BY <1>1 DEF Shift
<1> QED
  BY <1>2 DEF Shift, InHand

\* A step that brings no frame and touches neither the buffer nor what was executed
\* keeps the invariant of the queue.
LEMMA ShiftKeeps ==
  ASSUME TypeOK, TypeOK', QueueInv, NEW d \in Nat, Shift(queue', queue, d),
         UNCHANGED <<buf, rcvAddr, ran>>, wire'.n = wire.n,
         enabled' = enabled \/ ~Queued("RECEIVED"),
         pollPc' = "send" => pollPc = "send"
  PROVE  QueueInv'
<1>1. /\ DOMAIN queue \subseteq Nat /\ DOMAIN queue' \subseteq Nat
      /\ \A i \in DOMAIN queue' : queue'[i] \in EventSet
  <2>1. queue \in Seq(EventSet) /\ queue' \in Seq(EventSet)
    BY DEF TypeOK, EventSet
  <2> QED
    BY <2>1
<1>2. ASSUME NEW i \in DOMAIN queue', InHand(queue'[i])
      PROVE  /\ i + d \in DOMAIN queue /\ InHand(queue[i + d])
             /\ queue'[i].ev = queue[i + d].ev
             /\ queue'[i].frame = queue[i + d].frame \/ queue'[i].frame = NoFrame
  BY <1>2 DEF Shift, InHand
<1>3. OneInHand'
  <2>1. ASSUME NEW i \in DOMAIN queue', NEW j \in DOMAIN queue',
               InHand(queue'[i]), InHand(queue'[j])
        PROVE  i = j
    <3>1. i + d = j + d
      BY <1>2, <2>1 DEF QueueInv, OneInHand
    <3> QED
      BY <1>1, <3>1
  <2>2. ASSUME pollPc' = "send", NEW i \in DOMAIN queue' PROVE ~InHand(queue'[i])
    BY <1>2, <2>2 DEF QueueInv, OneInHand
  <2> QED
    BY <2>1, <2>2 DEF OneInHand, InHand
<1>4. Received'
  <2> SUFFICES ASSUME NEW i \in DOMAIN queue', queue'[i].ev = "RECEIVED"
               PROVE  /\ enabled'
                      /\ queue'[i].frame # NoFrame =>
                           /\ queue'[i].frame.id # 0 /\ ~queue'[i].frame.resp
                           /\ Younger(queue[i].frame)'
    BY DEF Received, Younger
  <2>1. InHand(queue'[i])
    BY DEF InHand
  <2>2. i + d \in DOMAIN queue /\ queue[i + d].ev = "RECEIVED"
    BY <1>2, <2>1
  <2>3. enabled'
    BY <2>2 DEF QueueInv, Received, Queued
  <2>4. queue'[i].frame = queue[i + d].frame \/ queue'[i].frame = NoFrame
    BY <1>2, <2>1
  <2> QED
    BY <2>2, <2>3, <2>4 DEF QueueInv, Received, Younger
<1>5. ToExecute'
  <2> SUFFICES ASSUME NEW i \in DOMAIN queue', queue'[i].ev = "EXECUTE"
               PROVE  /\ buf'.id # 0 /\ ~buf'.resp /\ Younger(buf)'
                      /\ buf'.to = rcvAddr' /\ ForUs(buf)'
    BY DEF ToExecute
  <2>1. InHand(queue'[i])
    BY DEF InHand
  <2>2. i + d \in DOMAIN queue /\ queue[i + d].ev = "EXECUTE"
    BY <1>2, <2>1
  <2> QED
    BY <2>2 DEF QueueInv, ToExecute, Younger, ForUs
<1> QED
  BY <1>3, <1>4, <1>5 DEF QueueInv
\* No frame of q is in hand.
Idle(q) == \A i \in DOMAIN q : ~InHand(q[i])

LEMMA IdleInv == Idle(queue) => QueueInv
BY DEF Idle, InHand, QueueInv, OneInHand, Received, ToExecute

LEMMA IdleInvNext == Idle(queue)' => QueueInv'
BY IdleInv, PTL

\* When the frame in hand is taken off, none is left.
LEMMA TakenIdle ==
  ASSUME TypeOK, OneInHand, queue # <<>>, InHand(Head(queue))
  PROVE  Idle(Tail(queue))
<1>1. queue \in Seq(EventSet)
  BY DEF TypeOK, EventSet
<1>2. /\ 1 \in DOMAIN queue /\ queue[1] = Head(queue)
      /\ \A i \in DOMAIN Tail(queue) : /\ i + 1 \in DOMAIN queue /\ i + 1 # 1
                                       /\ Tail(queue)[i] = queue[i + 1]
  BY <1>1
<1> QED
  BY <1>2 DEF OneInHand, Idle

\* An event posted behind them is the only one in hand, if it is one.
LEMMA PostedHand ==
  ASSUME NEW q \in Seq(EventSet), Idle(q), NEW e \in EventSet, NEW r,
         r = Append(q, e) \/ r = <<>>
  PROVE  \A i \in DOMAIN r : InHand(r[i]) => i = Len(q) + 1 /\ r[i] = e
<1>1. \A i \in DOMAIN Append(q, e) :
        \/ i \in DOMAIN q /\ Append(q, e)[i] = q[i]
        \/ i = Len(q) + 1 /\ Append(q, e)[i] = e
  OBVIOUS
<1> QED
  BY <1>1 DEF Idle

\* A step that executes nothing and answers nothing keeps the histories in order.
LEMMA RestKeeps ==
  ASSUME TypeOK, TypeOK', ToSend, RanCame, ServesOnce, UNCHANGED <<ran, answered>>,
         wire'.n >= wire.n, pollPc' = "send" => pollPc = "send" /\ buf' = buf
  PROVE  (ToSend /\ RanCame /\ ServesOnce)'
<1>1. ServesOnce'
  BY DEF ServesOnce, Ordered
<1>2. ToSend'
  BY DEF ToSend
<1>3. RanCame'
  <2>1. /\ wire.n \in Nat /\ wire'.n \in Nat /\ ran \in Seq(Frames)
        /\ \A j \in DOMAIN ran : ran[j].id \in Nat
    <3>1. wire \in Wires /\ wire' \in Wires /\ ran \in Seq(Frames)
      BY DEF TypeOK, Wires
    <3>2. \A j \in DOMAIN ran : ran[j] \in Frames
      BY <3>1
    <3>3. \A j \in DOMAIN ran : ran[j].id \in Nat
      BY <3>2 DEF Frames
    <3> QED
      BY <3>1, <3>3 DEF Wires
  <2>2. ASSUME NEW j \in DOMAIN ran PROVE ran[j].id <= wire'.n
    <3>1. ran[j].id <= wire.n /\ ran[j].id \in Nat
      BY <2>1 DEF RanCame
    <3> QED
      BY <2>1, <3>1
  <2> QED
    BY <2>2 DEF RanCame
<1> QED
  BY <1>1, <1>2, <1>3
\* Steps of the poll task that neither take up a frame nor execute or answer one.
LEMMA QuietKeeps ==
  ASSUME TypeOK, TypeOK', PInv,
         \/ PollEnter \/ PollIdle \/ PollReady \/ PollSent \/ PollError
         \/ SendNothing \/ SendFailed \/ SendBusy
  PROVE  PInv'
<1>1. queue \in Seq(EventSet) /\ queue' \in Seq(EventSet) /\ DOMAIN queue' \subseteq Nat
  <2>1. queue \in Seq(EventSet) /\ queue' \in Seq(EventSet)
    BY DEF TypeOK, EventSet
  <2> QED
    BY <2>1
<1>2. /\ UNCHANGED <<enabled, buf, rcvAddr, ran, answered>>
      /\ pollPc' # "send"
  BY DEF PollEnter, PollIdle, PollReady, PollSent, PollError, SendNothing, SendFailed,
         SendBusy, SendError, Loop
<1>3. wire'.n = wire.n /\ wire'.n >= wire.n
  <2>1. wire \in Wires
    BY DEF TypeOK, Wires
  <2>2. wire'.n = wire.n
    BY <2>1
    DEF PollEnter, PollIdle, PollReady, PollSent, PollError, SendNothing, SendFailed, SendBusy,
        Fault, Wires
  <2> QED
    BY <2>1, <2>2 DEF Wires
<1>4. (ToSend /\ RanCame /\ ServesOnce)'
  BY <1>2, <1>3, RestKeeps DEF PInv
<1>5. "SENT" \in Events /\ "ERROR" \in Events
  BY DEF Events
<1>6. \E d \in Nat : Shift(queue', queue, d)
  <2>1. CASE queue # <<>> /\ queue' = Tail(queue)
    BY <1>1, <2>1, ShiftTail
  <2>2. CASE queue # <<>> /\ queue' = PollPost(Tail(queue), "ERROR")
    <3>1. Tail(queue) \in Seq(EventSet) /\ Shift(Tail(queue), queue, 1)
      BY <1>1, <2>2, ShiftTail
    <3>2. Shift(queue', Tail(queue), 0)
      BY <1>5, <2>2, <3>1, ShiftPollPost
    <3> QED
      BY <1>1, <3>1, <3>2, ShiftTwice
  <2>3. CASE \E e \in {"SENT", "ERROR"} : queue' = PollPost(queue, e)
    BY <1>1, <1>5, <2>3, ShiftPollPost
  <2>4. CASE queue' = PollPost(Flushed(queue), "ERROR")
    <3>1. Flushed(queue) \in Seq(EventSet) /\ Shift(Flushed(queue), queue, 0)
      BY <1>1, FlushedType, ShiftFlushed
    <3>2. Shift(queue', Flushed(queue), 0)
      BY <1>5, <2>4, <3>1, ShiftPollPost
    <3> QED
      BY <1>1, <3>1, <3>2, ShiftTwice
  <2>5. CASE queue' = queue
    <3>1. \A i \in DOMAIN queue : i + 0 = i
      BY <1>1
    <3> QED
      BY <2>5, <3>1 DEF Shift
  <2> QED
    BY <2>1, <2>2, <2>3, <2>4, <2>5
    DEF PollEnter, PollIdle, PollReady, PollSent, PollError, SendNothing, SendFailed, SendBusy,
        Get
<1>7. QueueInv'
  BY <1>2, <1>3, <1>6, ShiftKeeps DEF PInv
<1> QED
  BY <1>4, <1>7 DEF PInv

\* A response goes out: it is younger than every one before.
LEMMA DoneKeeps ==
  ASSUME TypeOK, TypeOK', PInv, SendDone
  PROVE  PInv'
<1>1. queue \in Seq(EventSet) /\ answered \in Seq(Frames) /\ buf \in Frames
  BY DEF TypeOK, EventSet
<1>2. Idle(queue)
  BY DEF PInv, QueueInv, OneInHand, Idle, SendDone
<1>3. Flushed(queue) \in Seq(EventSet) /\ Idle(Flushed(queue))
  BY <1>1, <1>2, FlushedType, FlushedHas DEF Idle, InHand
<1>4. queue' = Append(Flushed(queue), Event("SENT")) \/ queue' = <<>>
  BY DEF SendDone, PollPost
<1>5. Event("SENT") \in EventSet /\ ~InHand(Event("SENT"))
  <2>1. "SENT" \in Events
    BY DEF Events
  <2> QED
    BY <2>1, EventType DEF Event, InHand
<1>6. QueueInv'
  <2>1. Idle(queue)'
    BY <1>3, <1>4, <1>5, PostedHand DEF Idle
  <2> QED
    BY <2>1, IdleInvNext
<1>7. answered' = Append(answered, buf) /\ UNCHANGED <<ran, wire, buf>> /\ pollPc' # "send"
  BY DEF SendDone, Loop
<1>8. /\ buf.to = "own"
      /\ \E j \in DOMAIN ran : ran[j].id = buf.id
      /\ \A j \in DOMAIN answered : answered[j].id < buf.id
  BY DEF PInv, ToSend, SendDone
<1>9. \A i \in DOMAIN answered' :
        \/ i \in DOMAIN answered /\ answered'[i] = answered[i]
        \/ i = Len(answered) + 1 /\ answered'[i] = buf
  BY <1>1, <1>7
<1>10. \A i \in DOMAIN answered : i \in Nat /\ i <= Len(answered)
  BY <1>1
<1>11. Ordered(answered)'
  <2> SUFFICES ASSUME NEW i \in DOMAIN answered', NEW j \in DOMAIN answered', i < j
               PROVE  answered'[i].id < answered'[j].id
    BY DEF Ordered
  <2>1. i \in DOMAIN answered
    <3>1. Len(answered) \in Nat /\ j <= Len(answered) + 1 /\ j \in Nat
      BY <1>1, <1>9, <1>10
    <3> QED
      BY <1>9, <1>10, <3>1
  <2>2. CASE j \in DOMAIN answered /\ answered'[j] = answered[j]
    <3>1. answered'[i] = answered[i]
      BY <1>1, <1>7, <2>1
    <3> QED
      BY <2>1, <2>2, <3>1 DEF PInv, ServesOnce, Ordered
  <2>3. CASE answered'[j] = buf
    <3>1. answered'[i] = answered[i]
      BY <1>1, <1>7, <2>1
    <3> QED
      BY <1>8, <2>1, <2>3, <3>1
  <2> QED
    BY <1>9, <2>2, <2>3
<1>12. ServesOnce'
  BY <1>7, <1>8, <1>9, <1>11 DEF PInv, ServesOnce, Ordered
<1> QED
  BY <1>6, <1>7, <1>12 DEF PInv, ToSend, RanCame
\* A frame is taken up and executed, or ignored, or rejected.
LEMMA ReceiveKeeps ==
  ASSUME TypeOK, TypeOK', PInv, ReceiveBusy \/ ReceiveRead \/ ReceiveStale
  PROVE  PInv'
<1>1. /\ queue \in Seq(EventSet) /\ queue # <<>> /\ InHand(Head(queue))
      /\ Tail(queue) \in Seq(EventSet)
  <2>1. queue \in Seq(EventSet)
    BY DEF TypeOK, EventSet
  <2> QED
    BY <2>1 DEF ReceiveBusy, ReceiveRead, ReceiveStale, Get, InHand
<1>2. Idle(Tail(queue))
  BY <1>1, TakenIdle DEF PInv, QueueInv
<1>3. 1 \in DOMAIN queue /\ queue[1] = Head(queue)
  BY <1>1
<1>4. enabled
  BY <1>3 DEF PInv, QueueInv, Received, ReceiveBusy, ReceiveRead, ReceiveStale, Get
<1>5. UNCHANGED <<enabled, ran, answered>> /\ wire'.n = wire.n /\ pollPc' # "send"
  <2>1. wire \in Wires
    BY DEF TypeOK, Wires
  <2> QED
    BY <2>1 DEF ReceiveBusy, ReceiveRead, ReceiveStale, Loop, Wires
<1>6. (ToSend /\ RanCame /\ ServesOnce)'
  <2>1. wire'.n >= wire.n
    BY <1>5 DEF TypeOK
  <2> QED
    BY <1>5, <2>1, RestKeeps DEF PInv
<1>7. Event("ERROR") \in EventSet /\ Event("EXECUTE") \in EventSet
  <2>1. "ERROR" \in Events /\ "EXECUTE" \in Events
    BY DEF Events
  <2> QED
    BY <2>1, EventType
<1>8. CASE Reject
  <2>1. queue' = Append(Tail(queue), Event("ERROR")) \/ queue' = <<>>
    BY <1>8 DEF Reject, PollPost
  <2>2. \A i \in DOMAIN queue' : InHand(queue'[i]) => queue'[i] = Event("ERROR")
    BY <1>1, <1>2, <1>7, <2>1, PostedHand
  <2>3. Idle(queue)'
    BY <2>2 DEF Idle, InHand, Event
  <2> QED
    BY <1>6, <2>3, IdleInvNext DEF PInv
<1>9. CASE /\ Head(queue).frame # NoFrame /\ buf' = Head(queue).frame
           /\ Accept(Head(queue).frame)
  <2> DEFINE f == Head(queue).frame
  <2>1. f.id # 0 /\ ~f.resp /\ Younger(f)
    BY <1>1, <1>3, <1>9
    DEF PInv, QueueInv, Received, ReceiveBusy, ReceiveRead, ReceiveStale, Get
  <2>2. rcvAddr' = f.to
    BY <1>9 DEF Accept
  <2>3. CASE ~ForUs(f)
    <3>1. Idle(queue)'
      BY <1>2, <1>9, <2>3 DEF Accept, Idle, InHand
    <3> QED
      BY <1>6, <3>1, IdleInvNext DEF PInv
  <2>4. CASE ForUs(f)
    <3>1. queue' = Append(Tail(queue), Event("EXECUTE")) \/ queue' = <<>>
      BY <1>9, <2>4 DEF Accept, PollPost
    <3>2. \A i \in DOMAIN queue' : InHand(queue'[i]) =>
             i = Len(Tail(queue)) + 1 /\ queue'[i] = Event("EXECUTE")
      BY <1>1, <1>2, <1>7, <3>1, PostedHand
    <3>3. OneInHand'
      BY <1>5, <3>2 DEF OneInHand, InHand
    <3>4. Received'
      BY <3>2 DEF Received, InHand, Event
    <3>5. Younger(buf)'
      BY <1>5, <1>9, <2>1 DEF Younger
    <3>6. ToExecute'
      BY <1>9, <2>1, <2>2, <2>4, <3>5 DEF ToExecute, ForUs
    <3> QED
      BY <1>6, <3>3, <3>4, <3>6 DEF PInv, QueueInv
  <2> QED
    BY <2>3, <2>4
<1> QED
  BY <1>4, <1>8, <1>9 DEF ReceiveBusy, ReceiveRead, ReceiveStale

\* The request in the buffer is younger than every one executed before.
LEMMA ExecuteKeeps ==
  ASSUME TypeOK, TypeOK', PInv, Execute
  PROVE  PInv'
<1>1. /\ queue \in Seq(EventSet) /\ queue # <<>> /\ ran \in Seq(Frames) /\ buf \in Frames
      /\ InHand(Head(queue))
  BY DEF TypeOK, EventSet, Execute, Get, InHand
<1>2. QueueInv'
  <2>1. Idle(Tail(queue))
    BY <1>1, TakenIdle DEF PInv, QueueInv
  <2>2. Idle(queue)'
    BY <2>1 DEF Execute, Idle, InHand
  <2> QED
    BY <2>2, IdleInvNext
<1>3. 1 \in DOMAIN queue /\ queue[1].ev = "EXECUTE"
  BY <1>1 DEF Execute, Get
<1>4. buf.id # 0 /\ ~buf.resp /\ Younger(buf) /\ buf.to = rcvAddr /\ ForUs(buf)
  BY <1>3 DEF PInv, QueueInv, ToExecute
<1>5. /\ ran' = Append(ran, buf) /\ UNCHANGED <<wire, answered>>
      /\ buf'.id = buf.id /\ buf'.to = buf.to
  BY <1>1 DEF Execute, Frames
<1>6. /\ \A i \in DOMAIN ran : ran[i] \in Frames /\ ran'[i] = ran[i] /\ i \in DOMAIN ran'
      /\ \A i \in DOMAIN ran' : \/ i \in DOMAIN ran /\ ran'[i] = ran[i]
                                \/ i = Len(ran) + 1 /\ ran'[i] = buf
      /\ Len(ran) + 1 \in DOMAIN ran' /\ ran'[Len(ran) + 1] = buf
  BY <1>1, <1>5
<1>7. \A i \in DOMAIN ran : i \in Nat /\ i <= Len(ran)
  BY <1>1
<1>8. Ordered(ran)'
  <2> SUFFICES ASSUME NEW i \in DOMAIN ran', NEW j \in DOMAIN ran', i < j
               PROVE  ran'[i].id < ran'[j].id
    BY DEF Ordered
  <2>1. i \in DOMAIN ran
    <3>1. Len(ran) \in Nat /\ j <= Len(ran) + 1 /\ j \in Nat
      BY <1>1, <1>6, <1>7
    <3> QED
      BY <1>6, <1>7, <3>1
  <2>2. ran'[i] = ran[i]
    BY <1>6, <2>1
  <2>3. CASE j \in DOMAIN ran /\ ran'[j] = ran[j]
    BY <2>1, <2>2, <2>3 DEF PInv, ServesOnce, Ordered
  <2>4. CASE ran'[j] = buf
    BY <1>4, <2>1, <2>2, <2>4 DEF Younger
  <2> QED
    BY <1>6, <2>3, <2>4
<1>9. RanCame'
  BY <1>4, <1>5, <1>6 DEF RanCame, PInv, Younger
<1>10. ServesOnce'
  <2>1. \A i \in DOMAIN ran' : ran'[i].id # 0 /\ ran'[i].to # "other" /\ ~ran'[i].resp
    BY <1>4, <1>6 DEF PInv, ServesOnce, ForUs
  <2>2. \A i \in DOMAIN answered : \E j \in DOMAIN ran' : ran'[j].id = answered[i].id
    BY <1>6 DEF PInv, ServesOnce
  <2> QED
    BY <1>5, <1>8, <2>1, <2>2 DEF PInv, ServesOnce, Ordered
<1>11. ToSend'
  <2> SUFFICES ASSUME pollPc' = "send"
               PROVE  /\ buf'.to = "own"
                      /\ \E j \in DOMAIN ran' : ran'[j].id = buf'.id
                      /\ \A j \in DOMAIN answered' : answered'[j].id < buf'.id
    BY DEF ToSend
  <2>1. buf.to = "own"
    BY <1>4 DEF Execute, Loop, ForUs
  <2>2. \E j \in DOMAIN ran' : ran'[j].id = buf'.id
    BY <1>5, <1>6
  <2>3. ASSUME NEW i \in DOMAIN answered PROVE answered[i].id < buf.id
    BY <1>4, <2>3 DEF PInv, ServesOnce, Younger
  <2> QED
    BY <1>5, <2>1, <2>2, <2>3
<1> QED
  BY <1>2, <1>9, <1>10, <1>11 DEF PInv
\* A frame comes over the wire, sound or damaged, when nothing is in hand.
LEMMA FrameKeeps ==
  ASSUME TypeOK, TypeOK', PInv, Prompt, (\E to \in Addresses : UartFrame(to)) \/ UartBad
  PROVE  PInv'
<1>1. queue \in Seq(EventSet) /\ wire \in Wires /\ MaxReq \in Nat
  BY SlaveAssumption DEF TypeOK, EventSet, Wires, SlaveAssumption
<1>2. /\ Idle(queue) /\ pollPc # "send" /\ enabled
      /\ UNCHANGED <<enabled, buf, rcvAddr, ran, answered, pollPc>>
  BY DEF UartFrame, UartBad, AtLeisure, Queued, Idle, InHand
<1>3. PICK f \in Frames : /\ Post(queue, [ev |-> "RECEIVED", frame |-> f])
                          /\ f # NoFrame => /\ f.id = wire.n + 1 /\ ~f.resp
                                            /\ wire'.n = wire.n + 1
                          /\ wire'.n = wire.n \/ wire'.n = wire.n + 1
  <2>1. ASSUME NEW to \in Addresses, UartFrame(to)
        PROVE  LET f == [id |-> wire.n + 1, to |-> to, resp |-> FALSE]
               IN  /\ f \in Frames /\ Post(queue, [ev |-> "RECEIVED", frame |-> f])
                   /\ wire'.n = wire.n + 1
    <3>1. wire.n + 1 \in 0..MaxReq
      BY <1>1, <2>1 DEF UartFrame, Wires
    <3> QED
      BY <1>1, <2>1, <3>1 DEF UartFrame, Frames, Wires
  <2>2. CASE UartBad
    BY <1>1, <2>2, NoFrameType DEF UartBad, Event, Fault, Wires
  <2> QED
    BY <2>1, <2>2
<1>4. wire.n \in Nat /\ wire'.n >= wire.n
  <2>1. wire.n \in Nat
    BY <1>1 DEF Wires
  <2> QED
    BY <1>3, <2>1
<1>5. (ToSend /\ RanCame /\ ServesOnce)'
  BY <1>2, <1>4, RestKeeps DEF PInv
<1>6. \A i \in DOMAIN queue' : InHand(queue'[i]) =>
         i = Len(queue) + 1 /\ queue'[i] = [ev |-> "RECEIVED", frame |-> f]
  <2>1. [ev |-> "RECEIVED", frame |-> f] \in EventSet
    BY DEF EventSet, Events
  <2>2. queue' = Append(queue, [ev |-> "RECEIVED", frame |-> f]) \/ queue' = <<>>
    BY <1>3 DEF Post
  <2> QED
    BY <1>1, <1>2, <2>1, <2>2, PostedHand
<1>7. OneInHand'
  BY <1>2, <1>6 DEF OneInHand, InHand
<1>8. Received'
  <2>1. ASSUME f # NoFrame PROVE f.id # 0 /\ ~f.resp /\ Younger(f)'
    <3>1. ASSUME NEW j \in DOMAIN ran PROVE ran[j].id < f.id
      <4>1. ran[j].id <= wire.n /\ ran[j].id \in Nat
        <5>1. ran \in Seq(Frames)
          BY DEF TypeOK
        <5>2. ran[j] \in Frames
          BY <5>1
        <5> QED
          BY <5>2 DEF PInv, RanCame, Frames
      <4> QED
        BY <1>3, <1>4, <2>1, <4>1
    <3>2. f.id # 0 /\ ~f.resp /\ f.id <= wire'.n
      BY <1>3, <1>4, <2>1
    <3> QED
      BY <1>2, <3>1, <3>2 DEF Younger
  <2>2. \A i \in DOMAIN queue' : queue'[i].ev = "RECEIVED" => queue'[i].frame = f
    BY <1>6 DEF InHand
  <2> QED
    BY <1>2, <2>1, <2>2 DEF Received, Younger
<1>9. ToExecute'
  BY <1>6 DEF ToExecute, InHand
<1> QED
  BY <1>5, <1>7, <1>8, <1>9 DEF PInv, QueueInv

\* The other steps outside the poll task bring no frame.
LEMMA ControlKeeps ==
  ASSUME TypeOK, TypeOK', PInv, Prompt, UartFlush \/ Start \/ Stop
  PROVE  PInv'
<1>1. queue \in Seq(EventSet) /\ wire \in Wires
  BY DEF TypeOK, EventSet, Wires
<1>2. UNCHANGED <<buf, rcvAddr, ran, answered>> /\ wire'.n = wire.n
  BY <1>1 DEF UartFlush, Start, Stop, Fault, Wires
<1>3. pollPc' = "send" => pollPc = "send"
  BY DEF UartFlush, Start, Stop
<1>4. (ToSend /\ RanCame /\ ServesOnce)'
  <2>1. wire'.n >= wire.n
    BY <1>1, <1>2 DEF Wires
  <2> QED
    BY <1>2, <1>3, <2>1, RestKeeps DEF PInv
<1>5. CASE UartFlush
  <2>1. Shift(queue', queue, 0) /\ enabled' = enabled
    BY <1>1, <1>5, ShiftFlushed DEF UartFlush
  <2> QED
    BY <1>2, <1>3, <1>4, <2>1, ShiftKeeps DEF PInv
<1>6. CASE Start
  <2>1. "READY" \in Events /\ Event("READY") \in EventSet
    <3>1. "READY" \in Events
      BY DEF Events
    <3> QED
      BY <3>1, EventType
  <2>2. queue' = PollPost(queue, "READY")
    <3>1. Len(queue) \in Nat /\ QueueLen \in Nat
      BY <1>1, SlaveAssumption DEF SlaveAssumption
    <3> QED
      BY <1>6, <3>1 DEF Start, Post, PollPost
  <2>3. Shift(queue', queue, 0)
    BY <1>1, <2>1, <2>2, ShiftPollPost
  <2>4. ~Queued("RECEIVED")
    BY <1>6 DEF Start, Queued, PInv, QueueInv, Received
  <2> QED
    BY <1>2, <1>3, <1>4, <2>3, <2>4, ShiftKeeps DEF PInv
<1>7. CASE Stop
  <2>1. queue' = queue /\ ~Queued("RECEIVED")
    BY <1>7 DEF Stop
  <2>2. \A i \in DOMAIN queue : i + 0 = i
    BY <1>1
  <2>3. Shift(queue', queue, 0)
    BY <2>1, <2>2 DEF Shift
  <2> QED
    BY <1>2, <1>3, <1>4, <2>1, <2>3, ShiftKeeps DEF PInv
<1> QED
  BY <1>5, <1>6, <1>7

\* A slave that is prompt executes every frame at most once, in the order in which
\* they came, only undamaged ones for itself or for all, never its own response, and
\* answers only what it has executed, once; with any number of damaged frames,
\* flushes, failed transmissions, stops and overflows of the event queue.
THEOREM ServesAlwaysOnce ==
  ASSUME Prompt
  PROVE  Spec => []ServesOnce
<1>1. Init => PInv
  <2> SUFFICES ASSUME Init PROVE PInv
    OBVIOUS
  <2>1. DOMAIN queue = {1} /\ queue[1].ev = "READY" /\ DOMAIN ran = {} /\ DOMAIN answered = {}
    BY DEF Init, Event
  <2>2. Idle(queue)
    BY <2>1 DEF Idle, InHand
  <2>3. QueueInv
    BY <2>2, IdleInv
  <2>4. ToSend
    BY DEF Init, ToSend
  <2> QED
    BY <2>1, <2>3, <2>4 DEF PInv, RanCame, ServesOnce, Ordered
<1>2. TypeOK /\ TypeOK' /\ PInv /\ [Next]_vars => PInv'
  <2> SUFFICES ASSUME TypeOK, TypeOK', PInv, [Next]_vars PROVE PInv'
    OBVIOUS
  <2>1. CASE UNCHANGED vars
    BY <2>1 DEF vars, PInv, QueueInv, OneInHand, InHand, Received, Younger, ToExecute, ForUs,
                ToSend, RanCame, ServesOnce, Ordered
  <2> QED
    BY <2>1, QuietKeeps, DoneKeeps, ReceiveKeeps, ExecuteKeeps, FrameKeeps, ControlKeeps
    DEF Next, Poll, PollEvent, Send
<1>3. PInv => ServesOnce
  BY DEF PInv
<1> QED
  BY <1>1, <1>2, <1>3, TypeCorrect, PTL DEF Spec
===============================================================================
