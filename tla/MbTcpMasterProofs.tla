--------------------------- MODULE MbTcpMasterProofs ---------------------------
(***************************************************************************)
(* Theorems about MbTcpMaster for any number of slaves, requests and       *)
(* faults: its types, that the connected nodes are counted, that a node on *)
(* its way to be connected has an event that takes it on, that the answer  *)
(* that is waited for is not dropped, that no other is accepted, and that  *)
(* a taken resource is on its way back.                                    *)
(*                                                                         *)
(* A step is known by what it does to the frames of one slave (Shrinks,    *)
(* WriteFrames, TransmitFrames); the invariants are of these.              *)
(***************************************************************************)
EXTENDS MbTcpMaster, SequenceTheorems, FiniteSetTheorems, TLAPS

NodeStates == {"CLOSED", "OPENED", "RESOLVED", "CONNECTING", "CONNECTED"}
NodeSet == [state: NodeStates, tid: 0..TidTop, rx: Seq(Frames), tx: Seq(Frames)]
PeerSet == [asked: Seq(Frames), link: {"up", "reset", "closed"}, refused: BOOLEAN]
DrvEvents == {"RESOLVE", "CONNECT", "ERROR", "SEND_DATA", "RECV_DATA", "CLOSE"}
DrvSet == [ev: DrvEvents, node: Slaves \union {All}]
PollEvents == {"READY", "TRANSMIT", "RECEIVED", "EXECUTE", "ERROR"}
Errors == {"INIT", "OK", "TIMEOUT", "RECEIVE_DATA", "EXEC"}

Has(q, e) == \E i \in DOMAIN q : q[i] = e

\* Where the driver's data are, ...
LinkTypes == /\ node \in [Slaves -> NodeSet] /\ peer \in [Slaves -> PeerSet]
             /\ connected \in BOOLEAN /\ curNode \in Slaves \union {None}
             /\ drvq \in Seq(DrvSet)
             /\ last \in Frames \union {NoFrame}

\* ... and those of the poll task and the caller.  There is a request once its event is.
PollTypes == /\ control \in {"starting", "running", "stopped"}
             /\ evq \in Seq(PollEvents) /\ errType \in Errors
             /\ flags \subseteq Errors \ {"INIT"}
             /\ res \in BOOLEAN /\ timer \in BOOLEAN /\ curTrans \in 0..MaxReq
             /\ buf \in Answers \union {NoFrame}
             /\ reading \in [node: Slaves, trans: 0..MaxReq] \union {NoRead}
             /\ req \in [n: 0..MaxReq, dst: Slaves, waits: BOOLEAN]
             /\ Has(evq, "TRANSMIT") => req.n # 0

Types == LinkTypes /\ PollTypes

-------------------------------------------------------------------------------
(* Queues.                                                                 *)

\* Posting an event adds it and loses none.
LEMMA AppendHas ==
  ASSUME NEW S, NEW q \in Seq(S), NEW e \in S
  PROVE  /\ Append(q, e) \in Seq(S)
         /\ \A x : Has(Append(q, e), x) <=> Has(q, x) \/ x = e
<1>1. /\ Append(q, e) \in Seq(S) /\ Len(Append(q, e)) = Len(q) + 1
      /\ \A i \in 1..Len(q) : Append(q, e)[i] = q[i]
      /\ Append(q, e)[Len(q) + 1] = e
  BY AppendProperties
<1>2. /\ Len(q) \in Nat /\ DOMAIN q = 1..Len(q)
      /\ DOMAIN Append(q, e) = 1..Len(q) + 1
  BY <1>1
<1>3. \A i \in 1..Len(q) + 1 : i \in 1..Len(q) \/ i = Len(q) + 1
  BY <1>2
<1>4. /\ Len(q) + 1 \in 1..Len(q) + 1
      /\ \A i \in 1..Len(q) : i \in 1..Len(q) + 1
  BY <1>2
<1> QED
  BY <1>1, <1>2, <1>3, <1>4 DEF Has

\* Taking the first one leaves all others.
LEMMA TailHas ==
  ASSUME NEW S, NEW q \in Seq(S), q # <<>>
  PROVE  /\ Head(q) \in S /\ Tail(q) \in Seq(S)
         /\ \A x : Has(q, x) <=> Has(Tail(q), x) \/ x = Head(q)
<1>1. /\ Tail(q) \in Seq(S) /\ Head(q) \in S
      /\ Len(q) \in Nat \ {0}
      /\ DOMAIN q = 1..Len(q) /\ DOMAIN Tail(q) = 1..Len(q) - 1
      /\ Head(q) = q[1]
      /\ \A i \in 1..Len(q) - 1 : Tail(q)[i] = q[i + 1]
  OBVIOUS
<1>2. ASSUME NEW x, Has(q, x), x # Head(q) PROVE Has(Tail(q), x)
  <2>1. PICK i \in 1..Len(q) : q[i] = x
    BY <1>1, <1>2 DEF Has
  <2>2. i # 1
    BY <1>1, <1>2, <2>1
  <2>3. i - 1 \in 1..Len(q) - 1 /\ i - 1 + 1 = i
    BY <1>1, <2>1, <2>2
  <2> QED
    BY <1>1, <2>1, <2>3 DEF Has
<1>3. ASSUME NEW x, Has(Tail(q), x) PROVE Has(q, x)
  <2>1. PICK i \in 1..Len(q) - 1 : Tail(q)[i] = x
    BY <1>1, <1>3 DEF Has
  <2>2. i + 1 \in 1..Len(q)
    BY <1>1, <2>1
  <2> QED
    BY <1>1, <2>1, <2>2 DEF Has
<1>4. Has(q, Head(q))
  BY <1>1 DEF Has
<1> QED
  BY <1>1, <1>2, <1>3, <1>4

LEMMA ConcatHas ==
  ASSUME NEW S, NEW p \in Seq(S), NEW q \in Seq(S)
  PROVE  /\ p \o q \in Seq(S)
         /\ \A x : Has(p, x) \/ Has(q, x) => Has(p \o q, x)
<1>1. /\ p \o q \in Seq(S) /\ Len(p) \in Nat /\ Len(q) \in Nat
      /\ DOMAIN p = 1..Len(p) /\ DOMAIN q = 1..Len(q)
      /\ DOMAIN (p \o q) = 1..Len(p) + Len(q)
      /\ \A i \in 1..Len(p) + Len(q) :
            (p \o q)[i] = IF i <= Len(p) THEN p[i] ELSE q[i - Len(p)]
  BY ConcatProperties, LenProperties
<1>2. ASSUME NEW i \in 1..Len(p)
      PROVE  i \in DOMAIN (p \o q) /\ (p \o q)[i] = p[i]
  <2>1. i \in 1..Len(p) + Len(q) /\ i <= Len(p)
    BY <1>1
  <2> QED
    BY <1>1, <2>1
<1>3. ASSUME NEW i \in 1..Len(q)
      PROVE  i + Len(p) \in DOMAIN (p \o q) /\ (p \o q)[i + Len(p)] = q[i]
  <2>1. i + Len(p) \in 1..Len(p) + Len(q) /\ ~(i + Len(p) <= Len(p)) /\ i + Len(p) - Len(p) = i
    BY <1>1
  <2> QED
    BY <1>1, <2>1
<1> QED
  BY <1>1, <1>2, <1>3 DEF Has

LEMMA EventType ==
  ASSUME NEW e \in DrvEvents, NEW s \in Slaves \union {All}
  PROVE  Event(e, s) \in DrvSet /\ Event(e, s).ev = e /\ Event(e, s).node = s
BY DEF Event, DrvSet

-------------------------------------------------------------------------------
(* Sets of slaves.                                                         *)

LEMMA SlavesFinite ==
  /\ IsFiniteSet(Slaves) /\ Cardinality(Slaves) = MaxSlaves /\ Slaves \subseteq Nat
  /\ \A S \in SUBSET Slaves : IsFiniteSet(S) /\ Cardinality(S) \in 0..MaxSlaves
<1>1. MaxSlaves \in Nat \ {0} /\ 0 \in Int /\ MaxSlaves - 1 \in Int
  BY TcpMasterAssumption DEF TcpMasterAssumption
<1>2. IsFiniteSet(Slaves) /\ Cardinality(Slaves) = MaxSlaves
  <2>1. /\ IsFiniteSet(0..MaxSlaves - 1)
        /\ Cardinality(0..MaxSlaves - 1) = IF 0 > MaxSlaves - 1 THEN 0 ELSE MaxSlaves - 1 - 0 + 1
    BY <1>1, FS_Interval
  <2> QED
    BY <1>1, <2>1 DEF Slaves
<1>3. ASSUME NEW S \in SUBSET Slaves PROVE IsFiniteSet(S) /\ Cardinality(S) \in 0..MaxSlaves
  <2>1. IsFiniteSet(S) /\ Cardinality(S) <= Cardinality(Slaves)
    BY <1>2, FS_Subset
  <2>2. Cardinality(S) \in Nat
    BY <2>1, FS_CardinalityType
  <2> QED
    BY <1>1, <1>2, <2>1, <2>2
<1> QED
  BY <1>1, <1>2, <1>3 DEF Slaves

\* How many of S come before s.
Rank(S, s) == Cardinality({r \in S : r < s})

\* The slaves of S have the ranks from 0 on, each its own.
LEMMA RankBijection ==
  ASSUME NEW S \in SUBSET Slaves
  PROVE  /\ \A s \in S : Rank(S, s) \in 0..Cardinality(S) - 1
         /\ \A s, t \in S : Rank(S, s) = Rank(S, t) => s = t
         /\ \A k \in 0..Cardinality(S) - 1 : \E s \in S : Rank(S, s) = k
<1>1. IsFiniteSet(S) /\ Cardinality(S) \in Nat /\ S \subseteq Nat
  <2>1. IsFiniteSet(S) /\ Cardinality(S) \in 0..MaxSlaves /\ S \subseteq Nat
    BY SlavesFinite
  <2>2. MaxSlaves \in Nat
    BY TcpMasterAssumption DEF TcpMasterAssumption
  <2> QED
    BY <2>1, <2>2
<1>2. ASSUME NEW s \in S
      PROVE  /\ {r \in S : r < s} \subseteq S /\ s \notin {r \in S : r < s}
             /\ IsFiniteSet({r \in S : r < s})
             /\ Rank(S, s) \in Nat
  <2>1. {r \in S : r < s} \in SUBSET S /\ s \notin {r \in S : r < s}
    BY <1>1
  <2>2. IsFiniteSet({r \in S : r < s})
    BY <1>1, <2>1, FS_Subset
  <2> QED
    BY <2>1, <2>2, FS_CardinalityType DEF Rank
<1>3. ASSUME NEW s \in S PROVE Rank(S, s) \in 0..Cardinality(S) - 1
  <2>1. /\ Cardinality({r \in S : r < s}) <= Cardinality(S)
        /\ Cardinality(S) = Cardinality({r \in S : r < s}) => S = {r \in S : r < s}
    BY <1>1, <1>2, FS_Subset
  <2>2. Rank(S, s) # Cardinality(S)
    BY <1>2, <2>1 DEF Rank
  <2>3. Rank(S, s) <= Cardinality(S)
    BY <2>1 DEF Rank
  <2>4. Rank(S, s) \in Nat
    BY <1>2
  <2> QED
    BY <1>1, <2>2, <2>3, <2>4
<1>4. ASSUME NEW s \in S, NEW t \in S, s < t PROVE Rank(S, s) # Rank(S, t)
  <2>1. {r \in S : r < s} \in SUBSET {r \in S : r < t}
    <3>1. s \in Nat /\ t \in Nat
      BY <1>1
    <3>2. ASSUME NEW r \in S, r < s PROVE r < t
      <4>1. r \in Nat
        BY <1>1
      <4> QED
        BY <1>4, <3>1, <3>2, <4>1
    <3> QED
      BY <3>2
  <2>2. s \in {r \in S : r < t} /\ s \notin {r \in S : r < s}
    BY <1>2, <1>4
  <2>3. Cardinality({r \in S : r < t}) = Cardinality({r \in S : r < s}) =>
           {r \in S : r < t} = {r \in S : r < s}
    BY <1>2, <2>1, FS_Subset
  <2> QED
    BY <2>2, <2>3 DEF Rank
<1>5. ASSUME NEW s \in S, NEW t \in S, Rank(S, s) = Rank(S, t) PROVE s = t
  <2>1. s \in Nat /\ t \in Nat /\ ~(s < t) /\ ~(t < s)
    BY <1>1, <1>4, <1>5
  <2> QED
    BY <2>1
<1>6. ASSUME NEW k \in 0..Cardinality(S) - 1 PROVE \E s \in S : Rank(S, s) = k
  <2> DEFINE T == 0..Cardinality(S) - 1
             f == [s \in S |-> Rank(S, s)]
  <2>1. f \in [S -> T]
    BY <1>3
  <2>2. f \in Injection(S, T)
    BY <1>5, <2>1 DEF Injection, IsInjective
  <2>3. IsFiniteSet(T) /\ Cardinality(T) = Cardinality(S)
    <3>1. 0 \in Int /\ Cardinality(S) - 1 \in Int
      BY <1>1
    <3>2. /\ IsFiniteSet(T)
          /\ Cardinality(T) = IF 0 > Cardinality(S) - 1 THEN 0 ELSE Cardinality(S) - 1 - 0 + 1
      BY <3>1, FS_Interval
    <3> QED
      BY <1>1, <3>2
  <2>4. f \in Surjection(S, T)
    BY <2>2, <2>3, FS_Injection
  <2>5. \E s \in S : f[s] = k
    BY <2>4 DEF Surjection
  <2> QED
    BY <2>5
<1> QED
  BY <1>3, <1>5, <1>6

\* One event for each slave of S, and no other.
LEMMA InTurnHas ==
  ASSUME NEW S \in SUBSET Slaves, NEW e \in DrvEvents
  PROVE  /\ InTurn(e, S) \in Seq(DrvSet)
         /\ \A s \in S : Has(InTurn(e, S), Event(e, s))
<1> DEFINE At(i) == CHOOSE s \in S : Cardinality({r \in S : r < s}) = i - 1
           n == Cardinality(S)
<1>1. n \in Nat
  <2>1. n \in 0..MaxSlaves /\ MaxSlaves \in Nat
    BY SlavesFinite, TcpMasterAssumption DEF TcpMasterAssumption
  <2> QED
    BY <2>1
<1>2. ASSUME NEW i \in 1..n PROVE At(i) \in S /\ Rank(S, At(i)) = i - 1
  <2>1. i - 1 \in 0..n - 1
    BY <1>1
  <2>2. \E s \in S : Rank(S, s) = i - 1
    BY <2>1, RankBijection
  <2> QED
    BY <2>2 DEF Rank
<1>3. InTurn(e, S) = [i \in 1..n |-> Event(e, At(i))]
  BY DEF InTurn
<1>4. InTurn(e, S) \in [1..n -> DrvSet]
  <2>1. ASSUME NEW i \in 1..n PROVE Event(e, At(i)) \in DrvSet
    <3>1. At(i) \in Slaves \union {All}
      BY <1>2
    <3> HIDE DEF At
    <3> QED
      BY <3>1, EventType
  <2> HIDE DEF At
  <2> QED
    BY <1>3, <2>1
<1>5. InTurn(e, S) \in Seq(DrvSet)
  BY <1>1, <1>4
<1>6. ASSUME NEW s \in S PROVE Has(InTurn(e, S), Event(e, s))
  <2>1. Rank(S, s) \in 0..n - 1
    BY RankBijection
  <2> DEFINE i == Rank(S, s) + 1
  <2>2. i \in 1..n /\ i - 1 = Rank(S, s)
    BY <1>1, <2>1
  <2>3. At(i) \in S /\ Rank(S, At(i)) = Rank(S, s)
    BY <1>2, <2>2
  <2>4. At(i) = s
    <3> HIDE DEF At, i
    <3> QED
      BY <2>3, RankBijection
  <2>5. DOMAIN InTurn(e, S) = 1..n /\ InTurn(e, S)[i] = Event(e, s)
    BY <1>3, <1>4, <2>2, <2>4
  <2> QED
    BY <2>2, <2>5 DEF Has
<1> QED
  BY <1>5, <1>6

-------------------------------------------------------------------------------
(* Types.                                                                  *)

LEMMA Constants ==
  /\ MaxSlaves \in Nat \ {0} /\ MaxReq \in Nat /\ TidTop \in Nat /\ TidStep \in Nat
  /\ 0 \in Slaves /\ NoFrame \notin Frames
  /\ \A s \in Slaves : s \in Nat /\ FirstTid(s) \in 0..TidTop
<1>1. /\ MaxSlaves \in Nat \ {0} /\ MaxReq \in Nat /\ TidTop \in Nat /\ TidStep \in Nat
      /\ (MaxSlaves - 1) * TidStep =< TidTop
  BY TcpMasterAssumption DEF TcpMasterAssumption
<1>2. ASSUME NEW s \in Slaves PROVE s \in Nat /\ FirstTid(s) \in 0..TidTop
  <2>1. s \in Nat /\ MaxSlaves - 1 \in Nat /\ MaxSlaves - 1 - s \in Nat
    BY <1>1 DEF Slaves
  <2>2. s * TidStep \in Nat /\ (MaxSlaves - 1 - s) * TidStep \in Nat
    BY <1>1, <2>1
  <2>3. s * TidStep + (MaxSlaves - 1 - s) * TidStep = (MaxSlaves - 1) * TidStep
    BY <1>1, <2>1
  <2>4. s * TidStep =< TidTop
    BY <1>1, <2>2, <2>3
  <2> QED
    BY <1>1, <2>1, <2>2, <2>4 DEF FirstTid
<1> QED
  BY <1>1, <1>2 DEF Slaves, NoFrame, Frames

\* What may become of a node.
LEMMA NodeType ==
  ASSUME LinkTypes, NEW s \in Slaves
  PROVE  /\ node[s] \in NodeSet
         /\ node[s].state \in NodeStates /\ node[s].tid \in 0..TidTop
         /\ node[s].rx \in Seq(Frames) /\ node[s].tx \in Seq(Frames)
         /\ peer[s].asked \in Seq(Frames)
         /\ \A q \in Seq(Frames) : /\ [node EXCEPT ![s].rx = q] \in [Slaves -> NodeSet]
                                   /\ [node EXCEPT ![s].tx = q] \in [Slaves -> NodeSet]
                                   /\ [peer EXCEPT ![s].asked = q] \in [Slaves -> PeerSet]
         /\ \A t \in NodeStates : [node EXCEPT ![s].state = t] \in [Slaves -> NodeSet]
         /\ \A q \in Seq(Frames), t \in 0..TidTop :
               [node EXCEPT ![s].tx = q, ![s].tid = t] \in [Slaves -> NodeSet]
         /\ Closed(s) \in [Slaves -> NodeSet]
<1>1. node \in [Slaves -> NodeSet] /\ peer \in [Slaves -> PeerSet]
  BY DEF LinkTypes
<1>2. node[s] \in NodeSet /\ peer[s] \in PeerSet
  BY <1>1
<1>3. <<>> \in Seq(Frames)
  OBVIOUS
<1>4. "OPENED" \in NodeStates
  BY DEF NodeStates
<1>5. Closed(s) \in [Slaves -> NodeSet]
  BY <1>1, <1>3, <1>4 DEF Closed, NodeSet
<1>6. ASSUME NEW q \in Seq(Frames) PROVE /\ [node EXCEPT ![s].rx = q] \in [Slaves -> NodeSet]
                                         /\ [node EXCEPT ![s].tx = q] \in [Slaves -> NodeSet]
                                         /\ [peer EXCEPT ![s].asked = q] \in [Slaves -> PeerSet]
  BY <1>1 DEF NodeSet, PeerSet
<1>7. ASSUME NEW t \in NodeStates PROVE [node EXCEPT ![s].state = t] \in [Slaves -> NodeSet]
  BY <1>1 DEF NodeSet
<1>8. ASSUME NEW q \in Seq(Frames), NEW t \in 0..TidTop
      PROVE [node EXCEPT ![s].tx = q, ![s].tid = t] \in [Slaves -> NodeSet]
  BY <1>1 DEF NodeSet
<1> QED
  BY <1>2, <1>5, <1>6, <1>7, <1>8 DEF NodeSet, PeerSet

\* What a step does to the events of the poll task other than posting a request.
EvqStep == LET q == {evq} \union (IF evq = <<>> THEN {} ELSE {Tail(evq)})
           IN  \/ evq' \in q
               \/ \E p \in q, e \in PollEvents \ {"TRANSMIT"} : evq' = Append(p, e)

LEMMA EvqType ==
  ASSUME evq \in Seq(PollEvents), EvqStep
  PROVE  /\ evq' \in Seq(PollEvents)
         /\ Has(evq', "TRANSMIT") => Has(evq, "TRANSMIT")
<1>1. PICK p : /\ p \in {evq} \union (IF evq = <<>> THEN {} ELSE {Tail(evq)})
               /\ evq' = p \/ \E e \in PollEvents \ {"TRANSMIT"} : evq' = Append(p, e)
  BY DEF EvqStep
<1>2. p \in Seq(PollEvents) /\ (Has(p, "TRANSMIT") => Has(evq, "TRANSMIT"))
  BY <1>1, TailHas
<1>3. CASE evq' = p
  BY <1>2, <1>3
<1>4. ASSUME NEW e \in PollEvents \ {"TRANSMIT"}, evq' = Append(p, e)
      PROVE  evq' \in Seq(PollEvents) /\ (Has(evq', "TRANSMIT") => Has(evq, "TRANSMIT"))
  BY <1>2, <1>4, AppendHas
<1> QED
  BY <1>1, <1>3, <1>4

\* What one does to the events of the driver.
DrvStep == LET q == {drvq} \union (IF drvq = <<>> THEN {} ELSE {Tail(drvq)})
           IN  \/ drvq' \in q
               \/ \E p \in q, e \in DrvSet : drvq' = Append(p, e)

LEMMA DrvType ==
  ASSUME drvq \in Seq(DrvSet), DrvStep
  PROVE  drvq' \in Seq(DrvSet)
<1>1. PICK p : /\ p \in {drvq} \union (IF drvq = <<>> THEN {} ELSE {Tail(drvq)})
               /\ drvq' = p \/ \E e \in DrvSet : drvq' = Append(p, e)
  BY DEF DrvStep
<1>2. p \in Seq(DrvSet)
  BY <1>1, TailHas
<1> QED
  BY <1>1, <1>2, AppendHas

LEMMA InitLinks ==
  ASSUME Init
  PROVE  /\ node \in [Slaves -> NodeSet] /\ peer \in [Slaves -> PeerSet]
         /\ \A s \in Slaves : /\ node[s].rx = <<>> /\ node[s].tx = <<>> /\ peer[s].asked = <<>>
                               /\ node[s].state \in {"OPENED", "CONNECTED"}
<1>1. \E tid \in [Slaves -> 0..TidTop], t \in {"OPENED", "CONNECTED"} :
         node = [s \in Slaves |-> [state |-> t, tid |-> tid[s], rx |-> <<>>, tx |-> <<>>]]
  <2>1. CASE Starts
    <3> DEFINE zero == [s \in Slaves |-> 0]
    <3>1. zero \in [Slaves -> 0..TidTop]
      BY Constants
    <3>2. node = [s \in Slaves |-> [state |-> "OPENED", tid |-> zero[s], rx |-> <<>>, tx |-> <<>>]]
      BY <2>1 DEF Starts
    <3> HIDE DEF zero
    <3> QED
      BY <3>1, <3>2
  <2>2. CASE Runs
    <3>1. PICK tid \in [Slaves -> Tids] :
            node = [s \in Slaves |-> [state |-> "CONNECTED", tid |-> tid[s], rx |-> <<>>, tx |-> <<>>]]
      BY <2>2 DEF Runs
    <3>2. tid \in [Slaves -> 0..TidTop]
      BY TcpMasterAssumption DEF TcpMasterAssumption
    <3> QED
      BY <3>1, <3>2
  <2> QED
    BY <2>1, <2>2 DEF Init
<1>2. PICK tid \in [Slaves -> 0..TidTop], t \in {"OPENED", "CONNECTED"} :
         node = [s \in Slaves |-> [state |-> t, tid |-> tid[s], rx |-> <<>>, tx |-> <<>>]]
  BY <1>1
<1>3. node \in [Slaves -> NodeSet]
  BY <1>2 DEF NodeSet, NodeStates
<1>4. peer \in [Slaves -> PeerSet] /\ \A s \in Slaves : peer[s].asked = <<>>
  BY DEF Init, PeerSet
<1> QED
  BY <1>2, <1>3, <1>4

LEMMA InitTypes == Init => Types
<1> SUFFICES ASSUME Init PROVE Types
  OBVIOUS
<1>1. node \in [Slaves -> NodeSet] /\ peer \in [Slaves -> PeerSet]
  BY InitLinks
<1>2. drvq \in Seq(DrvSet)
  <2>1. "RESOLVE" \in DrvEvents /\ All \in Slaves \union {All}
    BY DEF DrvEvents
  <2>2. Event("RESOLVE", All) \in DrvSet
    BY <2>1, EventType
  <2>3. drvq = <<Event("RESOLVE", All)>> \/ drvq = <<>>
    BY DEF Init, Starts, Runs
  <2>4. <<>> \in Seq(DrvSet) /\ \A e \in DrvSet : <<e>> \in Seq(DrvSet)
    OBVIOUS
  <2> QED
    BY <2>2, <2>3, <2>4
<1>3. evq \in Seq(PollEvents) /\ ~Has(evq, "TRANSMIT")
  <2>1. evq = <<"READY">> \/ evq = <<>>
    BY DEF Init, Starts, Runs
  <2>2. CASE evq = <<"READY">>
    BY <2>2 DEF PollEvents, Has
  <2>3. CASE evq = <<>>
    BY <2>3 DEF Has
  <2> QED
    BY <2>1, <2>2, <2>3
<1>4. req \in [n: 0..MaxReq, dst: Slaves, waits: BOOLEAN] /\ curTrans \in 0..MaxReq
  BY Constants DEF Init
<1>5. curNode \in Slaves \union {None} /\ buf \in Answers \union {NoFrame}
  <2>1. CASE Starts
    BY <2>1 DEF Starts
  <2>2. CASE Runs
    <3>1. curNode \in Slaves /\ node[curNode].tid > 0 /\ buf = [req |-> 0, tid |-> node[curNode].tid - 1]
      BY <2>2 DEF Runs
    <3>2. node[curNode].tid \in 0..TidTop
      BY <1>1, <3>1 DEF NodeSet
    <3>3. node[curNode].tid - 1 \in 0..TidTop /\ 0 \in 0..MaxReq
      BY <3>1, <3>2, Constants
    <3> QED
      BY <3>1, <3>3 DEF Answers
  <2> QED
    BY <2>1, <2>2 DEF Init
<1>6. connected \in BOOLEAN /\ control \in {"starting", "running", "stopped"} /\ res \in BOOLEAN
  BY DEF Init, Starts, Runs
<1>7. /\ last = NoFrame /\ errType = "INIT" /\ flags = {} /\ timer = FALSE /\ reading = NoRead
  BY DEF Init
<1> QED
  BY <1>1, <1>2, <1>3, <1>4, <1>5, <1>6, <1>7 DEF Types, LinkTypes, PollTypes, Errors

\* The driver and the slaves touch of the poll task's data only its events and the error.
LEMMA DriverPollTypes ==
  ASSUME Types, Network \/ Driver
  PROVE  PollTypes'
<1>1. evq \in Seq(PollEvents) /\ {"RECEIVED", "ERROR"} \subseteq PollEvents \ {"TRANSMIT"}
  BY DEF Types, PollTypes, PollEvents
<1>2. CASE UNCHANGED <<control, fsm, req>>
  BY <1>2 DEF fsm, poll, Types, PollTypes
<1>3. CASE /\ UNCHANGED <<control, res, flags, timer, curTrans, poll, req>>
           /\ errType' \in Errors
           /\ \E e \in {"RECEIVED", "ERROR"} : evq' = Append(evq, e)
  <2>1. EvqStep
    BY <1>1, <1>3 DEF EvqStep
  <2>2. /\ evq' \in Seq(PollEvents)
        /\ Has(evq', "TRANSMIT") => Has(evq, "TRANSMIT")
    BY <1>1, <2>1, EvqType
  <2> QED
    BY <1>3, <2>2 DEF Types, PollTypes, poll
<1>4. ASSUME NEW s \in Slaves, ReadBad(s) \/ RecvFound(s) PROVE PollTypes'
  BY <1>3, <1>4 DEF ReadBad, RecvFound, Errors
<1>5. ASSUME NEW s \in Slaves, Answer(s) \/ Break(s) \/ Reset(s) \/ ReadBroken(s) PROVE PollTypes'
  BY <1>2, <1>5 DEF Answer, Break, Reset, ReadBroken
<1>6. CASE \/ OnResolveAll \/ OnErrorLater \/ OnClose
           \/ HandleStale("RESOLVE", {"OPENED"})
           \/ HandleStale("CONNECT", {"RESOLVED", "CONNECTING"})
  BY <1>2, <1>6 DEF OnResolveAll, OnErrorLater, OnClose, HandleStale
<1>7. ASSUME NEW s \in Slaves,
             \/ OnResolve(s) \/ ConnectDone(s) \/ ConnectPending(s) \/ ConnectRefused(s)
             \/ SendWrite(s) \/ SendFail(s) \/ SendNothing(s) \/ RecvNothing(s) \/ OnErrorRepair(s)
      PROVE  PollTypes'
  BY <1>2, <1>7 DEF OnErrorRepair, Reconnect, OnResolve, ConnectDone, ConnectPending, ConnectRefused, SendWrite, SendFail,
                    SendNothing, RecvNothing
<1> QED
  BY <1>4, <1>5, <1>6, <1>7 DEF Network, Driver

\* What the poll task reads.
LEMMA ReadType ==
  ASSUME Types, NEW s \in Slaves, ReadDone(s)
  PROVE  /\ node[s].rx \in Seq(Frames) /\ node[s].rx # <<>>
         /\ Head(node[s].rx) \in Frames /\ Tail(node[s].rx) \in Seq(Frames)
         /\ Has(node[s].rx, Head(node[s].rx))
         /\ \A f : Has(Tail(node[s].rx), f) => Has(node[s].rx, f)
         /\ node' = [node EXCEPT ![s].rx = Tail(node[s].rx)] /\ peer' = peer
         /\ buf' = Head(node[s].rx) /\ buf' \in Answers
<1>1. node[s].rx \in Seq(Frames) /\ node[s].rx # <<>>
  BY NodeType DEF Types, ReadDone
<1>2. /\ Head(node[s].rx) \in Frames /\ Tail(node[s].rx) \in Seq(Frames)
      /\ Has(node[s].rx, Head(node[s].rx))
      /\ \A f : Has(Tail(node[s].rx), f) => Has(node[s].rx, f)
  BY <1>1, TailHas
<1>3. /\ node' = [node EXCEPT ![s].rx = Tail(node[s].rx)] /\ peer' = peer
      /\ buf' = Head(node[s].rx)
  BY DEF ReadDone
<1>4. buf' \in Answers
  BY <1>2, <1>3, Constants DEF Frames, Answers
<1> QED
  BY <1>1, <1>2, <1>3, <1>4

LEMMA PollEvq ==
  ASSUME Poll
  PROVE  \/ /\ evq # <<>>
            /\ evq' \in {Tail(evq), Append(Tail(evq), "ERROR"), Append(Tail(evq), "EXECUTE")}
         \/ evq' \in {evq, Append(evq, "ERROR"), Append(evq, "EXECUTE")}
BY DEF Poll, PollReady, PollTransmit, PollRead, PollReceive, PollReject, PollIgnore, PollStale,
       Accept, Reject, Ignore, PollExecute, PollError, PollGets

LEMMA PollPollTypes ==
  ASSUME Types, Poll \/ TimerExpires \/ Started \/ Stop
  PROVE  PollTypes'
<1>1. evq \in Seq(PollEvents) /\ {"EXECUTE", "ERROR"} \subseteq PollEvents \ {"TRANSMIT"}
  BY DEF Types, PollTypes, PollEvents
<1>2. EvqStep \/ UNCHANGED evq
  <2>1. CASE Poll
    <3>1. \/ /\ evq # <<>>
             /\ evq' \in {Tail(evq), Append(Tail(evq), "ERROR"), Append(Tail(evq), "EXECUTE")}
          \/ evq' \in {evq, Append(evq, "ERROR"), Append(evq, "EXECUTE")}
      BY <2>1, PollEvq
    <3> QED
      BY <1>1, <3>1 DEF EvqStep
  <2>2. CASE TimerExpires
    BY <1>1, <2>2 DEF TimerExpires, EvqStep
  <2>3. CASE Started \/ Stop
    BY <2>3 DEF Started, Stop, fsm
  <2> QED
    BY <2>1, <2>2, <2>3
<1>3. /\ evq' \in Seq(PollEvents)
      /\ Has(evq', "TRANSMIT") => Has(evq, "TRANSMIT")
  BY <1>1, <1>2, EvqType
<1>4. /\ control' \in {"starting", "running", "stopped"} /\ errType' \in Errors
      /\ flags' \subseteq Errors \ {"INIT"} /\ res' \in BOOLEAN /\ timer' \in BOOLEAN
      /\ curTrans' \in 0..MaxReq /\ req' = req
  <2> USE DEF Poll, PollReady, PollTransmit, PollRead, PollReceive, PollReject, PollIgnore, PollStale, ReadDone, Accept, Reject, Ignore, PollExecute,
              PollError, TimerExpires, Started, Stop, fsm
  <2>1. errType' \in Errors
    BY DEF Types, PollTypes, Errors
  <2>2. flags' = flags \/ flags' = flags \union ({errType} \ {"INIT"})
    OBVIOUS
  <2>3. flags' \subseteq Errors \ {"INIT"}
    BY <2>2 DEF Types, PollTypes
  <2>4. curTrans' \in {curTrans, req.n, 0} /\ req' = req
    OBVIOUS
  <2>5. curTrans' \in 0..MaxReq
    BY <2>4, Constants DEF Types, PollTypes
  <2>6. res' \in BOOLEAN /\ timer' \in BOOLEAN
    BY DEF Types, PollTypes
  <2>7. control' \in {"starting", "running", "stopped"}
    BY DEF Types, PollTypes
  <2> QED
    BY <2>1, <2>3, <2>4, <2>5, <2>6, <2>7
<1>5. buf' \in Answers \union {NoFrame}
  <2>1. buf' = buf \/ \E s \in Slaves : ReadDone(s)
    BY DEF Poll, PollReady, PollTransmit, PollRead, PollStale, PollReceive, PollReject, PollIgnore,
           PollExecute, PollError, TimerExpires, Started, Stop, fsm, poll
  <2> QED
    BY <2>1, ReadType DEF Types, PollTypes
<1>6. reading' \in [node: Slaves, trans: 0..MaxReq] \union {NoRead}
  <2>1. \/ reading' = reading \/ reading' = NoRead
        \/ curNode # None /\ reading' = [node |-> curNode, trans |-> req.n]
    BY DEF Poll, PollReady, PollTransmit, PollRead, PollStale, PollReceive, PollReject, PollIgnore,
           ReadDone, PollExecute, PollError, TimerExpires, Started, Stop, fsm, poll
  <2>3. curNode \in Slaves \union {None} /\ req.n \in 0..MaxReq
    BY DEF Types, LinkTypes, PollTypes
  <2> QED
    BY <2>1, <2>3 DEF Types, PollTypes
<1> QED
  BY <1>3, <1>4, <1>5, <1>6 DEF Types, PollTypes

LEMMA CallerPollTypes ==
  ASSUME Types, Caller
  PROVE  PollTypes'
<1>1. ASSUME NEW s \in Slaves, Call(s) PROVE PollTypes'
  <2>1. evq \in Seq(PollEvents) /\ "TRANSMIT" \in PollEvents /\ req.n \in Nat
    BY DEF Types, PollTypes, PollEvents
  <2>2. evq' \in Seq(PollEvents)
    BY <1>1, <2>1 DEF Call
  <2>3. req' \in [n: 0..MaxReq, dst: Slaves, waits: BOOLEAN] /\ req'.n # 0
    BY <1>1, <2>1, Constants DEF Call
  <2> QED
    BY <1>1, <2>2, <2>3 DEF Call, poll, Types, PollTypes
<1>2. CASE CallReturn
  BY <1>2 DEF CallReturn, poll, Types, PollTypes
<1>3. CASE CallGiveUp
  BY <1>3 DEF CallGiveUp, Types, PollTypes, fsm, poll
<1> QED
  BY <1>1, <1>2, <1>3 DEF Caller
LEMMA DrvqTypes ==
  ASSUME Types, Next
  PROVE  drvq' \in Seq(DrvSet)
<1>1. drvq \in Seq(DrvSet)
  BY DEF Types, LinkTypes
<1>2. ASSUME NEW e \in DrvEvents, NEW s \in Slaves \union {All}, drvq' = Append(drvq, Event(e, s))
      PROVE  drvq' \in Seq(DrvSet)
  <2>1. DrvStep
    BY <1>2, EventType DEF DrvStep
  <2> QED
    BY <1>1, <2>1, DrvType
<1>3. ASSUME NEW e \in DrvEvents, NEW s \in Slaves \union {All}, drvq # <<>>,
             drvq' = Append(Tail(drvq), Event(e, s))
      PROVE  drvq' \in Seq(DrvSet)
  <2>1. DrvStep
    BY <1>3, EventType DEF DrvStep
  <2> QED
    BY <1>1, <2>1, DrvType
<1>4. CASE drvq # <<>> /\ drvq' = Tail(drvq)
  BY <1>1, <1>4, TailHas
<1>5. All \in Slaves \union {All} /\ \A s \in Slaves : s \in Slaves \union {All}
  OBVIOUS
<1>6. CASE Network
  BY <1>1, <1>2, <1>5, <1>6
  DEF Network, Answer, ReadBad, Break, Reset, ReadBroken, DrvEvents
<1>7. CASE Driver
  <2>1. CASE OnResolveAll
    <3>1. /\ {s \in Slaves : node[s].state = "OPENED"} \in SUBSET Slaves
          /\ "RESOLVE" \in DrvEvents
      BY DEF DrvEvents
    <3>2. InTurn("RESOLVE", {s \in Slaves : node[s].state = "OPENED"}) \in Seq(DrvSet)
      BY <3>1, InTurnHas
    <3>3. Tail(drvq) \in Seq(DrvSet)
      BY <1>1, <2>1, TailHas DEF OnResolveAll, Handle
    <3> QED
      BY <2>1, <3>2, <3>3, ConcatHas DEF OnResolveAll
  <2>2. CASE \/ OnErrorLater \/ OnClose \/ HandleStale("RESOLVE", {"OPENED"})
             \/ HandleStale("CONNECT", {"RESOLVED", "CONNECTING"})
    BY <1>4, <2>2 DEF OnErrorLater, OnClose, HandleStale, Handle
  <2>3. ASSUME NEW s \in Slaves, OnErrorRepair(s) PROVE drvq' \in Seq(DrvSet)
    BY <1>3, <1>5, <2>3 DEF OnErrorRepair, Reconnect, Handle, DrvEvents
  <2>4. ASSUME NEW s \in Slaves,
               \/ ConnectDone(s) \/ ConnectRefused(s) \/ SendWrite(s) \/ SendNothing(s)
               \/ RecvFound(s) \/ RecvNothing(s)
        PROVE  drvq' \in Seq(DrvSet)
    BY <1>4, <2>4 DEF ConnectDone, ConnectRefused, ConnectBegin, SendWrite, SendBegin,
                      SendNothing, RecvFound, RecvNothing, Handle
  <2>5. ASSUME NEW s \in Slaves, OnResolve(s) \/ ConnectPending(s) \/ SendFail(s)
        PROVE  drvq' \in Seq(DrvSet)
    BY <1>3, <1>5, <2>5 DEF OnResolve, ConnectPending, ConnectBegin, SendFail, SendBegin, Handle,
                            DrvEvents
  <2> QED
    BY <1>7, <2>1, <2>2, <2>3, <2>4, <2>5 DEF Driver
<1>8. CASE Poll
  <2>1. req.dst \in Slaves
    BY DEF Types, PollTypes
  <2> QED
    BY <1>1, <1>2, <1>5, <1>8, <2>1
    DEF Poll, PollReady, PollTransmit, PollRead, PollReceive, PollReject, PollIgnore, PollStale, ReadDone, Accept, Reject, Ignore, PollExecute,
        PollError, links, DrvEvents
<1>9. CASE TimerExpires \/ Caller \/ Started
  BY <1>1, <1>9 DEF TimerExpires, Caller, Call, CallReturn, CallGiveUp, Started, links
<1>10. CASE Stop
  BY <1>2, <1>5, <1>10 DEF Stop, DrvEvents
<1> QED
  BY <1>6, <1>7, <1>8, <1>9, <1>10 DEF Next

\* A frame written or a node closed leaves the links what they are.
LEMMA NodeTypes ==
  ASSUME Types, Next
  PROVE  node' \in [Slaves -> NodeSet] /\ peer' \in [Slaves -> PeerSet]
<1>1. node \in [Slaves -> NodeSet] /\ peer \in [Slaves -> PeerSet] /\ LinkTypes
  BY DEF Types, LinkTypes
<1>2. CASE UNCHANGED <<node, peer>>
  BY <1>1, <1>2
<1>3. ASSUME NEW s \in Slaves, NEW t \in NodeStates, node' = [node EXCEPT ![s].state = t]
      PROVE  node' \in [Slaves -> NodeSet]
  BY <1>1, <1>3, NodeType
<1>4. ASSUME NEW s \in Slaves, Answer(s) PROVE node' \in [Slaves -> NodeSet] /\ peer' \in [Slaves -> PeerSet]
  <2>1. peer[s].asked \in Seq(Frames) /\ peer[s].asked # <<>> /\ node[s].rx \in Seq(Frames)
    BY <1>1, <1>4, NodeType DEF Answer
  <2>2. Head(peer[s].asked) \in Frames /\ Tail(peer[s].asked) \in Seq(Frames)
    BY <2>1
  <2>3. Append(node[s].rx, Head(peer[s].asked)) \in Seq(Frames)
    BY <2>1, <2>2
  <2> QED
    BY <1>1, <1>4, <2>2, <2>3, NodeType DEF Answer
<1>5. ASSUME NEW s \in Slaves, ReadBad(s) \/ Break(s) \/ Reset(s) \/ ReadBroken(s)
      PROVE  node' \in [Slaves -> NodeSet] /\ peer' \in [Slaves -> PeerSet]
  BY <1>1, <1>5 DEF ReadBad, Break, Reset, ReadBroken, links, PeerSet
<1>6. ASSUME NEW s \in Slaves, OnResolve(s) \/ ConnectDone(s) \/ ConnectPending(s) \/ ConnectRefused(s)
      PROVE  node' \in [Slaves -> NodeSet] /\ peer' \in [Slaves -> PeerSet]
  <2>1. node[s].state \in NodeStates /\ {"OPENED", "RESOLVED", "CONNECTING", "CONNECTED"} \subseteq NodeStates
    BY <1>1, NodeType DEF NodeStates
  <2>2. node' = node \/ \E t \in NodeStates : node' = [node EXCEPT ![s].state = t]
    BY <1>6, <2>1 DEF OnResolve, ConnectDone, ConnectPending, ConnectRefused
  <2>3. node' \in [Slaves -> NodeSet]
    BY <1>1, <1>3, <2>2
  <2>4. [asked |-> <<>>, link |-> "up", refused |-> FALSE] \in PeerSet
    BY DEF PeerSet
  <2>5. \/ peer' = peer \/ peer' = [peer EXCEPT ![s].refused = TRUE]
        \/ peer' = [peer EXCEPT ![s] = [asked |-> <<>>, link |-> "up", refused |-> FALSE]]
    BY <1>6 DEF OnResolve, ConnectDone, ConnectPending, ConnectRefused
  <2>6. peer' \in [Slaves -> PeerSet]
    <3>1. CASE peer' = peer
      BY <1>1, <3>1
    <3>2. CASE peer' = [peer EXCEPT ![s].refused = TRUE]
      BY <1>1, <3>2 DEF PeerSet
    <3>3. CASE peer' = [peer EXCEPT ![s] = [asked |-> <<>>, link |-> "up", refused |-> FALSE]]
      BY <1>1, <2>4, <3>3
    <3> QED
      BY <2>5, <3>1, <3>2, <3>3
  <2> QED
    BY <2>3, <2>6
<1>7. ASSUME NEW s \in Slaves, OnErrorRepair(s)
      PROVE  node' \in [Slaves -> NodeSet] /\ peer' \in [Slaves -> PeerSet]
  BY <1>1, <1>7, NodeType DEF OnErrorRepair, Reconnect
<1>8. ASSUME NEW s \in Slaves, SendWrite(s) \/ SendFail(s)
      PROVE  node' \in [Slaves -> NodeSet] /\ peer' \in [Slaves -> PeerSet]
  <2>1. /\ node[s].tx \in Seq(Frames) /\ node[s].tx # <<>> /\ node[s].tid \in 0..TidTop
        /\ peer[s].asked \in Seq(Frames)
    BY <1>1, <1>8, NodeType DEF SendWrite, SendFail, SendBegin
  <2>2. Head(node[s].tx) \in Frames /\ Tail(node[s].tx) \in Seq(Frames)
    BY <2>1
  <2>3. NextTid(s) \in 0..TidTop
    BY <2>1, Constants DEF NextTid
  <2>4. Append(peer[s].asked, Head(node[s].tx)) \in Seq(Frames)
    BY <2>1, <2>2
  <2>5. [node EXCEPT ![s].tx = Tail(node[s].tx), ![s].tid = NextTid(s)] \in [Slaves -> NodeSet]
    BY <1>1, <2>2, <2>3, NodeType
  <2>6. [node EXCEPT ![s].tx = Tail(node[s].tx)] \in [Slaves -> NodeSet]
    BY <1>1, <2>2, NodeType
  <2>7. [peer EXCEPT ![s].asked = Append(peer[s].asked, Head(node[s].tx))] \in [Slaves -> PeerSet]
    BY <1>1, <2>4, NodeType
  <2> QED
    BY <1>1, <1>8, <2>5, <2>6, <2>7 DEF SendWrite, SendFail
<1>9. ASSUME NEW s \in Slaves, RecvFound(s) \/ RecvNothing(s)
      PROVE  node' \in [Slaves -> NodeSet] /\ peer' \in [Slaves -> PeerSet]
  <2>1. node[s].rx \in Seq(Frames)
    BY <1>1, NodeType
  <2>2. /\ <<>> \in Seq(Frames)
        /\ \A i \in DOMAIN node[s].rx :
              Append(SubSeq(node[s].rx, i + 1, Len(node[s].rx)), node[s].rx[i]) \in Seq(Frames)
    BY <2>1
  <2>3. /\ peer' = peer
        /\ \E q \in Seq(Frames) : node' = [node EXCEPT ![s].rx = q]
    BY <1>9, <2>1, <2>2 DEF RecvFound, RecvNothing
  <2>4. PICK q \in Seq(Frames) : node' = [node EXCEPT ![s].rx = q]
    BY <2>3
  <2>5. [node EXCEPT ![s].rx = q] \in [Slaves -> NodeSet]
    BY <1>1, NodeType
  <2> QED
    BY <1>1, <2>3, <2>4, <2>5
<1>10. CASE OnClose
  BY <1>1, <1>10, Constants DEF OnClose, NodeSet, NodeStates
<1>11. CASE PollTransmit
  <2>1. CASE UNCHANGED <<node, peer>>
    BY <1>1, <2>1
  <2>2. CASE node' # node
    <3>1. req.dst \in Slaves /\ req.n \in 1..MaxReq
      <4>1. Head(evq) = "TRANSMIT" /\ evq # <<>> /\ evq \in Seq(PollEvents)
        BY <1>11 DEF PollTransmit, PollGets, Types, PollTypes
      <4>2. Has(evq, "TRANSMIT")
        BY <4>1, TailHas
      <4> QED
        BY <4>2, Constants DEF Types, PollTypes
    <3>2. node[req.dst].tid \in 0..TidTop /\ node[req.dst].tx \in Seq(Frames)
      BY <1>1, <3>1, NodeType
    <3>3. [req |-> req.n, tid |-> node[req.dst].tid] \in Frames
      BY <3>1, <3>2 DEF Frames
    <3>4. Append(node[req.dst].tx, [req |-> req.n, tid |-> node[req.dst].tid]) \in Seq(Frames)
      BY <3>2, <3>3
    <3>5. [node EXCEPT ![req.dst].tx =
             Append(node[req.dst].tx, [req |-> req.n, tid |-> node[req.dst].tid])]
          \in [Slaves -> NodeSet]
      BY <1>1, <3>1, <3>4, NodeType
    <3> QED
      BY <1>1, <1>11, <2>2, <3>5 DEF PollTransmit
  <2> QED
    BY <1>11, <2>1, <2>2 DEF PollTransmit
<1>12. ASSUME NEW s \in Slaves, ReadDone(s)
       PROVE  node' \in [Slaves -> NodeSet] /\ peer' \in [Slaves -> PeerSet]
  <2>1. /\ Tail(node[s].rx) \in Seq(Frames)
        /\ node' = [node EXCEPT ![s].rx = Tail(node[s].rx)] /\ peer' = peer
    BY <1>12, ReadType
  <2> QED
    BY <1>1, <2>1, NodeType
<1>13. CASE \/ OnResolveAll \/ OnErrorLater \/ HandleStale("RESOLVE", {"OPENED"})
            \/ HandleStale("CONNECT", {"RESOLVED", "CONNECTING"})
            \/ (\E s \in Slaves : SendNothing(s))
            \/ PollReady \/ PollRead \/ PollStale \/ PollExecute \/ PollError
            \/ TimerExpires \/ Caller \/ Started \/ Stop
  BY <1>1, <1>13
  DEF OnResolveAll, OnErrorLater, HandleStale, SendNothing, PollReady, PollRead, PollStale, PollExecute, PollError,
      TimerExpires, Caller, Call, CallReturn, CallGiveUp, Started, Stop, links
<1> QED
  BY <1>4, <1>5, <1>6, <1>7, <1>8, <1>9, <1>10, <1>11, <1>12, <1>13
  DEF Next, Network, Driver, Poll, PollReceive, PollReject, PollIgnore

LEMMA LinkScalars ==
  ASSUME Types, Next
  PROVE  /\ connected' \in BOOLEAN /\ curNode' \in Slaves \union {None}
         /\ last' \in Frames \union {NoFrame}
<1>1. connected' = connected \/ \E b \in BOOLEAN : connected' = b
  BY DEF Next, Network, Answer, ReadBad, Break, Reset, ReadBroken, Driver, OnResolveAll, OnErrorRepair,
         Reconnect, OnErrorLater, OnClose, HandleStale, OnResolve, ConnectDone, ConnectPending,
         ConnectRefused, SendWrite, SendFail, SendNothing, RecvFound, RecvNothing, Poll,
         PollReady, PollTransmit, PollRead, PollReceive, PollReject, PollIgnore, PollStale, ReadDone, Accept, Reject, Ignore, PollExecute, PollError,
         TimerExpires, Caller, Call, CallReturn, CallGiveUp, Started, Stop, links
<1>2. curNode' = curNode \/ curNode' \in Slaves
  BY DEF Next, Network, Answer, ReadBad, Break, Reset, ReadBroken, Driver, OnResolveAll, OnErrorRepair,
         Reconnect, OnErrorLater, OnClose, HandleStale, OnResolve, ConnectDone, ConnectPending,
         ConnectRefused, SendWrite, SendFail, SendNothing, RecvFound, RecvNothing, Poll,
         PollReady, PollTransmit, PollRead, PollReceive, PollReject, PollIgnore, PollStale, ReadDone, Accept, Reject, Ignore, PollExecute, PollError,
         TimerExpires, Caller, Call, CallReturn, CallGiveUp, Started, Stop, links
<1>3. \/ last' = last \/ last' = NoFrame
      \/ \E s \in Slaves : node[s].tx # <<>> /\ last' = Head(node[s].tx)
  BY DEF Next, Network, Answer, ReadBad, Break, Reset, ReadBroken, Driver, OnResolveAll, OnErrorRepair,
         Reconnect, OnErrorLater, OnClose, HandleStale, OnResolve, ConnectDone, ConnectPending,
         ConnectRefused, SendWrite, SendBegin, SendFail, SendNothing, RecvFound, RecvNothing, Poll,
         PollReady, PollTransmit, PollRead, PollReceive, PollReject, PollIgnore, PollStale, ReadDone, Accept, Reject, Ignore, PollExecute, PollError,
         TimerExpires, Caller, Call, CallReturn, CallGiveUp, Started, Stop, links
<1>4. ASSUME NEW s \in Slaves, node[s].tx # <<>> PROVE Head(node[s].tx) \in Frames
  <2>1. node[s].tx \in Seq(Frames)
    BY NodeType DEF Types
  <2> QED
    BY <1>4, <2>1
<1> QED
  BY <1>1, <1>2, <1>3, <1>4 DEF Types, LinkTypes

LEMMA NextTypes == Types /\ [Next]_vars => Types'
<1>1. ASSUME Types, UNCHANGED vars PROVE Types'
  BY <1>1 DEF vars, poll, Types, LinkTypes, PollTypes, NodeSet, PeerSet
<1>2. ASSUME Types, Next PROVE Types'
  <2>1. LinkTypes'
    BY <1>2, DrvqTypes, NodeTypes, LinkScalars DEF LinkTypes
  <2>2. PollTypes'
    BY <1>2, DriverPollTypes, PollPollTypes, CallerPollTypes DEF Next
  <2> QED
    BY <2>1, <2>2 DEF Types
<1> QED
  BY <1>1, <1>2

LEMMA TypesAlways == Spec => []Types
BY InitTypes, NextTypes, PTL DEF Spec

\* The steps that move frames and events about and leave every node in its state.
Moving == \/ Network \/ OnResolveAll \/ OnErrorLater
          \/ HandleStale("RESOLVE", {"OPENED"})
          \/ HandleStale("CONNECT", {"RESOLVED", "CONNECTING"})
          \/ \E s \in Slaves : \/ SendWrite(s) \/ SendFail(s) \/ SendNothing(s)
                               \/ RecvFound(s) \/ RecvNothing(s)
          \/ Poll \/ TimerExpires \/ Caller \/ Started \/ Stop

LEMMA MovingKeeps ==
  ASSUME Types, Moving
  PROVE  /\ UNCHANGED connCount
         /\ \A r \in Slaves : /\ node'[r].state = node[r].state
                              /\ peer'[r].refused = peer[r].refused
<1>1. node \in [Slaves -> NodeSet] /\ peer \in [Slaves -> PeerSet]
  BY DEF Types, LinkTypes
<1>2. UNCHANGED connCount
  BY DEF Moving, Network, Answer, ReadBad, Break, Reset, ReadBroken, OnResolveAll,
         OnErrorLater, HandleStale, SendWrite, SendFail, SendNothing, RecvFound, RecvNothing, Poll,
         PollReady, PollTransmit, PollRead, PollReceive, PollReject, PollIgnore, PollStale, ReadDone, Accept, Reject, Ignore, PollExecute, PollError,
         TimerExpires, Caller, Call, CallReturn, CallGiveUp, Started, Stop, links
<1>3. ASSUME NEW s \in Slaves \union {None}, NEW q, NEW t,
             \/ node' = [node EXCEPT ![s].rx = q] \/ node' = [node EXCEPT ![s].tx = q]
             \/ node' = [node EXCEPT ![s].tx = q, ![s].tid = t] \/ node' = node
      PROVE  \A r \in Slaves : node'[r].state = node[r].state
  <2>1. ASSUME NEW r \in Slaves PROVE node'[r].state = node[r].state
    <3>1. node[r] \in NodeSet
      BY <1>1
    <3> QED
      BY <1>1, <1>3, <3>1 DEF NodeSet
  <2> QED
    BY <2>1
<1>4. \A r \in Slaves : node'[r].state = node[r].state
  <2>1. req.dst \in Slaves /\ curNode \in Slaves \union {None}
    BY DEF Types, LinkTypes, PollTypes
  <2>2. ASSUME NEW s \in Slaves, Answer(s)
        PROVE  \A r \in Slaves : node'[r].state = node[r].state
    <3>1. node' = [node EXCEPT ![s].rx = Append(node[s].rx, Head(peer[s].asked))]
      BY <2>2 DEF Answer
    <3> QED
      BY <1>3, <3>1
  <2>3. ASSUME NEW s \in Slaves, SendWrite(s)
        PROVE  \A r \in Slaves : node'[r].state = node[r].state
    <3>1. node' = [node EXCEPT ![s].tx = Tail(node[s].tx), ![s].tid = NextTid(s)]
      BY <2>3 DEF SendWrite
    <3> QED
      BY <1>3, <3>1
  <2>4. ASSUME NEW s \in Slaves, SendFail(s)
        PROVE  \A r \in Slaves : node'[r].state = node[r].state
    <3>1. node' = [node EXCEPT ![s].tx = Tail(node[s].tx)]
      BY <2>4 DEF SendFail
    <3> QED
      BY <1>3, <3>1
  <2>5. ASSUME NEW s \in Slaves, RecvFound(s) \/ RecvNothing(s)
        PROVE  \A r \in Slaves : node'[r].state = node[r].state
    <3>1. \E q : node' = [node EXCEPT ![s].rx = q]
      BY <2>5 DEF RecvFound, RecvNothing
    <3> QED
      BY <1>3, <3>1
  <2>6. CASE PollTransmit
    <3>1. \/ node' = [node EXCEPT ![req.dst].tx =
                        Append(node[req.dst].tx, [req |-> req.n, tid |-> node[req.dst].tid])]
          \/ node' = node
      BY <2>6 DEF PollTransmit
    <3> QED
      BY <1>3, <2>1, <3>1
  <2>7. ASSUME NEW s \in Slaves, ReadDone(s)
        PROVE  \A r \in Slaves : node'[r].state = node[r].state
    <3>1. node' = [node EXCEPT ![s].rx = Tail(node[s].rx)]
      BY <2>7 DEF ReadDone
    <3> QED
      BY <1>3, <3>1
  <2>8. CASE node' = node
    BY <2>8
  <2> QED
    BY <2>2, <2>3, <2>4, <2>5, <2>6, <2>7, <2>8
    DEF Moving, Network, ReadBad, Break, Reset, ReadBroken, OnResolveAll, OnErrorLater, HandleStale,
        SendNothing, Poll, PollReady, PollRead, PollReceive, PollReject, PollIgnore, PollStale,
        PollExecute, PollError, TimerExpires, Caller, Call,
        CallReturn, CallGiveUp, Started, Stop, links
<1>5. \A r \in Slaves : peer'[r].refused = peer[r].refused
  <2>1. \A r \in Slaves : peer[r] \in PeerSet
    BY <1>1
  <2>2. ASSUME NEW s \in Slaves, Answer(s) \/ Break(s) \/ Reset(s) \/ SendWrite(s)
        PROVE  \A r \in Slaves : peer'[r].refused = peer[r].refused
    BY <1>1, <2>1, <2>2 DEF Answer, Break, Reset, SendWrite, PeerSet
  <2>3. CASE peer' = peer
    BY <2>3
  <2> QED
    BY <2>2, <2>3
    DEF Moving, Network, ReadBad, ReadBroken, OnResolveAll,
        OnErrorLater, HandleStale, SendFail, SendNothing, RecvFound, RecvNothing, Poll,
        PollReady, PollTransmit, PollRead, PollReceive, PollReject, PollIgnore, PollStale, ReadDone, Accept, Reject, Ignore, PollExecute, PollError,
        TimerExpires, Caller, Call, CallReturn, CallGiveUp, Started, Stop, links
<1> QED
  BY <1>2, <1>4, <1>5

-------------------------------------------------------------------------------
(* The count of the connected nodes.                                       *)

InUse == {s \in Slaves : Connected(s)}

LEMMA NextCounts ==
  ASSUME Types, CountAgrees, [Next]_vars
  PROVE  CountAgrees'
<1>1. /\ IsFiniteSet(InUse) /\ Cardinality(InUse) = connCount /\ connCount \in Nat
  <2>1. InUse \in SUBSET Slaves
    BY DEF InUse
  <2>2. IsFiniteSet(InUse) /\ Cardinality(InUse) \in 0..MaxSlaves /\ MaxSlaves \in Nat
    BY <2>1, SlavesFinite, Constants
  <2> QED
    BY <2>2 DEF CountAgrees, InUse
<1>2. ASSUME UNCHANGED connCount, \A s \in Slaves : Connected(s)' <=> Connected(s)
      PROVE  CountAgrees'
  <2>1. InUse' = InUse
    BY <1>2 DEF InUse
  <2> QED
    BY <1>1, <1>2, <2>1 DEF CountAgrees, InUse
<1>3. node \in [Slaves -> NodeSet] /\ LinkTypes
  BY DEF Types, LinkTypes
<1>4. ASSUME NEW s \in Slaves, ConnectDone(s) PROVE CountAgrees'
  <2>1. s \notin InUse
    BY <1>4 DEF ConnectDone, ConnectBegin, InUse, Connected
  <2>2. InUse' = InUse \union {s}
    BY <1>3, <1>4 DEF ConnectDone, InUse, Connected, NodeSet
  <2>3. Cardinality(InUse \union {s}) = Cardinality(InUse) + 1
    BY <1>1, <2>1, FS_AddElement
  <2> QED
    BY <1>1, <1>4, <2>2, <2>3 DEF ConnectDone, CountAgrees, InUse
<1>5. ASSUME NEW m \in Slaves, OnErrorRepair(m) PROVE CountAgrees'
  <2>1. Connected(m) /\ Reconnect(m)
    BY <1>5 DEF OnErrorRepair, CheckedFrom
  <2>2. m \in InUse
    BY <2>1 DEF InUse
  <2>3. InUse' = InUse \ {m}
    BY <1>3, <2>1 DEF Reconnect, Closed, InUse, Connected, NodeSet
  <2>4. Cardinality(InUse \ {m}) = Cardinality(InUse) - 1
    BY <1>1, <2>2, FS_RemoveElement
  <2>5. connCount # 0
    BY <1>1, <2>2, FS_EmptySet
  <2>6. connCount' = connCount - 1
    BY <1>1, <2>1, <2>5 DEF Reconnect
  <2> QED
    BY <1>1, <2>3, <2>4, <2>6 DEF CountAgrees, InUse
<1>6. CASE OnClose
  <2>1. InUse' = {}
    BY <1>6 DEF OnClose, InUse, Connected
  <2> QED
    BY <1>6, <2>1, FS_EmptySet DEF OnClose, CountAgrees, InUse
<1>7. ASSUME NEW s \in Slaves, OnResolve(s) \/ ConnectPending(s) \/ ConnectRefused(s)
      PROVE  CountAgrees'
  <2>1. ~Connected(s)
    BY <1>7 DEF OnResolve, ConnectPending, ConnectRefused, ConnectBegin, Connected
  <2>2. /\ UNCHANGED connCount
        /\ \E t \in NodeStates \ {"CONNECTED"} : node' = [node EXCEPT ![s].state = t]
    <3>1. node[s].state \in NodeStates
      BY <1>3, NodeType
    <3>2. node = [node EXCEPT ![s].state = node[s].state]
      BY <1>3 DEF NodeSet
    <3> QED
      BY <1>7, <2>1, <3>1, <3>2
      DEF OnResolve, ConnectPending, ConnectRefused, Connected, NodeStates
  <2>3. \A r \in Slaves : Connected(r)' <=> Connected(r)
    BY <1>3, <2>1, <2>2 DEF Connected, NodeSet
  <2> QED
    BY <1>2, <2>2, <2>3
<1>8. CASE UNCHANGED <<node, connCount>>
  BY <1>2, <1>8 DEF Connected
<1>9. CASE Moving
  BY <1>2, <1>9, MovingKeeps DEF Connected
<1> QED
  BY <1>4, <1>5, <1>6, <1>7, <1>8, <1>9 DEF Next, Network, Driver, Moving, vars

LEMMA InitCounts == Init => CountAgrees
<1>1. ASSUME Init, Starts PROVE CountAgrees
  <2>1. {s \in Slaves : Connected(s)} = {}
    BY <1>1 DEF Starts, Connected
  <2> QED
    BY <1>1, <2>1, FS_EmptySet DEF Starts, CountAgrees
<1>2. ASSUME Init, Runs PROVE CountAgrees
  <2>1. {s \in Slaves : Connected(s)} = Slaves
    BY <1>2 DEF Runs, Connected
  <2> QED
    BY <1>2, <2>1, SlavesFinite DEF Runs, CountAgrees
<1> QED
  BY <1>1, <1>2 DEF Init

\* The variables keep their types, for any number of slaves, requests and faults; the
\* count of the connected nodes is never more than the slaves there are.
THEOREM TypeCorrect == Spec => []TypeOK
<1>1. Types /\ CountAgrees => TypeOK
  <2> SUFFICES ASSUME Types, CountAgrees PROVE TypeOK
    OBVIOUS
  <2>1. connCount \in 0..MaxSlaves
    <3>1. {s \in Slaves : Connected(s)} \in SUBSET Slaves
      OBVIOUS
    <3> QED
      BY <3>1, SlavesFinite DEF CountAgrees
  <2>2. ASSUME NEW s \in Slaves
        PROVE  /\ node[s].state \in NodeStates /\ node[s].tid \in 0..TidTop
               /\ \A i \in DOMAIN node[s].rx : node[s].rx[i] \in Frames
               /\ \A i \in DOMAIN node[s].tx : node[s].tx[i] \in Frames
               /\ \A i \in DOMAIN peer[s].asked : peer[s].asked[i] \in Frames
               /\ peer[s].link \in {"up", "reset", "closed"} /\ peer[s].refused \in BOOLEAN
    <3>1. /\ node[s].rx \in Seq(Frames) /\ node[s].tx \in Seq(Frames)
          /\ peer[s].asked \in Seq(Frames)
      BY NodeType DEF Types
    <3>2. \A q \in Seq(Frames) : \A i \in DOMAIN q : q[i] \in Frames
      OBVIOUS
    <3>3. node[s].state \in NodeStates /\ node[s].tid \in 0..TidTop
      BY NodeType DEF Types
    <3>4. peer[s] \in PeerSet
      BY DEF Types, LinkTypes
    <3> QED
      BY <3>1, <3>2, <3>3, <3>4 DEF PeerSet
  <2>3. \A i \in DOMAIN drvq : drvq[i].node \in Slaves \union {All}
    <3>1. drvq \in Seq(DrvSet)
      BY DEF Types, LinkTypes
    <3>2. \A i \in DOMAIN drvq : drvq[i] \in DrvSet
      BY <3>1
    <3> QED
      BY <3>2 DEF DrvSet
  <2>4. \A i \in DOMAIN evq : evq[i] \in PollEvents
    <3>1. evq \in Seq(PollEvents)
      BY DEF Types, PollTypes
    <3> QED
      BY <3>1
  <2>5. reading = NoRead \/ reading.node \in Slaves
    BY DEF Types, PollTypes
  <2> QED
    BY <2>1, <2>2, <2>3, <2>4, <2>5
    DEF TypeOK, Types, LinkTypes, PollTypes, Errors, NodeStates, PollEvents
<1>2. Init => CountAgrees
  BY InitCounts
<1>3. Types /\ CountAgrees /\ [Next]_vars => CountAgrees'
  BY NextCounts
<1> QED
  BY <1>1, <1>2, <1>3, TypesAlways, PTL DEF Spec

\* node_conn_count is the number of nodes that are connected, whatever connections come
\* about, break and are made again: polling starts when it reaches all slaves.
THEOREM CountAlwaysAgrees == Spec => []CountAgrees
<1>1. Init => CountAgrees
  BY InitCounts
<1>2. Types /\ CountAgrees /\ [Next]_vars => CountAgrees'
  BY NextCounts
<1> QED
  BY <1>1, <1>2, TypesAlways, PTL DEF Spec

-------------------------------------------------------------------------------
(* The events that take a node on.                                         *)

Waits(s) == /\ node[s].state = "OPENED" =>
                 Has(drvq, Event("RESOLVE", s)) \/ Has(drvq, Event("RESOLVE", All))
            /\ node[s].state \in {"RESOLVED", "CONNECTING"} => Has(drvq, Event("CONNECT", s))

AllWait == \A s \in Slaves : Waits(s) \/ peer[s].refused

LEMMA WaitsIsAwaited == AllWait <=> NotForgotten
BY DEF AllWait, NotForgotten, Waits, Awaited, Queued, Has

LEMMA EventsDiffer ==
  ASSUME NEW e \in DrvEvents, NEW f \in DrvEvents,
         NEW s \in Slaves \union {All}, NEW t \in Slaves \union {All}, Event(e, s) = Event(f, t)
  PROVE  e = f /\ s = t
BY DEF Event

\* Events stay queued when others are posted behind them, or another one is handled.
LEMMA QueuedKept ==
  ASSUME drvq \in Seq(DrvSet), NEW x, Has(drvq, x),
         \/ drvq' = drvq \/ \E e \in DrvSet : drvq' = Append(drvq, e)
         \/ /\ drvq # <<>> /\ Head(drvq) # x
            /\ drvq' = Tail(drvq) \/ \E e \in DrvSet : drvq' = Append(Tail(drvq), e)
  PROVE  Has(drvq', x)
<1>1. CASE drvq' = drvq
  BY <1>1
<1>2. CASE \E e \in DrvSet : drvq' = Append(drvq, e)
  BY <1>2, AppendHas
<1>3. CASE drvq # <<>> /\ Head(drvq) # x
           /\ (drvq' = Tail(drvq) \/ \E e \in DrvSet : drvq' = Append(Tail(drvq), e))
  <2>1. Tail(drvq) \in Seq(DrvSet) /\ Has(Tail(drvq), x)
    BY <1>3, TailHas
  <2>2. \A e \in DrvSet : Has(Append(Tail(drvq), e), x)
    BY <2>1, AppendHas
  <2> QED
    BY <1>3, <2>1, <2>2
<1> QED
  BY <1>1, <1>2, <1>3

\* The event at the head is handled, and it is none that node r waits for.
LEMMA OtherWaits ==
  ASSUME Types, NEW r \in Slaves, Waits(r), node'[r].state = node[r].state,
         \/ drvq' = drvq \/ \E e \in DrvSet : drvq' = Append(drvq, e)
         \/ /\ drvq # <<>>
            /\ node[r].state = "OPENED" =>
                 Head(drvq) \notin {Event("RESOLVE", r), Event("RESOLVE", All)}
            /\ node[r].state \in {"RESOLVED", "CONNECTING"} => Head(drvq) # Event("CONNECT", r)
            /\ drvq' = Tail(drvq) \/ \E e \in DrvSet : drvq' = Append(Tail(drvq), e)
  PROVE  Waits(r)'
<1>1. drvq \in Seq(DrvSet)
  BY DEF Types, LinkTypes
<1>2. CASE node[r].state = "OPENED"
  <2>1. PICK x \in {Event("RESOLVE", r), Event("RESOLVE", All)} : Has(drvq, x)
    BY <1>2 DEF Waits
  <2>2. Has(drvq', x)
    BY <1>1, <1>2, <2>1, QueuedKept
  <2> QED
    BY <1>2, <2>1, <2>2 DEF Waits, Has, Event
<1>3. CASE node[r].state \in {"RESOLVED", "CONNECTING"}
  <2>1. Has(drvq, Event("CONNECT", r))
    BY <1>3 DEF Waits
  <2>2. Has(drvq', Event("CONNECT", r))
    BY <1>1, <1>3, <2>1, QueuedKept
  <2> QED
    BY <1>3, <2>2 DEF Waits, Has, Event
<1> QED
  BY <1>2, <1>3 DEF Waits
LEMMA NextWaits ==
  ASSUME Types, AllWait, [Next]_vars
  PROVE  AllWait'
<1>1. /\ drvq \in Seq(DrvSet) /\ drvq' \in Seq(DrvSet) /\ LinkTypes
      /\ node \in [Slaves -> NodeSet] /\ peer \in [Slaves -> PeerSet]
  <2>1. Types'
    BY NextTypes
  <2> QED
    BY <2>1 DEF Types, LinkTypes
<1>2. /\ All \in Slaves \union {All} /\ All \notin Slaves
      /\ \A s \in Slaves : s \in Slaves \union {All}
      /\ {"RESOLVE", "CONNECT", "ERROR", "SEND_DATA", "RECV_DATA", "CLOSE"} \subseteq DrvEvents
  BY Constants DEF DrvEvents, All
\* A node of which nothing changes but what is queued.
<1>3. ASSUME NEW r \in Slaves, Waits(r)', ~peer[r].refused \/ peer'[r].refused = peer[r].refused
      PROVE  Waits(r)' \/ peer'[r].refused
  BY <1>3
<1>4. ASSUME \A r \in Slaves : /\ node'[r].state = node[r].state
                               /\ peer'[r].refused = peer[r].refused,
             \/ drvq' = drvq \/ \E e \in DrvSet : drvq' = Append(drvq, e)
             \/ \E e \in DrvEvents, s \in Slaves \union {All} :
                   /\ drvq # <<>> /\ Head(drvq) = Event(e, s)
                   /\ s # All /\ e = "RESOLVE" => node[s].state # "OPENED"
                   /\ s # All /\ e = "CONNECT" => node[s].state \notin {"RESOLVED", "CONNECTING"}
                   /\ s = All => e = "CLOSE"
                   /\ drvq' = Tail(drvq) \/ \E f \in DrvSet : drvq' = Append(Tail(drvq), f)
      PROVE  AllWait'
  <2> SUFFICES ASSUME NEW r \in Slaves, Waits(r) PROVE Waits(r)'
    BY <1>4 DEF AllWait
  <2>1. CASE drvq' = drvq \/ \E e \in DrvSet : drvq' = Append(drvq, e)
    BY <1>4, <2>1, OtherWaits
  <2>2. ASSUME NEW e \in DrvEvents, NEW s \in Slaves \union {All},
               drvq # <<>>, Head(drvq) = Event(e, s),
               s # All /\ e = "RESOLVE" => node[s].state # "OPENED",
               s # All /\ e = "CONNECT" => node[s].state \notin {"RESOLVED", "CONNECTING"},
               s = All => e = "CLOSE",
               drvq' = Tail(drvq) \/ \E f \in DrvSet : drvq' = Append(Tail(drvq), f)
        PROVE  Waits(r)'
    <3>1. node[r].state = "OPENED" => Head(drvq) \notin {Event("RESOLVE", r), Event("RESOLVE", All)}
      BY <1>2, <2>2, EventsDiffer
    <3>2. node[r].state \in {"RESOLVED", "CONNECTING"} => Head(drvq) # Event("CONNECT", r)
      BY <1>2, <2>2, EventsDiffer
    <3> QED
      BY <1>4, <2>2, <3>1, <3>2, OtherWaits
  <2> QED
    BY <1>4, <2>1, <2>2
\* The node r is taken on or given up, and the others wait for other events.
<1>5. ASSUME NEW s \in Slaves, NEW e \in {"RESOLVE", "CONNECT", "ERROR"}, NEW f \in Slaves,
             drvq # <<>>, Head(drvq) = Event(e, f), e # "ERROR" => f = s,
             \A r \in Slaves \ {s} : /\ node'[r].state = node[r].state
                                     /\ peer'[r].refused = peer[r].refused,
             drvq' = Tail(drvq) \/ \E x \in DrvSet : drvq' = Append(Tail(drvq), x),
             Waits(s)' \/ peer'[s].refused
      PROVE  AllWait'
  <2> SUFFICES ASSUME NEW r \in Slaves \ {s}, Waits(r) PROVE Waits(r)'
    BY <1>5 DEF AllWait
  <2>1. node[r].state = "OPENED" => Head(drvq) \notin {Event("RESOLVE", r), Event("RESOLVE", All)}
    BY <1>2, <1>5, EventsDiffer
  <2>2. node[r].state \in {"RESOLVED", "CONNECTING"} => Head(drvq) # Event("CONNECT", r)
    BY <1>2, <1>5, EventsDiffer
  <2> QED
    BY <1>5, <2>1, <2>2, OtherWaits
<1>6. CASE OnResolveAll
  <2> DEFINE S == {s \in Slaves : node[s].state = "OPENED"}
  <2>1. /\ InTurn("RESOLVE", S) \in Seq(DrvSet)
        /\ \A s \in S : Has(InTurn("RESOLVE", S), Event("RESOLVE", s))
    BY <1>2, InTurnHas
  <2>2. /\ drvq # <<>> /\ Head(drvq) = Event("RESOLVE", All)
        /\ drvq' = Tail(drvq) \o InTurn("RESOLVE", S) /\ UNCHANGED <<node, peer>>
    BY <1>6 DEF OnResolveAll, Handle, links
  <2>3. /\ Tail(drvq) \in Seq(DrvSet)
        /\ \A x : Has(drvq, x) /\ x # Head(drvq) => Has(Tail(drvq), x)
    BY <1>1, <2>2, TailHas
  <2>4. \A x : Has(Tail(drvq), x) \/ Has(InTurn("RESOLVE", S), x) => Has(drvq', x)
    BY <2>1, <2>2, <2>3, ConcatHas
  <2>5. ASSUME NEW r \in Slaves, Waits(r) PROVE Waits(r)'
    <3>1. CASE node[r].state = "OPENED"
      <4>1. Has(drvq', Event("RESOLVE", r))
        BY <2>1, <2>4, <3>1
      <4> QED
        BY <2>2, <3>1, <4>1 DEF Waits, Has, Event
    <3>2. CASE node[r].state \in {"RESOLVED", "CONNECTING"}
      <4>1. Has(drvq, Event("CONNECT", r)) /\ Event("CONNECT", r) # Event("RESOLVE", All)
        <5>1. Event("CONNECT", r).ev # Event("RESOLVE", All).ev
          BY DEF Event
        <5>2. Has(drvq, Event("CONNECT", r))
          BY <2>5, <3>2 DEF Waits
        <5> QED
          BY <5>1, <5>2
      <4>2. Has(drvq', Event("CONNECT", r))
        BY <2>2, <2>3, <2>4, <4>1
      <4> QED
        BY <2>2, <3>2, <4>2 DEF Waits, Has, Event
    <3> QED
      BY <2>2, <3>1, <3>2 DEF Waits
  <2> QED
    BY <2>2, <2>5 DEF AllWait
<1>7. CASE OnClose
  BY <1>7 DEF OnClose, AllWait, Waits
<1>8. ASSUME NEW s \in Slaves, OnResolve(s) \/ ConnectDone(s) \/ ConnectPending(s) \/ ConnectRefused(s)
      PROVE  AllWait'
  <2>1. /\ drvq # <<>>
        /\ \E e \in {"RESOLVE", "CONNECT", "ERROR"} : Head(drvq) = Event(e, s)
    BY <1>8 DEF OnResolve, ConnectDone, ConnectPending, ConnectRefused, ConnectBegin, Handle
  <2>2. \A r \in Slaves \ {s} : /\ node'[r].state = node[r].state
                                /\ peer'[r].refused = peer[r].refused
    BY <1>1, <1>8 DEF OnResolve, ConnectDone, ConnectPending, ConnectRefused
  <2>3. Tail(drvq) \in Seq(DrvSet)
    BY <1>1, <2>1, TailHas
  <2>4. \A e \in {"RESOLVE", "CONNECT"} :
           /\ Event(e, s) \in DrvSet
           /\ Has(Append(Tail(drvq), Event(e, s)), Event(e, s))
    <3>1. \A e \in {"RESOLVE", "CONNECT"} : Event(e, s) \in DrvSet
      BY <1>2, EventType
    <3>2. \A x \in DrvSet : Has(Append(Tail(drvq), x), x)
      BY <2>3, AppendHas
    <3> QED
      BY <3>1, <3>2
  <2>5. drvq' = Tail(drvq) \/ \E x \in DrvSet : drvq' = Append(Tail(drvq), x)
    BY <1>8, <2>4 DEF OnResolve, ConnectDone, ConnectPending, ConnectRefused
  <2>6. Waits(s)' \/ peer'[s].refused
    <3>1. node[s] \in NodeSet /\ peer[s] \in PeerSet
      BY <1>1
    <3>2. CASE OnResolve(s)
      <4>1. \/ node'[s].state = "RESOLVED" /\ drvq' = Append(Tail(drvq), Event("CONNECT", s))
            \/ node'[s].state = "OPENED" /\ drvq' = Append(Tail(drvq), Event("RESOLVE", s))
        BY <1>1, <3>1, <3>2 DEF OnResolve, NodeSet
      <4> QED
        BY <2>4, <4>1 DEF Waits, Has, Event
    <3>3. CASE ConnectDone(s)
      <4>1. node'[s].state = "CONNECTED"
        BY <1>1, <3>1, <3>3 DEF ConnectDone, NodeSet
      <4> QED
        BY <4>1 DEF Waits
    <3>4. CASE ConnectPending(s)
      <4>1. node'[s].state = "CONNECTING" /\ drvq' = Append(Tail(drvq), Event("CONNECT", s))
        BY <1>1, <3>1, <3>4 DEF ConnectPending, NodeSet
      <4> QED
        BY <2>4, <4>1 DEF Waits, Has, Event
    <3>5. CASE ConnectRefused(s)
      BY <1>1, <3>1, <3>5 DEF ConnectRefused, PeerSet
    <3> QED
      BY <1>8, <3>2, <3>3, <3>4, <3>5
  <2> QED
    BY <1>5, <2>1, <2>2, <2>5, <2>6
<1>9. ASSUME NEW m \in Slaves, OnErrorRepair(m) PROVE AllWait'
  <2>1. PICK f \in Slaves : Handle("ERROR", f) /\ Reconnect(m)
    BY <1>9 DEF OnErrorRepair
  <2>2. Tail(drvq) \in Seq(DrvSet) /\ drvq # <<>> /\ Head(drvq) = Event("ERROR", f)
    BY <1>1, <2>1, TailHas DEF Handle
  <2>3. Event("RESOLVE", m) \in DrvSet
    BY <1>2, EventType
  <2>4. drvq' = Append(Tail(drvq), Event("RESOLVE", m)) /\ Has(drvq', Event("RESOLVE", m))
    <3>1. Has(Append(Tail(drvq), Event("RESOLVE", m)), Event("RESOLVE", m))
      <4>1. \A x \in DrvSet : Has(Append(Tail(drvq), x), x)
        BY <2>2, AppendHas
      <4> QED
        BY <2>3, <4>1
    <3> QED
      BY <2>1, <3>1 DEF Reconnect
  <2>5. /\ \A r \in Slaves \ {m} : /\ node'[r].state = node[r].state
                                   /\ peer'[r].refused = peer[r].refused
        /\ node'[m].state = "OPENED"
    BY <1>1, <2>1 DEF Reconnect, Closed, NodeSet
  <2>6. Waits(m)'
    BY <2>4, <2>5 DEF Waits, Has, Event
  <2> QED
    BY <1>5, <2>2, <2>3, <2>4, <2>5, <2>6
<1>10. CASE Moving /\ ~OnResolveAll
  <2>1. \A r \in Slaves : /\ node'[r].state = node[r].state
                          /\ peer'[r].refused = peer[r].refused
    BY <1>10, MovingKeeps
  <2>2. \A e \in DrvEvents, s \in Slaves \union {All} : Event(e, s) \in DrvSet
    BY EventType
  <2>3. CASE drvq' = drvq \/ \E e \in DrvSet : drvq' = Append(drvq, e)
    BY <1>4, <2>1, <2>3
  <2>4. ASSUME NEW e \in DrvEvents \ {"RESOLVE", "CONNECT"}, NEW s \in Slaves, Handle(e, s),
               drvq' = Tail(drvq) \/ \E f \in DrvSet : drvq' = Append(Tail(drvq), f)
        PROVE  AllWait'
    <3>1. s # All /\ s \in Slaves \union {All} /\ e \in DrvEvents
      BY <1>2
    <3> QED
      BY <1>4, <2>1, <2>4, <3>1 DEF Handle
  <2>5. CASE HandleStale("RESOLVE", {"OPENED"}) \/ HandleStale("CONNECT", {"RESOLVED", "CONNECTING"})
    <3>1. PICK e \in {"RESOLVE", "CONNECT"}, s \in Slaves :
             /\ Handle(e, s) /\ drvq' = Tail(drvq)
             /\ e = "RESOLVE" => node[s].state # "OPENED"
             /\ e = "CONNECT" => node[s].state \notin {"RESOLVED", "CONNECTING"}
      BY <2>5 DEF HandleStale
    <3>2. s # All /\ s \in Slaves \union {All} /\ e \in DrvEvents
      BY <1>2
    <3> QED
      BY <1>4, <2>1, <3>1, <3>2 DEF Handle
  <2>6. CASE Network \/ Poll \/ TimerExpires \/ Caller \/ Started \/ Stop
    <3>1. req.dst \in Slaves \union {All}
      BY DEF Types, PollTypes
    <3>2. \/ drvq' = drvq
          \/ \E e \in DrvEvents, s \in Slaves \union {All} : drvq' = Append(drvq, Event(e, s))
      BY <1>2, <2>6, <3>1
      DEF Network, Answer, ReadBad, Break, Reset, ReadBroken, Poll,
          PollReady, PollTransmit, PollRead, PollReceive, PollReject, PollIgnore, PollStale, ReadDone, Accept, Reject, Ignore, PollExecute, PollError,
          TimerExpires, Caller, Call, CallReturn, CallGiveUp, Started, Stop, links
    <3> QED
      BY <2>2, <2>3, <3>2
  <2>7. CASE OnErrorLater
    BY <1>2, <2>4, <2>7 DEF OnErrorLater
  <2>8. ASSUME NEW s \in Slaves,
               SendWrite(s) \/ SendFail(s) \/ SendNothing(s) \/ RecvFound(s) \/ RecvNothing(s)
        PROVE  AllWait'
    <3>1. \E e \in DrvEvents \ {"RESOLVE", "CONNECT"} : Handle(e, s)
      BY <1>2, <2>8 DEF SendWrite, SendFail, SendBegin, SendNothing, RecvFound, RecvNothing
    <3>2. drvq' = Tail(drvq) \/ drvq' = Append(Tail(drvq), Event("ERROR", s))
      BY <2>8 DEF SendWrite, SendFail, SendNothing, RecvFound, RecvNothing
    <3>3. Event("ERROR", s) \in DrvSet
      BY <1>2, <2>2
    <3> QED
      BY <2>4, <3>1, <3>2, <3>3
  <2> QED
    BY <1>10, <2>5, <2>6, <2>7, <2>8 DEF Moving
<1>11. CASE UNCHANGED vars
  BY <1>11 DEF vars, AllWait, Waits
<1> QED
  BY <1>6, <1>7, <1>8, <1>9, <1>10, <1>11 DEF Next, Driver, Moving

\* A slave that is not connected has an event queued that resolves or connects it, so
\* that none is forgotten, unless it has refused a connection; whatever breaks or fails.
THEOREM NeverForgotten == Spec => []NotForgotten
<1>1. Init => AllWait
  <2> SUFFICES ASSUME Init PROVE AllWait
    OBVIOUS
  <2>1. CASE Starts
    <3>1. Has(drvq, Event("RESOLVE", All))
      BY <2>1 DEF Starts, Has
    <3> QED
      BY <2>1, <3>1 DEF Starts, AllWait, Waits
  <2>2. CASE Runs
    BY <2>2 DEF Runs, AllWait, Waits
  <2> QED
    BY <2>1, <2>2 DEF Init
<1>2. Types /\ AllWait /\ [Next]_vars => AllWait'
  BY NextWaits
<1> QED
  BY <1>1, <1>2, TypesAlways, WaitsIsAwaited, PTL DEF Spec
-------------------------------------------------------------------------------
(* What a step does to the frames of a slave.                              *)

\* The slave was asked f, and its answer is on its way or waits to be taken.
Out(s, f) == Has(node[s].rx, f) \/ Has(peer[s].asked, f)

IsClosed(s) == node[s].state = "CLOSED"

\* Frames of r are moved on or dropped, and none is added.
Shrinks(r) == /\ node'[r].tid = node[r].tid
              /\ Len(node'[r].tx) <= Len(node[r].tx)
              /\ \A f \in Frames : Has(node'[r].tx, f) => Has(node[r].tx, f)
              /\ \A f \in Frames : Has(node'[r].rx, f) \/ Has(peer'[r].asked, f) => Out(r, f)
              /\ IsClosed(r)' <=> IsClosed(r)
              /\ IsClosed(r) /\ node[r].rx = <<>> /\ node[r].tx = <<>> =>
                   node'[r].rx = <<>> /\ node'[r].tx = <<>>

Transmits(r) == PollTransmit /\ connected /\ r = req.dst /\ Connected(r)

LEMMA SameShrinks ==
  ASSUME Types, NEW r \in Slaves, node'[r] = node[r], peer'[r].asked = peer[r].asked
  PROVE  Shrinks(r)
<1>1. Len(node[r].tx) \in Nat
  BY NodeType DEF Types
<1> QED
  BY <1>1 DEF Shrinks, Out, IsClosed

\* A part of rx is no more than rx.
LEMMA PartHas ==
  ASSUME NEW q \in Seq(Frames), NEW i \in DOMAIN q, NEW f,
         Has(Append(SubSeq(q, i + 1, Len(q)), q[i]), f)
  PROVE  Has(q, f)
<1>1. /\ Len(q) \in Nat /\ DOMAIN q = 1..Len(q) /\ \A j \in DOMAIN q : q[j] \in Frames
  OBVIOUS
<1>2. /\ SubSeq(q, i + 1, Len(q)) \in Seq(Frames)
      /\ \A j \in DOMAIN SubSeq(q, i + 1, Len(q)) :
            i + j \in DOMAIN q /\ SubSeq(q, i + 1, Len(q))[j] = q[i + j]
  BY <1>1
<1>3. Has(SubSeq(q, i + 1, Len(q)), f) \/ f = q[i]
  <2>1. q[i] \in Frames
    BY <1>1
  <2>2. \A p \in Seq(Frames), e \in Frames : Has(Append(p, e), f) => Has(p, f) \/ f = e
    BY AppendHas
  <2> QED
    BY <1>2, <2>1, <2>2
<1> QED
  BY <1>2, <1>3 DEF Has

LEMMA NetworkShrinks ==
  ASSUME Types, NEW r \in Slaves, NEW s \in Slaves,
         Answer(s) \/ ReadBad(s) \/ Break(s) \/ Reset(s) \/ ReadBroken(s)
  PROVE  Shrinks(r)
<1>1. node \in [Slaves -> NodeSet] /\ peer \in [Slaves -> PeerSet] /\ node[r] \in NodeSet
      /\ peer[r] \in PeerSet
  BY DEF Types, LinkTypes
<1>2. CASE Answer(s) /\ r = s
  <2>1. peer[s].asked \in Seq(Frames) /\ node[s].rx \in Seq(Frames) /\ peer[s].asked # <<>>
    BY <1>2, NodeType DEF Types, Answer
  <2>2. /\ node'[s] = [node[s] EXCEPT !.rx = Append(node[s].rx, Head(peer[s].asked))]
        /\ peer'[s].asked = Tail(peer[s].asked) /\ Connected(s)
    BY <1>1, <1>2 DEF Answer, PeerSet
  <2>3. /\ node'[s].rx = Append(node[s].rx, Head(peer[s].asked))
        /\ node'[s].tx = node[s].tx /\ node'[s].tid = node[s].tid /\ node'[s].state = node[s].state
    BY <1>1, <1>2, <2>2 DEF NodeSet
  <2>4. /\ Head(peer[s].asked) \in Frames
        /\ \A f : Has(peer[s].asked, f) <=> Has(Tail(peer[s].asked), f) \/ f = Head(peer[s].asked)
    BY <2>1, TailHas
  <2>5. \A f : Has(Append(node[s].rx, Head(peer[s].asked)), f) <=>
                 Has(node[s].rx, f) \/ f = Head(peer[s].asked)
    BY <2>1, <2>4, AppendHas
  <2>6. Len(node[s].tx) \in Nat
    BY NodeType DEF Types
  <2>7. \A f : Has(node'[s].rx, f) \/ Has(peer'[s].asked, f) => Out(s, f)
    BY <2>2, <2>3, <2>4, <2>5 DEF Out
  <2> QED
    BY <1>2, <2>2, <2>3, <2>6, <2>7 DEF Shrinks, IsClosed, Connected
<1>3. CASE Answer(s) /\ r # s
  <2>1. node'[r] = node[r] /\ peer'[r] = peer[r]
    BY <1>1, <1>3 DEF Answer
  <2> QED
    BY <2>1, SameShrinks
<1>4. CASE ReadBad(s) \/ Break(s) \/ Reset(s) \/ ReadBroken(s)
  <2>1. node' = node /\ (peer' = peer \/ \E link : peer' = [peer EXCEPT ![s].link = link])
    BY <1>4 DEF ReadBad, Break, Reset, ReadBroken, links
  <2>2. peer'[r].asked = peer[r].asked
    BY <1>1, <2>1 DEF PeerSet
  <2> QED
    BY <2>1, <2>2, SameShrinks
<1> QED
  BY <1>2, <1>3, <1>4

LEMMA ConnectShrinks ==
  ASSUME Types, NEW r \in Slaves, NEW s \in Slaves,
         OnResolve(s) \/ ConnectDone(s) \/ ConnectPending(s) \/ ConnectRefused(s)
  PROVE  Shrinks(r)
<1>1. node \in [Slaves -> NodeSet] /\ peer \in [Slaves -> PeerSet] /\ node[r] \in NodeSet
      /\ peer[r] \in PeerSet /\ node[s] \in NodeSet
  BY DEF Types, LinkTypes
<1>2. CASE r # s
  <2>1. node'[r] = node[r] /\ peer'[r] = peer[r]
    BY <1>1, <1>2 DEF OnResolve, ConnectDone, ConnectPending, ConnectRefused
  <2> QED
    BY <2>1, SameShrinks
<1>3. CASE r = s
  <2>1. /\ node'[s].tid = node[s].tid /\ node'[s].tx = node[s].tx /\ node'[s].rx = node[s].rx
        /\ ~IsClosed(s) /\ node'[s].state # "CLOSED"
    BY <1>1 DEF OnResolve, ConnectDone, ConnectPending, ConnectRefused, ConnectBegin, NodeSet,
                IsClosed
  <2>2. peer'[s].asked = peer[s].asked \/ peer'[s].asked = <<>>
    BY <1>1, <1>3 DEF OnResolve, ConnectDone, ConnectPending, ConnectRefused, PeerSet
  <2>3. \A f : ~Has(<<>>, f)
    BY DEF Has
  <2>4. Len(node[s].tx) \in Nat
    BY NodeType DEF Types
  <2> QED
    BY <1>3, <2>1, <2>2, <2>3, <2>4 DEF Shrinks, Out, IsClosed
<1> QED
  BY <1>2, <1>3

LEMMA RepairShrinks ==
  ASSUME Types, NEW r \in Slaves, NEW m \in Slaves, Connected(m), Reconnect(m)
  PROVE  Shrinks(r)
<1>1. node \in [Slaves -> NodeSet] /\ node[r] \in NodeSet /\ peer' = peer
  BY DEF Types, LinkTypes, Reconnect
<1>2. CASE r # m
  <2>1. node'[r] = node[r] /\ peer'[r] = peer[r]
    BY <1>1, <1>2 DEF Reconnect, Closed
  <2> QED
    BY <2>1, SameShrinks
<1>3. CASE r = m
  <2>1. /\ node'[r].tid = node[r].tid /\ node'[r].tx = <<>> /\ node'[r].rx = <<>>
        /\ node'[r].state = "OPENED"
    BY <1>1, <1>3 DEF Reconnect, Closed, NodeSet
  <2>2. \A f : ~Has(<<>>, f)
    BY DEF Has
  <2>3. Len(node[r].tx) \in Nat /\ Len(<<>>) = 0
    BY NodeType DEF Types
  <2> QED
    BY <1>1, <1>3, <2>1, <2>2, <2>3 DEF Shrinks, Out, IsClosed, Connected
<1> QED
  BY <1>2, <1>3

\* A frame that cannot be written is dropped, ...
LEMMA FailShrinks ==
  ASSUME Types, NEW r \in Slaves, NEW s \in Slaves, SendFail(s)
  PROVE  Shrinks(r)
<1>1. node \in [Slaves -> NodeSet] /\ node[r] \in NodeSet /\ peer' = peer
  BY DEF Types, LinkTypes, SendFail
<1>2. CASE r # s
  <2>1. node'[r] = node[r] /\ peer'[r] = peer[r]
    BY <1>1, <1>2 DEF SendFail
  <2> QED
    BY <2>1, SameShrinks
<1>3. CASE r = s
  <2>1. /\ node'[r].tid = node[r].tid /\ node'[r].tx = Tail(node[r].tx)
        /\ node'[r].rx = node[r].rx /\ node'[r].state = node[r].state
    BY <1>1, <1>3 DEF SendFail, NodeSet
  <2>2. node[r].tx \in Seq(Frames) /\ node[r].tx # <<>>
    BY <1>3, NodeType DEF Types, SendFail, SendBegin
  <2>3. \A f : Has(Tail(node[r].tx), f) => Has(node[r].tx, f)
    BY <2>2, TailHas
  <2>4. Len(Tail(node[r].tx)) <= Len(node[r].tx)
    BY <2>2
  <2> QED
    BY <1>1, <2>1, <2>2, <2>3, <2>4 DEF Shrinks, Out, IsClosed
<1> QED
  BY <1>2, <1>3

\* ... and so are those of rx that are out of place or taken.
LEMMA RxShrinks ==
  ASSUME Types, NEW r \in Slaves, NEW s \in Slaves, NEW q \in Seq(Frames), peer' = peer,
         node' = [node EXCEPT ![s].rx = q], \A f : Has(q, f) => Has(node[s].rx, f)
  PROVE  Shrinks(r)
<1>1. node \in [Slaves -> NodeSet] /\ node[r] \in NodeSet
  BY DEF Types, LinkTypes
<1>2. CASE r # s
  <2>1. node'[r] = node[r] /\ peer'[r] = peer[r]
    BY <1>1, <1>2
  <2> QED
    BY <2>1, SameShrinks
<1>3. CASE r = s
  <2>1. /\ node'[r].tid = node[r].tid /\ node'[r].tx = node[r].tx
        /\ node'[r].rx = q /\ node'[r].state = node[r].state
    BY <1>1, <1>3 DEF NodeSet
  <2>2. Len(node[r].tx) \in Nat
    BY NodeType DEF Types
  <2>3. node[r].rx = <<>> => q = <<>>
    <3>1. q # <<>> => Has(q, Head(q))
      BY TailHas
    <3>2. \A f : ~Has(<<>>, f)
      BY DEF Has
    <3> QED
      BY <1>3, <3>1, <3>2
  <2> QED
    BY <1>3, <2>1, <2>2, <2>3 DEF Shrinks, Out, IsClosed
<1> QED
  BY <1>2, <1>3

\* A slave's frames are moved on or dropped, unless one is written to it or comes from
\* the poll task, or all are closed.
LEMMA StepShrinks ==
  ASSUME Types, Next, NEW r \in Slaves
  PROVE  Shrinks(r) \/ SendWrite(r) \/ Transmits(r) \/ OnClose
<1>1. node \in [Slaves -> NodeSet] /\ peer \in [Slaves -> PeerSet] /\ LinkTypes
  BY DEF Types, LinkTypes
<1>2. CASE Network
  BY <1>2, NetworkShrinks DEF Network
<1>3. CASE UNCHANGED <<node, peer>>
  BY <1>3, SameShrinks
<1>4. ASSUME NEW s \in Slaves, OnResolve(s) \/ ConnectDone(s) \/ ConnectPending(s) \/ ConnectRefused(s)
      PROVE  Shrinks(r)
  BY <1>4, ConnectShrinks
<1>5. ASSUME NEW m \in Slaves, OnErrorRepair(m) PROVE Shrinks(r)
  BY <1>5, RepairShrinks DEF OnErrorRepair, CheckedFrom
<1>6. ASSUME NEW s \in Slaves, SendWrite(s) PROVE Shrinks(r) \/ SendWrite(r)
  <2>1. CASE s # r
    <3>1. node'[r] = node[r] /\ peer'[r] = peer[r]
      BY <1>1, <1>6, <2>1 DEF SendWrite
    <3> QED
      BY <3>1, SameShrinks
  <2> QED
    BY <1>6, <2>1
<1>7. ASSUME NEW s \in Slaves, SendFail(s) PROVE Shrinks(r)
  BY <1>7, FailShrinks
<1>8. ASSUME NEW s \in Slaves, RecvFound(s) PROVE Shrinks(r)
  <2>1. node[s].rx \in Seq(Frames)
    BY <1>1, NodeType
  <2>2. PICK i \in DOMAIN node[s].rx :
           /\ node' = [node EXCEPT ![s].rx =
                         Append(SubSeq(node[s].rx, i + 1, Len(node[s].rx)), node[s].rx[i])]
           /\ peer' = peer
    BY <1>8 DEF RecvFound
  <2> DEFINE q == Append(SubSeq(node[s].rx, i + 1, Len(node[s].rx)), node[s].rx[i])
  <2>3. q \in Seq(Frames)
    BY <2>1, <2>2
  <2>4. \A f : Has(q, f) => Has(node[s].rx, f)
    BY <2>1, <2>2, PartHas
  <2>5. node' = [node EXCEPT ![s].rx = q] /\ peer' = peer
    BY <2>2
  <2> HIDE DEF q
  <2> QED
    BY <2>3, <2>4, <2>5, RxShrinks
<1>9. ASSUME NEW s \in Slaves, RecvNothing(s) PROVE Shrinks(r)
  <2>1. node' = [node EXCEPT ![s].rx = <<>>] /\ peer' = peer
    BY <1>9 DEF RecvNothing
  <2>2. \A f : Has(<<>>, f) => Has(node[s].rx, f)
    BY DEF Has
  <2>3. <<>> \in Seq(Frames)
    OBVIOUS
  <2> QED
    BY <2>1, <2>2, <2>3, RxShrinks
<1>10. ASSUME NEW s \in Slaves, ReadDone(s) PROVE Shrinks(r)
  BY <1>10, ReadType, RxShrinks
<1>11. CASE PollTransmit
  <2>1. CASE ~(connected /\ Connected(req.dst))
    BY <1>3, <1>11, <2>1 DEF PollTransmit
  <2>2. CASE connected /\ Connected(req.dst) /\ r # req.dst
    <3>1. node'[r] = node[r] /\ peer'[r] = peer[r]
      BY <1>1, <1>11, <2>2 DEF PollTransmit
    <3> QED
      BY <3>1, SameShrinks
  <2> QED
    BY <1>11, <2>1, <2>2 DEF Transmits
<1>12. CASE \/ OnResolveAll \/ OnErrorLater \/ HandleStale("RESOLVE", {"OPENED"})
            \/ HandleStale("CONNECT", {"RESOLVED", "CONNECTING"})
            \/ (\E s \in Slaves : SendNothing(s))
            \/ PollReady \/ PollRead \/ PollStale \/ PollExecute \/ PollError
            \/ TimerExpires \/ Caller \/ Started \/ Stop
  BY <1>3, <1>12
  DEF OnResolveAll, OnErrorLater, HandleStale, SendNothing, PollReady, PollRead, PollStale, PollExecute, PollError,
      TimerExpires, Caller, Call, CallReturn, CallGiveUp, Started, Stop, links
<1> QED
  BY <1>2, <1>4, <1>5, <1>6, <1>7, <1>8, <1>9, <1>10, <1>11, <1>12
  DEF Next, Driver, Poll, PollReceive, PollReject, PollIgnore

\* The frame that is written is asked, and the identifier counted on.
LEMMA WriteFrames ==
  ASSUME Types, NEW s \in Slaves, SendWrite(s)
  PROVE  /\ node[s].tx # <<>> /\ Head(node[s].tx) \in Frames /\ Has(node[s].tx, Head(node[s].tx))
         /\ node'[s].tid = NextTid(s) /\ node'[s].rx = node[s].rx
         /\ node'[s].tx = Tail(node[s].tx) /\ Len(node'[s].tx) = Len(node[s].tx) - 1
         /\ \A f : Has(node'[s].tx, f) => Has(node[s].tx, f)
         /\ \A f : Has(node'[s].rx, f) \/ Has(peer'[s].asked, f) <=>
                     Out(s, f) \/ f = Head(node[s].tx)
         /\ node'[s].state = node[s].state
         /\ last' = IF Head(node[s].tx).tid = node[s].tid THEN Head(node[s].tx) ELSE NoFrame
         /\ curNode' = s /\ req' = req /\ evq' = evq
<1>1. node \in [Slaves -> NodeSet] /\ peer \in [Slaves -> PeerSet] /\ node[s] \in NodeSet
      /\ peer[s] \in PeerSet
  BY DEF Types, LinkTypes
<1>2. node[s].tx \in Seq(Frames) /\ peer[s].asked \in Seq(Frames)
  BY NodeType DEF Types
<1>3. node[s].tx # <<>>
  BY DEF SendWrite, SendBegin
<1>4. /\ Head(node[s].tx) \in Frames /\ Has(node[s].tx, Head(node[s].tx))
      /\ \A f : Has(Tail(node[s].tx), f) => Has(node[s].tx, f)
  BY <1>2, <1>3, TailHas
<1>5. Len(Tail(node[s].tx)) = Len(node[s].tx) - 1
  BY <1>2, <1>3
<1>6. /\ node'[s].tid = NextTid(s) /\ node'[s].rx = node[s].rx
      /\ node'[s].tx = Tail(node[s].tx) /\ node'[s].state = node[s].state
  BY <1>1 DEF SendWrite, NodeSet
<1>7. peer'[s].asked = Append(peer[s].asked, Head(node[s].tx))
  BY <1>1 DEF SendWrite, PeerSet
<1>8. \A f : Has(Append(peer[s].asked, Head(node[s].tx)), f) <=>
               Has(peer[s].asked, f) \/ f = Head(node[s].tx)
  BY <1>2, <1>4, AppendHas
<1>9. /\ last' = IF Head(node[s].tx).tid = node[s].tid THEN Head(node[s].tx) ELSE NoFrame
      /\ curNode' = s /\ req' = req /\ evq' = evq
  BY DEF SendWrite, fsm
<1> QED
  BY <1>3, <1>4, <1>5, <1>6, <1>7, <1>8, <1>9 DEF Out

LEMMA TransmitFrames ==
  ASSUME Types, NEW s \in Slaves, Transmits(s)
  PROVE  LET f == [req |-> req.n, tid |-> node[s].tid]
         IN  /\ f \in Frames /\ s = req.dst
             /\ node'[s].tid = node[s].tid /\ node'[s].rx = node[s].rx
             /\ node'[s].state = node[s].state /\ node[s].state = "CONNECTED"
             /\ peer'[s].asked = peer[s].asked
             /\ Len(node'[s].tx) = Len(node[s].tx) + 1
             /\ \A x : Has(node'[s].tx, x) <=> Has(node[s].tx, x) \/ x = f
             /\ UNCHANGED <<last, curNode, req>>
             /\ evq # <<>> /\ Head(evq) = "TRANSMIT" /\ evq' = Tail(evq)
<1> DEFINE f == [req |-> req.n, tid |-> node[s].tid]
<1>1. node \in [Slaves -> NodeSet] /\ node[s] \in NodeSet
  BY DEF Types, LinkTypes
<1>2. /\ evq # <<>> /\ Head(evq) = "TRANSMIT" /\ evq' = Tail(evq) /\ s = req.dst
      /\ node' = [node EXCEPT ![s].tx = Append(node[s].tx, f)] /\ peer' = peer
      /\ UNCHANGED <<last, curNode, req>> /\ node[s].state = "CONNECTED"
  BY DEF Transmits, PollTransmit, PollGets, Connected
<1>3. f \in Frames
  <2>1. Has(evq, "TRANSMIT")
    BY <1>2, TailHas DEF Types, PollTypes
  <2>2. req.n \in 1..MaxReq
    BY <2>1, Constants DEF Types, PollTypes
  <2>3. node[s].tid \in 0..TidTop
    BY NodeType DEF Types
  <2> QED
    BY <2>2, <2>3 DEF Frames
<1>4. node[s].tx \in Seq(Frames)
  BY NodeType DEF Types
<1>5. \A x : Has(Append(node[s].tx, f), x) <=> Has(node[s].tx, x) \/ x = f
  BY <1>3, <1>4, AppendHas
<1>6. Len(Append(node[s].tx, f)) = Len(node[s].tx) + 1
  BY <1>4
<1>7. /\ node'[s].tid = node[s].tid /\ node'[s].rx = node[s].rx
      /\ node'[s].state = node[s].state /\ node'[s].tx = Append(node[s].tx, f)
  BY <1>1, <1>2 DEF NodeSet
<1> QED
  BY <1>2, <1>3, <1>5, <1>6, <1>7
-------------------------------------------------------------------------------
(* Answers that are waited for.                                            *)

\* A new request, or the same as before.
LEMMA RequestStep ==
  ASSUME Next
  PROVE  \/ req'.n = req.n /\ req'.dst = req.dst
         \/ /\ req'.n = req.n + 1 /\ req.n < MaxReq
            /\ UNCHANGED <<node, peer, last, curNode>> /\ evq' = Append(evq, "TRANSMIT")
<1>1. ASSUME NEW s \in Slaves, Call(s)
      PROVE  /\ req'.n = req.n + 1 /\ req.n < MaxReq
             /\ UNCHANGED <<node, peer, last, curNode>> /\ evq' = Append(evq, "TRANSMIT")
  BY <1>1 DEF Call, links
<1>2. CASE CallReturn
  <2>1. req' = [req EXCEPT !.waits = FALSE]
    BY <1>2 DEF CallReturn
  <2> QED
    BY <2>1
<1>3. CASE CallGiveUp
  <2>1. req' = [req EXCEPT !.waits = FALSE]
    BY <1>3 DEF CallGiveUp
  <2> QED
    BY <2>1
<1>4. CASE req' = req
  BY <1>4
<1>5. CASE Network \/ Driver
  BY <1>4, <1>5
  DEF Network, Answer, ReadBad, Break, Reset, ReadBroken, Driver, OnResolveAll, OnErrorRepair, Reconnect,
      OnErrorLater, OnClose, HandleStale, OnResolve, ConnectDone, ConnectPending,
      ConnectRefused, SendWrite, SendFail, SendNothing, RecvFound, RecvNothing
<1>6. CASE Poll \/ TimerExpires \/ Started \/ Stop
  BY <1>4, <1>6
  DEF Poll, PollReady, PollTransmit, PollRead, PollReceive, PollReject, PollIgnore, PollStale, ReadDone, Accept, Reject, Ignore, PollExecute, PollError,
      TimerExpires, Started, Stop
<1> QED
  BY <1>1, <1>2, <1>3, <1>5, <1>6 DEF Next, Caller

\* What was written last is another frame only when one is written.
LEMMA LastStep ==
  ASSUME Next
  PROVE  \/ \E s \in Slaves : SendWrite(s)
         \/ last' = NoFrame
         \/ UNCHANGED <<last, curNode>>
<1>1. CASE Network \/ Driver
  BY <1>1
  DEF Network, Answer, ReadBad, Break, Reset, ReadBroken, Driver, OnResolveAll, OnErrorRepair, Reconnect,
      OnErrorLater, OnClose, HandleStale, OnResolve, ConnectDone, ConnectPending,
      ConnectRefused, SendFail, SendNothing, RecvFound, RecvNothing
<1>2. CASE Poll \/ TimerExpires \/ Caller \/ Started \/ Stop
  BY <1>2
  DEF Poll, PollReady, PollTransmit, PollRead, PollReceive, PollReject, PollIgnore, PollStale, ReadDone, Accept, Reject, Ignore, PollExecute, PollError,
      TimerExpires, Caller, Call, CallReturn, CallGiveUp, Started, Stop
<1> QED
  BY <1>1, <1>2 DEF Next

\* No frame is of a later request than the last one, and those of that one are for the
\* slave it is for.
Owned == \A s \in Slaves : \A f \in Frames :
           Out(s, f) \/ Has(node[s].tx, f) => /\ f.req <= req.n
                                              /\ f.req = req.n => s = req.dst

\* The slave it was written to has counted on since, unless its identifiers were at
\* their end, or it is closed.
LastWritten ==
  last # NoFrame => /\ last.req <= req.n /\ curNode \in Slaves
                    /\ last.req = req.n => /\ curNode = req.dst
                                           /\ \/ IsClosed(curNode)
                                              \/ node[curNode].tid = last.tid + 1
                                              \/ last.tid = TidTop

ClosedEmpty == \A s \in Slaves : IsClosed(s) => node[s].rx = <<>> /\ node[s].tx = <<>>

\* The inductive invariant.
Keeping == Owned /\ LastWritten /\ ClosedEmpty

LEMMA NextOwned ==
  ASSUME Types, Types', Owned, Next
  PROVE  Owned'
<1> SUFFICES ASSUME NEW s \in Slaves, NEW f \in Frames,
                    Has(node'[s].rx, f) \/ Has(peer'[s].asked, f) \/ Has(node'[s].tx, f)
             PROVE  f.req <= req'.n /\ (f.req = req'.n => s = req'.dst)
  BY DEF Owned, Out
<1>1. req.n \in Nat /\ f.req \in Nat
  BY DEF Types, PollTypes, Frames
<1>2. ASSUME Out(s, f) \/ Has(node[s].tx, f)
      PROVE  f.req <= req'.n /\ (f.req = req'.n => s = req'.dst)
  <2>1. f.req <= req.n /\ (f.req = req.n => s = req.dst)
    BY <1>2 DEF Owned
  <2>2. CASE req'.n = req.n /\ req'.dst = req.dst
    BY <2>1, <2>2
  <2>3. CASE req'.n = req.n + 1
    BY <1>1, <2>1, <2>3
  <2> QED
    BY <2>2, <2>3, RequestStep
<1>3. CASE Shrinks(s)
  BY <1>2, <1>3 DEF Shrinks
<1>4. CASE SendWrite(s)
  BY <1>2, <1>4, WriteFrames DEF Out
<1>5. CASE Transmits(s)
  <2>1. CASE Out(s, f) \/ Has(node[s].tx, f)
    BY <1>2, <2>1
  <2>2. CASE ~(Out(s, f) \/ Has(node[s].tx, f))
    <3>1. f = [req |-> req.n, tid |-> node[s].tid] /\ s = req.dst /\ req' = req
      BY <1>5, <2>2, TransmitFrames DEF Out
    <3> QED
      BY <1>1, <3>1
  <2> QED
    BY <2>1, <2>2
<1>6. CASE OnClose
  <2>1. node'[s].rx = <<>> /\ node'[s].tx = <<>> /\ peer' = peer
    BY <1>6 DEF OnClose
  <2> QED
    BY <1>2, <2>1 DEF Has, Out
<1> QED
  BY <1>3, <1>4, <1>5, <1>6, StepShrinks

LEMMA NextClosedEmpty ==
  ASSUME Types, ClosedEmpty, Next
  PROVE  ClosedEmpty'
<1> SUFFICES ASSUME NEW s \in Slaves, IsClosed(s)'
             PROVE  node'[s].rx = <<>> /\ node'[s].tx = <<>>
  BY DEF ClosedEmpty
<1>1. CASE Shrinks(s)
  BY <1>1 DEF Shrinks, ClosedEmpty
<1>2. CASE SendWrite(s)
  BY <1>2, WriteFrames DEF ClosedEmpty, IsClosed
<1>3. CASE Transmits(s)
  BY <1>3, TransmitFrames DEF IsClosed
<1>4. CASE OnClose
  BY <1>4 DEF OnClose
<1> QED
  BY <1>1, <1>2, <1>3, <1>4, StepShrinks

LEMMA NextLastWritten ==
  ASSUME Types, Types', Owned, LastWritten, Next
  PROVE  LastWritten'
<1>1. CASE last' = NoFrame
  BY <1>1 DEF LastWritten
<1>2. ASSUME NEW s \in Slaves, SendWrite(s), last' # NoFrame PROVE LastWritten'
  <2> DEFINE f == Head(node[s].tx)
  <2>1. /\ f \in Frames /\ Has(node[s].tx, f) /\ last' = f /\ f.tid = node[s].tid
        /\ curNode' = s /\ req' = req /\ node'[s].tid = NextTid(s)
    BY <1>2, WriteFrames
  <2>2. f.req <= req.n /\ (f.req = req.n => s = req.dst)
    BY <2>1 DEF Owned
  <2>3. node[s].tid \in 0..TidTop /\ TidTop \in Nat
    BY NodeType, Constants DEF Types
  <2>4. NextTid(s) = f.tid + 1 \/ f.tid = TidTop
    BY <2>1, <2>3 DEF NextTid
  <2> HIDE DEF f
  <2> QED
    BY <2>1, <2>2, <2>4 DEF LastWritten
<1>3. ASSUME UNCHANGED <<last, curNode>>, last # NoFrame, ~(\E s \in Slaves : SendWrite(s))
      PROVE  LastWritten'
  <2>1. last.req <= req.n /\ curNode \in Slaves /\ req.n \in Nat /\ last.req \in Nat
    <3>1. last \in Frames
      BY <1>3 DEF Types, LinkTypes
    <3> QED
      BY <1>3, <3>1 DEF LastWritten, Types, PollTypes, Frames
  <2>2. CASE req'.n = req.n + 1
    BY <1>3, <2>1, <2>2 DEF LastWritten
  <2>3. CASE req'.n = req.n /\ req'.dst = req.dst
    <3>1. CASE last.req # req.n
      BY <1>3, <2>1, <2>3, <3>1 DEF LastWritten
    <3>2. CASE last.req = req.n
      <4>1. /\ curNode = req.dst
            /\ IsClosed(curNode) \/ node[curNode].tid = last.tid + 1 \/ last.tid = TidTop
        BY <1>3, <3>2 DEF LastWritten
      <4>2. CASE Shrinks(curNode)
        BY <1>3, <2>1, <2>3, <3>2, <4>1, <4>2 DEF LastWritten, Shrinks, IsClosed
      <4>3. CASE Transmits(curNode)
        <5>1. node'[curNode].tid = node[curNode].tid /\ ~IsClosed(curNode)
          BY <2>1, <4>3, TransmitFrames DEF IsClosed
        <5> QED
          BY <1>3, <2>1, <2>3, <3>2, <4>1, <5>1 DEF LastWritten
      <4>4. CASE OnClose
        <5>1. IsClosed(curNode)'
          BY <1>3, <2>1, <4>4 DEF OnClose, IsClosed
        <5> QED
          BY <1>3, <2>1, <2>3, <3>2, <4>1, <5>1 DEF LastWritten
      <4> QED
        BY <1>3, <2>1, <4>2, <4>3, <4>4, StepShrinks
    <3> QED
      BY <3>1, <3>2
  <2> QED
    BY <2>2, <2>3, RequestStep
<1> QED
  BY <1>1, <1>2, <1>3, LastStep

LEMMA KeepingAlways == Spec => [](Types /\ Keeping)
<1>1. Init => Keeping
  <2> SUFFICES ASSUME Init PROVE Keeping
    OBVIOUS
  <2>1. /\ \A s \in Slaves : /\ node[s].rx = <<>> /\ node[s].tx = <<>> /\ peer[s].asked = <<>>
        /\ \A f : ~Has(<<>>, f)
    BY InitLinks DEF Has
  <2> QED
    BY <2>1 DEF Init, Keeping, Owned, Out, LastWritten, ClosedEmpty
<1>2. Types /\ Types' /\ Keeping /\ [Next]_vars => Keeping'
  <2>1. CASE UNCHANGED vars
    BY <2>1 DEF vars, Keeping, Owned, Out, Has, LastWritten, IsClosed, ClosedEmpty
  <2>2. ASSUME Types, Types', Keeping, Next PROVE Keeping'
    BY <2>2, NextOwned, NextLastWritten, NextClosedEmpty DEF Keeping
  <2> QED
    BY <2>1, <2>2
<1> QED
  BY <1>1, <1>2, TypesAlways, PTL DEF Spec

\* The answer to the request that was written last is not thrown away as unexpected,
\* except that to the last identifier of the range; for any number of slaves that
\* answer at any time, and whatever breaks.
THEOREM AnswerAlwaysKept == Spec => AnswerKept
<1> DEFINE Kept == \A s \in Slaves : RecvNothing(s) =>
                     \A i \in DOMAIN node[s].rx :
                        node[s].rx[i] = last /\ last.req = req.n => last.tid = TidTop
<1>1. Types /\ Keeping => Kept
  <2> SUFFICES ASSUME Types, Keeping, NEW s \in Slaves, RecvNothing(s),
                      NEW i \in DOMAIN node[s].rx, node[s].rx[i] = last, last.req = req.n,
                      last.tid # TidTop
               PROVE  FALSE
    OBVIOUS
  <2>1. node[s].rx \in Seq(Frames)
    BY NodeType DEF Types
  <2>2. last \in Frames /\ last # NoFrame
    BY <2>1, Constants
  <2>3. Has(node[s].rx, last)
    BY DEF Has
  <2>4. s = req.dst
    BY <2>2, <2>3 DEF Keeping, Owned, Out
  <2>5. curNode = s /\ (IsClosed(s) \/ node[s].tid = last.tid + 1)
    BY <2>2, <2>4 DEF Keeping, LastWritten
  <2>6. ~IsClosed(s)
    BY <2>1 DEF Keeping, ClosedEmpty
  <2>7. last.tid \in Nat
    BY <2>2 DEF Frames
  <2>8. Expected(s, last)
    BY <2>5, <2>6, <2>7 DEF Expected
  <2> QED
    BY <2>8 DEF RecvNothing
<1>2. Types /\ Keeping /\ [Next]_vars => [Kept]_vars
  BY <1>1
<1> QED
  BY <1>2, KeepingAlways, PTL DEF Spec, AnswerKept

-------------------------------------------------------------------------------
(* The requests that wait for the poll task.                               *)

TransmitsIn(q) == {i \in DOMAIN q : q[i] = "TRANSMIT"}

Pending == Cardinality(TransmitsIn(evq))

LEMMA PendingAppend ==
  ASSUME NEW q \in Seq(PollEvents), NEW e \in PollEvents
  PROVE  /\ IsFiniteSet(TransmitsIn(q)) /\ Cardinality(TransmitsIn(q)) \in Nat
         /\ Cardinality(TransmitsIn(Append(q, e))) =
              Cardinality(TransmitsIn(q)) + IF e = "TRANSMIT" THEN 1 ELSE 0
<1>1. /\ Len(q) \in Nat /\ DOMAIN q = 1..Len(q)
      /\ DOMAIN Append(q, e) = 1..Len(q) + 1
      /\ \A i \in 1..Len(q) : Append(q, e)[i] = q[i]
      /\ Append(q, e)[Len(q) + 1] = e
  BY AppendProperties
<1>2. IsFiniteSet(TransmitsIn(q)) /\ Cardinality(TransmitsIn(q)) \in Nat
  <2>1. IsFiniteSet(1..Len(q))
    BY <1>1, FS_Interval
  <2>2. TransmitsIn(q) \in SUBSET (1..Len(q))
    BY <1>1 DEF TransmitsIn
  <2>3. IsFiniteSet(TransmitsIn(q))
    BY <2>1, <2>2, FS_Subset
  <2> QED
    BY <2>3, FS_CardinalityType
<1>3. \A i : i \in 1..Len(q) + 1 <=> i \in 1..Len(q) \/ i = Len(q) + 1
  BY <1>1
<1>4. Len(q) + 1 \notin 1..Len(q)
  BY <1>1
<1>5. CASE e = "TRANSMIT"
  <2>1. TransmitsIn(Append(q, e)) = TransmitsIn(q) \union {Len(q) + 1}
    BY <1>1, <1>3, <1>5 DEF TransmitsIn
  <2>2. Len(q) + 1 \notin TransmitsIn(q)
    BY <1>1, <1>4 DEF TransmitsIn
  <2> QED
    BY <1>2, <1>5, <2>1, <2>2, FS_AddElement
<1>6. CASE e # "TRANSMIT"
  <2>1. TransmitsIn(Append(q, e)) = TransmitsIn(q)
    BY <1>1, <1>3, <1>6 DEF TransmitsIn
  <2> QED
    BY <1>2, <1>6, <2>1
<1> QED
  BY <1>2, <1>5, <1>6

LEMMA PendingTail ==
  ASSUME NEW q \in Seq(PollEvents), q # <<>>
  PROVE  Cardinality(TransmitsIn(Tail(q))) + (IF Head(q) = "TRANSMIT" THEN 1 ELSE 0)
           <= Cardinality(TransmitsIn(q))
<1>1. /\ Tail(q) \in Seq(PollEvents) /\ Len(q) \in Nat \ {0}
      /\ DOMAIN q = 1..Len(q) /\ DOMAIN Tail(q) = 1..Len(q) - 1
      /\ Head(q) = q[1]
      /\ \A i \in 1..Len(q) - 1 : Tail(q)[i] = q[i + 1]
  OBVIOUS
<1> DEFINE S == TransmitsIn(Tail(q))
           T == TransmitsIn(q) \ {1}
           f == [i \in S |-> i + 1]
<1>2. /\ IsFiniteSet(TransmitsIn(q)) /\ Cardinality(TransmitsIn(q)) \in Nat
      /\ IsFiniteSet(S) /\ Cardinality(S) \in Nat
  <2>1. "READY" \in PollEvents
    BY DEF PollEvents
  <2> QED
    BY <1>1, <2>1, PendingAppend
<1>3. /\ IsFiniteSet(T)
      /\ Cardinality(T) = IF 1 \in TransmitsIn(q) THEN Cardinality(TransmitsIn(q)) - 1
                          ELSE Cardinality(TransmitsIn(q))
  BY <1>2, FS_RemoveElement
<1>4. 1 \in TransmitsIn(q) <=> Head(q) = "TRANSMIT"
  BY <1>1 DEF TransmitsIn
<1>5. \A i \in S : i \in Nat /\ i + 1 \in T
  <2> SUFFICES ASSUME NEW i \in S PROVE i \in Nat /\ i + 1 \in T
    OBVIOUS
  <2>1. i \in 1..Len(q) - 1 /\ q[i + 1] = "TRANSMIT"
    BY <1>1 DEF TransmitsIn
  <2>2. i \in Nat /\ i + 1 \in 1..Len(q) /\ i + 1 # 1
    BY <1>1, <2>1
  <2> QED
    BY <1>1, <2>1, <2>2 DEF TransmitsIn
<1>6. f \in Injection(S, T)
  <2>1. f \in [S -> T]
    BY <1>5
  <2>2. \A i, j \in S : f[i] = f[j] => i = j
    <3> SUFFICES ASSUME NEW i \in S, NEW j \in S, i + 1 = j + 1 PROVE i = j
      OBVIOUS
    <3>1. i \in Nat /\ j \in Nat
      BY <1>5
    <3> QED
      BY <3>1
  <2> QED
    BY <2>1, <2>2 DEF Injection, IsInjective
<1>7. Cardinality(S) <= Cardinality(T)
  <2> HIDE DEF S, T, f
  <2> QED
    BY <1>3, <1>6, FS_Injection
<1> QED
  BY <1>2, <1>3, <1>4, <1>7

LEMMA PendingType ==
  ASSUME Types
  PROVE  Pending \in Nat
BY PendingAppend DEF Types, PollTypes, PollEvents, Pending

\* All steps but those of the caller leave no more of them, ...
LEMMA EvqMoves ==
  ASSUME Types, Next, ~(\E s \in Slaves : Call(s))
  PROVE  EvqStep
<1>1. evq \in Seq(PollEvents) /\ {"RECEIVED", "EXECUTE", "ERROR"} \subseteq PollEvents \ {"TRANSMIT"}
  BY DEF Types, PollTypes, PollEvents
<1>2. CASE evq' = evq
  BY <1>2 DEF EvqStep
<1>3. ASSUME NEW e \in {"RECEIVED", "ERROR"}, evq' = Append(evq, e) PROVE EvqStep
  BY <1>1, <1>3 DEF EvqStep
<1>4. CASE Network
  BY <1>2, <1>3, <1>4 DEF Network, Answer, ReadBad, Break, Reset, ReadBroken, fsm
<1>5. ASSUME NEW s \in Slaves, RecvFound(s) PROVE EvqStep
  BY <1>3, <1>5 DEF RecvFound
<1>6. CASE Driver /\ ~(\E s \in Slaves : RecvFound(s))
  BY <1>2, <1>6 DEF Driver, OnResolveAll, OnErrorRepair, Reconnect, OnErrorLater, OnClose,
     HandleStale, OnResolve, ConnectDone, ConnectPending, ConnectRefused, SendWrite, SendFail,
     SendNothing, RecvNothing, fsm
<1>7. CASE Poll
  BY <1>1, <1>7, PollEvq DEF EvqStep
<1>8. CASE TimerExpires
  BY <1>3, <1>8 DEF TimerExpires
<1>9. CASE CallReturn \/ CallGiveUp \/ Started \/ Stop
  BY <1>2, <1>9 DEF CallReturn, CallGiveUp, Started, Stop, fsm
<1> QED
  BY <1>4, <1>5, <1>6, <1>7, <1>8, <1>9 DEF Next, Caller

LEMMA PendingFalls ==
  ASSUME Types, EvqStep
  PROVE  Pending' <= Pending
<1>1. PICK p : /\ p \in {evq} \union (IF evq = <<>> THEN {} ELSE {Tail(evq)})
               /\ evq' = p \/ \E e \in PollEvents \ {"TRANSMIT"} : evq' = Append(p, e)
  BY DEF EvqStep
<1>2. evq \in Seq(PollEvents) /\ Pending \in Nat
  BY PendingType DEF Types, PollTypes
<1>3. p \in Seq(PollEvents) /\ Cardinality(TransmitsIn(p)) \in Nat
  <2>1. p \in Seq(PollEvents) /\ "READY" \in PollEvents
    BY <1>1, <1>2, TailHas DEF PollEvents
  <2> QED
    BY <2>1, PendingAppend
<1>4. Cardinality(TransmitsIn(p)) <= Pending
  <2>1. CASE p = evq
    BY <1>2, <2>1 DEF Pending
  <2>2. CASE evq # <<>> /\ p = Tail(evq)
    <3>1. \/ Cardinality(TransmitsIn(Tail(evq))) + 1 <= Cardinality(TransmitsIn(evq))
          \/ Cardinality(TransmitsIn(Tail(evq))) + 0 <= Cardinality(TransmitsIn(evq))
      BY <1>2, <2>2, PendingTail
    <3> QED
      BY <1>2, <1>3, <2>2, <3>1 DEF Pending
  <2> QED
    BY <1>1, <2>1, <2>2
<1>5. CASE evq' = p
  BY <1>4, <1>5 DEF Pending
<1>6. ASSUME NEW e \in PollEvents \ {"TRANSMIT"}, evq' = Append(p, e)
      PROVE  Pending' <= Pending
  <2>1. Cardinality(TransmitsIn(Append(p, e))) = Cardinality(TransmitsIn(p)) + 0
    BY <1>3, <1>6, PendingAppend
  <2> QED
    BY <1>3, <1>4, <1>6, <2>1 DEF Pending
<1> QED
  BY <1>1, <1>5, <1>6


-------------------------------------------------------------------------------
(* Answers that are accepted.                                              *)

\* Each slave has MaxReq identifiers at least, and so no one is used twice.
EnoughTids == (MaxSlaves - 1) * TidStep + MaxReq <= TidTop + 1

\* A slave that began at b has counted on for each frame it was asked, and will for those
\* that wait; all its frames are of identifiers it has been at.
Fresh(s, b) ==
    /\ b <= node[s].tid
    /\ node[s].tid - b + Len(node[s].tx) + Pending <= req.n
    /\ \A f \in Frames : Has(node[s].tx, f) => b <= f.tid /\ f.tid <= node[s].tid
    /\ \A f \in Frames : Out(s, f) => b <= f.tid /\ f.tid < node[s].tid

\* Or it has come to the end of the range and has begun with it anew, but has not come to
\* b again: its frames are of identifiers from b on or of such it has been at since.
Wrapped(s, b) ==
    /\ FirstTid(s) <= b /\ FirstTid(s) <= node[s].tid
    /\ TidTop + 1 - b + (node[s].tid - FirstTid(s)) + Len(node[s].tx) + Pending <= req.n
    /\ \A f \in Frames : Has(node[s].tx, f) =>
          FirstTid(s) <= f.tid /\ (b <= f.tid \/ f.tid <= node[s].tid)
    /\ \A f \in Frames : Out(s, f) => FirstTid(s) <= f.tid /\ (b <= f.tid \/ f.tid < node[s].tid)

TidsInOrder == \A s \in Slaves : ~IsClosed(s) => \E b \in 0..TidTop : Fresh(s, b) \/ Wrapped(s, b)

\* No other answer has the identifier of the one that is waited for.
LastUnique == last # NoFrame /\ last.req = req.n /\ ~IsClosed(curNode) =>
                 \A f \in Frames : Out(curNode, f) /\ f.tid = node[curNode].tid - 1 => f.req = req.n

LEMMA TidRange ==
  ASSUME EnoughTids, NEW s \in Slaves
  PROVE  FirstTid(s) \in Nat /\ FirstTid(s) + MaxReq <= TidTop + 1
<1>1. /\ MaxSlaves \in Nat \ {0} /\ MaxReq \in Nat /\ TidTop \in Nat /\ TidStep \in Nat
      /\ s \in Nat /\ FirstTid(s) \in 0..TidTop
  BY Constants
<1>2. MaxSlaves - 1 \in Nat /\ MaxSlaves - 1 - s \in Nat
  BY <1>1 DEF Slaves
<1>3. s * TidStep \in Nat /\ (MaxSlaves - 1 - s) * TidStep \in Nat
  BY <1>1, <1>2
<1>4. s * TidStep + (MaxSlaves - 1 - s) * TidStep = (MaxSlaves - 1) * TidStep
  BY <1>1, <1>2
<1>5. s * TidStep + MaxReq <= TidTop + 1
  <2> DEFINE a == s * TidStep
             b == (MaxSlaves - 1 - s) * TidStep
             c == (MaxSlaves - 1) * TidStep
  <2>1. a \in Nat /\ b \in Nat /\ a + b = c /\ c + MaxReq <= TidTop + 1
    BY <1>3, <1>4 DEF EnoughTids
  <2> HIDE DEF a, b, c
  <2>2. a + MaxReq <= TidTop + 1
    BY <1>1, <2>1
  <2> QED
    BY <2>2 DEF a
<1> QED
  BY <1>1, <1>5 DEF FirstTid

\* The numbers that are counted with, before and after a step.
LEMMA TidTypes ==
  ASSUME Types, Types', NEW s \in Slaves
  PROVE  /\ Pending \in Nat /\ Pending' \in Nat /\ req.n \in 0..MaxReq /\ req'.n \in 0..MaxReq
         /\ node[s].tid \in 0..TidTop /\ node'[s].tid \in 0..TidTop
         /\ node[s].tx \in Seq(Frames) /\ node'[s].tx \in Seq(Frames)
         /\ Len(node[s].tx) \in Nat /\ Len(node'[s].tx) \in Nat
         /\ FirstTid(s) \in Nat /\ TidTop \in Nat /\ MaxReq \in Nat
<1>1. Pending' \in Nat
  <2>1. evq' \in Seq(PollEvents) /\ "READY" \in PollEvents
    BY DEF Types, PollTypes, PollEvents
  <2> QED
    BY <2>1, PendingAppend DEF Pending
<1>2. node[s] \in NodeSet /\ node'[s] \in NodeSet
  BY DEF Types, LinkTypes
<1>3. /\ node[s].tid \in 0..TidTop /\ node'[s].tid \in 0..TidTop
      /\ node[s].tx \in Seq(Frames) /\ node'[s].tx \in Seq(Frames)
  BY <1>2 DEF NodeSet
<1>4. FirstTid(s) \in 0..TidTop /\ TidTop \in Nat /\ MaxReq \in Nat
  BY Constants
<1>5. Len(node[s].tx) \in Nat /\ Len(node'[s].tx) \in Nat
  BY <1>3
<1>6. FirstTid(s) \in Nat
  BY <1>4
<1>7. req.n \in 0..MaxReq /\ req'.n \in 0..MaxReq
  BY DEF Types, PollTypes
<1> QED
  BY <1>1, <1>3, <1>4, <1>5, <1>6, <1>7, PendingType

\* A step that adds as many frames or requests as it takes away, or less, and none but
\* known ones, keeps what is known of the slave.
LEMMA KeepsFresh ==
  ASSUME Types, Types', NEW s \in Slaves, NEW b \in 0..TidTop,
         node'[s].tid = node[s].tid,
         Len(node'[s].tx) + Pending' - req'.n <= Len(node[s].tx) + Pending - req.n,
         \A f \in Frames : Has(node'[s].tx, f) => Has(node[s].tx, f) \/ f.tid = node[s].tid,
         \A f \in Frames : Out(s, f)' => Out(s, f)
  PROVE  (Fresh(s, b) => Fresh(s, b)') /\ (Wrapped(s, b) => Wrapped(s, b)')
<1> DEFINE t == node[s].tid
           l == Len(node[s].tx)
           m == Len(node'[s].tx)
           p == Pending
           q == Pending'
           n == req.n
           o == req'.n
           c == FirstTid(s)
<1>1. /\ t \in Nat /\ l \in Nat /\ m \in Nat /\ p \in Nat /\ q \in Nat /\ n \in Nat /\ o \in Nat
      /\ c \in Nat /\ b \in Nat /\ TidTop \in Nat
      /\ m + q - o <= l + p - n
  BY TidTypes
<1>2. FirstTid(s)' = FirstTid(s) /\ TidTop' = TidTop
  BY DEF FirstTid
<1>3. ASSUME Fresh(s, b) PROVE Fresh(s, b)'
  <2>1. t - b + l + p <= n
    BY <1>3 DEF Fresh
  <2>2. t - b + m + q <= o
    <3> HIDE DEF t, l, m, p, q, n, o
    <3> QED
      BY <1>1, <2>1
  <2>3. ASSUME NEW f \in Frames, Has(node'[s].tx, f) PROVE b <= f.tid /\ f.tid <= t
    <3>1. CASE Has(node[s].tx, f)
      BY <1>3, <3>1 DEF Fresh
    <3>2. CASE f.tid = t
      <4>1. b <= t
        BY <1>3 DEF Fresh
      <4> HIDE DEF t
      <4> QED
        BY <1>1, <3>2, <4>1
    <3> QED
      BY <2>3, <3>1, <3>2
  <2> QED
    BY <1>3, <2>2, <2>3 DEF Fresh
<1>4. ASSUME Wrapped(s, b) PROVE Wrapped(s, b)'
  <2>1. TidTop + 1 - b + (t - c) + l + p <= n
    BY <1>4 DEF Wrapped
  <2>2. TidTop + 1 - b + (t - c) + m + q <= o
    <3> HIDE DEF t, l, m, p, q, n, o, c
    <3> QED
      BY <1>1, <2>1
  <2>3. ASSUME NEW f \in Frames, Has(node'[s].tx, f)
        PROVE  c <= f.tid /\ (b <= f.tid \/ f.tid <= t)
    <3>1. CASE Has(node[s].tx, f)
      BY <1>4, <3>1 DEF Wrapped
    <3>2. CASE f.tid = t
      <4>1. c <= t
        BY <1>4 DEF Wrapped
      <4> HIDE DEF t, c
      <4> QED
        BY <1>1, <3>2, <4>1
    <3> QED
      BY <2>3, <3>1, <3>2
  <2> QED
    BY <1>2, <1>4, <2>2, <2>3 DEF Wrapped
<1> QED
  BY <1>3, <1>4

\* Writing the frame counts on: to an identifier the slave has not been at, or to the first
\* of its range, which it has not been at either.
LEMMA WriteFresh ==
  ASSUME EnoughTids, Types, Types', NEW s \in Slaves, SendWrite(s), NEW b \in 0..TidTop,
         Fresh(s, b) \/ Wrapped(s, b)
  PROVE  /\ Fresh(s, b)' \/ Wrapped(s, b)'
         /\ Head(node[s].tx).tid = node[s].tid =>
               \A f \in Frames : Out(s, f)' /\ f.tid = node'[s].tid - 1 => f = Head(node[s].tx)
<1> DEFINE h == Head(node[s].tx)
           t == node[s].tid
           l == Len(node[s].tx)
           p == Pending
           n == req.n
           c == FirstTid(s)
<1>1. /\ node[s].tx # <<>> /\ h \in Frames /\ Has(node[s].tx, h)
      /\ node'[s].tid = NextTid(s) /\ Len(node'[s].tx) = l - 1
      /\ \A f : Has(node'[s].tx, f) => Has(node[s].tx, f)
      /\ \A f : Out(s, f)' <=> Out(s, f) \/ f = h
      /\ req' = req /\ evq' = evq
  BY WriteFrames DEF Out
<1>2. /\ t \in Nat /\ t <= TidTop /\ l \in Nat /\ l # 0 /\ p \in Nat /\ n \in Nat /\ n <= MaxReq
      /\ c \in Nat /\ b \in Nat /\ TidTop \in Nat /\ MaxReq \in Nat
      /\ c + MaxReq <= TidTop + 1
  BY <1>1, TidTypes, TidRange
<1>3. FirstTid(s)' = c /\ Pending' = p
  BY <1>1 DEF FirstTid, Pending
<1>4. \A f \in Frames : f.tid \in Nat
  BY DEF Frames
<1>5. CASE Fresh(s, b) /\ t < TidTop
  <2>1. /\ b <= t /\ t - b + l + p <= n /\ h.tid <= t /\ b <= h.tid
        /\ node'[s].tid = t + 1
    <3>1. b <= t /\ t - b + l + p <= n
      BY <1>5 DEF Fresh
    <3>2. h.tid <= t /\ b <= h.tid
      BY <1>1, <1>5 DEF Fresh
    <3>3. node'[s].tid = t + 1
      BY <1>1, <1>5 DEF NextTid
    <3> QED
      BY <3>1, <3>2, <3>3
  <2>2. b <= t + 1 /\ t + 1 - b + (l - 1) + p <= n
    <3> HIDE DEF t, l, p, n, h
    <3> QED
      BY <1>2, <2>1
  <2>3. ASSUME NEW f \in Frames, Has(node'[s].tx, f) PROVE b <= f.tid /\ f.tid <= t + 1
    <3>1. f.tid \in Nat /\ b <= f.tid /\ f.tid <= t
      BY <1>1, <1>4, <1>5, <2>3 DEF Fresh
    <3> HIDE DEF t
    <3> QED
      BY <1>2, <3>1
  <2>4. ASSUME NEW f \in Frames, Out(s, f)'
        PROVE  b <= f.tid /\ f.tid < t + 1 /\ (f.tid = t + 1 - 1 => f = h)
    <3>1. f.tid \in Nat /\ (Out(s, f) \/ f = h)
      BY <1>1, <1>4, <2>4
    <3>2. Out(s, f) => b <= f.tid /\ f.tid < t
      BY <1>5 DEF Fresh
    <3> HIDE DEF t, h
    <3> QED
      BY <1>2, <2>1, <3>1, <3>2
  <2>5. Fresh(s, b)'
    <3>1. /\ b <= node'[s].tid
          /\ node'[s].tid - b + Len(node'[s].tx) + Pending' <= req'.n
      <4>1. node'[s].tid = t + 1 /\ Len(node'[s].tx) = l - 1 /\ Pending' = p /\ req'.n = n
        BY <1>1, <1>3, <2>1
      <4> HIDE DEF t, l, p, n
      <4> QED
        BY <1>2, <2>2, <4>1
    <3>2. \A f \in Frames : Has(node'[s].tx, f) => b <= f.tid /\ f.tid <= node'[s].tid
      BY <2>1, <2>3
    <3>3. \A f \in Frames : Out(s, f)' => b <= f.tid /\ f.tid < node'[s].tid
      BY <2>1, <2>4
    <3> QED
      BY <3>1, <3>2, <3>3 DEF Fresh
  <2>6. ASSUME NEW f \in Frames, Out(s, f)', f.tid = node'[s].tid - 1 PROVE f = h
    <3>1. f.tid = t + 1 - 1
      BY <1>2, <2>1, <2>6
    <3> HIDE DEF t, h
    <3> QED
      BY <2>4, <2>6, <3>1
  <2> QED
    BY <2>5, <2>6
<1>6. CASE Fresh(s, b) /\ t = TidTop
  <2>1. /\ b <= t /\ t - b + l + p <= n /\ h.tid <= t /\ b <= h.tid
        /\ node'[s].tid = c
    <3>1. b <= t /\ t - b + l + p <= n
      BY <1>6 DEF Fresh
    <3>2. h.tid <= t /\ b <= h.tid
      BY <1>1, <1>6 DEF Fresh
    <3>3. node'[s].tid = c
      BY <1>1, <1>2, <1>6 DEF NextTid
    <3> QED
      BY <3>1, <3>2, <3>3
  <2>2. c <= b /\ TidTop + 1 - b + (c - c) + (l - 1) + p <= n
    <3> HIDE DEF t, l, p, n, h, c
    <3> QED
      BY <1>2, <1>6, <2>1
  <2>3. ASSUME NEW f \in Frames, Out(s, f)'
        PROVE  c <= f.tid /\ b <= f.tid /\ f.tid # c - 1
    <3>1. f.tid \in Nat /\ (Out(s, f) \/ f = h)
      BY <1>1, <1>4, <2>3
    <3>2. b <= f.tid
      BY <1>6, <2>1, <3>1 DEF Fresh
    <3>3. c <= b
      BY <2>2
    <3> HIDE DEF t, h, c
    <3> QED
      BY <1>2, <3>1, <3>2, <3>3
  <2>4. ASSUME NEW f \in Frames, Has(node'[s].tx, f) PROVE c <= f.tid /\ b <= f.tid
    <3>1. f.tid \in Nat /\ b <= f.tid
      BY <1>1, <1>4, <1>6, <2>4 DEF Fresh
    <3> HIDE DEF c
    <3> QED
      BY <1>2, <2>2, <3>1
  <2>6. c <= c
    <3> HIDE DEF c
    <3> QED
      BY <1>2
  <2>5. Wrapped(s, b)'
    BY <1>1, <1>3, <2>1, <2>2, <2>3, <2>4, <2>6 DEF Wrapped
  <2> QED
    BY <2>1, <2>3, <2>5
<1>7. CASE Wrapped(s, b)
  <2>1. c <= b /\ c <= t /\ TidTop + 1 - b + (t - c) + l + p <= n
    BY <1>7 DEF Wrapped
  <2>2. t < b /\ t < TidTop /\ c <= t + 1 /\ TidTop + 1 - b + (t + 1 - c) + (l - 1) + p <= n
    <3>1. b <= TidTop
      OBVIOUS
    <3> HIDE DEF t, l, p, n, c
    <3> QED
      BY <1>2, <2>1, <3>1
  <2>3. node'[s].tid = t + 1
    BY <1>1, <2>2 DEF NextTid
  <2>4. ASSUME NEW f \in Frames, Out(s, f), f.tid = t PROVE FALSE
    <3>1. b <= t \/ t < t
      BY <1>7, <2>4 DEF Wrapped
    <3> HIDE DEF t
    <3> QED
      BY <1>2, <2>2, <3>1
  <2>5. ASSUME h.tid = t, NEW f \in Frames, Out(s, f)', f.tid = node'[s].tid - 1 PROVE f = h
    <3>1. f.tid = t
      <4> HIDE DEF t
      <4> QED
        BY <1>2, <2>3, <2>5
    <3> QED
      BY <1>1, <2>4, <2>5, <3>1
  <2>6. ASSUME NEW f \in Frames, Has(node'[s].tx, f)
        PROVE  c <= f.tid /\ (b <= f.tid \/ f.tid <= t + 1)
    <3>1. c <= f.tid /\ (b <= f.tid \/ f.tid <= t) /\ f.tid \in Nat
      BY <1>1, <1>4, <1>7, <2>6 DEF Wrapped
    <3> HIDE DEF t, c
    <3> QED
      BY <1>2, <3>1
  <2>7. ASSUME NEW f \in Frames, Out(s, f)'
        PROVE  c <= f.tid /\ (b <= f.tid \/ f.tid < t + 1)
    <3>1. CASE Out(s, f)
      <4>1. c <= f.tid /\ (b <= f.tid \/ f.tid < t) /\ f.tid \in Nat
        BY <1>4, <1>7, <3>1 DEF Wrapped
      <4> HIDE DEF t, c
      <4> QED
        BY <1>2, <4>1
    <3>2. CASE f = h
      <4>1. h.tid \in Nat /\ c <= h.tid /\ (b <= h.tid \/ h.tid <= t)
        BY <1>1, <1>4, <1>7 DEF Wrapped
      <4> HIDE DEF t, c, h
      <4> QED
        BY <1>2, <3>2, <4>1
    <3> QED
      BY <1>1, <2>7, <3>1, <3>2
  <2>8. Wrapped(s, b)'
    <3>1. /\ c <= b /\ c <= node'[s].tid
          /\ TidTop + 1 - b + (node'[s].tid - c) + Len(node'[s].tx) + Pending' <= req'.n
      <4>1. node'[s].tid = t + 1 /\ Len(node'[s].tx) = l - 1 /\ Pending' = p /\ req'.n = n
        BY <1>1, <1>3, <2>3
      <4> HIDE DEF t, l, p, n, c
      <4> QED
        BY <1>2, <2>1, <2>2, <4>1
    <3>2. \A f \in Frames : Has(node'[s].tx, f) => c <= f.tid /\ (b <= f.tid \/ f.tid <= node'[s].tid)
      BY <2>3, <2>6
    <3>3. \A f \in Frames : Out(s, f)' => c <= f.tid /\ (b <= f.tid \/ f.tid < node'[s].tid)
      BY <2>3, <2>7
    <3> QED
      BY <1>3, <3>1, <3>2, <3>3 DEF Wrapped
  <2> QED
    BY <2>5, <2>8
<1>8. t < TidTop \/ t = TidTop
  <2> HIDE DEF t
  <2> QED
    BY <1>2
<1> QED
  BY <1>5, <1>6, <1>7, <1>8

LEMMA NextTids ==
  ASSUME EnoughTids, Types, Types', TidsInOrder, Next
  PROVE  TidsInOrder'
<1> SUFFICES ASSUME NEW s \in Slaves, ~IsClosed(s)'
             PROVE  \E b \in 0..TidTop : Fresh(s, b)' \/ Wrapped(s, b)'
  BY DEF TidsInOrder
<1>1. /\ Pending \in Nat /\ Pending' \in Nat /\ req.n \in Nat /\ req'.n \in Nat
      /\ Len(node[s].tx) \in Nat /\ Len(node'[s].tx) \in Nat
  BY TidTypes
<1>2. ASSUME ~IsClosed(s),
             node'[s].tid = node[s].tid,
             Len(node'[s].tx) + Pending' - req'.n <= Len(node[s].tx) + Pending - req.n,
             \A f \in Frames : Has(node'[s].tx, f) => Has(node[s].tx, f) \/ f.tid = node[s].tid,
             \A f \in Frames : Out(s, f)' => Out(s, f)
      PROVE  \E b \in 0..TidTop : Fresh(s, b)' \/ Wrapped(s, b)'
  <2>1. PICK b \in 0..TidTop : Fresh(s, b) \/ Wrapped(s, b)
    BY <1>2 DEF TidsInOrder
  <2>2. Fresh(s, b)' \/ Wrapped(s, b)'
    BY <1>2, <2>1, KeepsFresh
  <2> QED
    BY <2>2
<1>3. ASSUME NEW d \in Slaves, Call(d)
      PROVE  \E b \in 0..TidTop : Fresh(s, b)' \/ Wrapped(s, b)'
  <2>1. /\ req'.n = req.n + 1 /\ UNCHANGED <<node, peer>> /\ evq' = Append(evq, "TRANSMIT")
    BY <1>3 DEF Call, links
  <2>2. Pending' = Pending + 1
    <3>1. evq \in Seq(PollEvents) /\ "TRANSMIT" \in PollEvents
      BY DEF Types, PollTypes, PollEvents
    <3>2. Cardinality(TransmitsIn(Append(evq, "TRANSMIT"))) = Cardinality(TransmitsIn(evq)) + 1
      BY <3>1, PendingAppend
    <3> QED
      BY <2>1, <3>2 DEF Pending
  <2>3. Len(node'[s].tx) + Pending' - req'.n <= Len(node[s].tx) + Pending - req.n
    <3> DEFINE l == Len(node[s].tx)
               p == Pending
               n == req.n
    <3>1. l \in Nat /\ p \in Nat /\ n \in Nat
      BY <1>1
    <3> HIDE DEF l, p, n
    <3>2. l + (p + 1) - (n + 1) <= l + p - n
      BY <3>1
    <3> QED
      BY <2>1, <2>2, <3>2 DEF l, p, n
  <2> QED
    BY <1>2, <2>1, <2>3 DEF IsClosed, Out
<1>4. ASSUME ~(\E d \in Slaves : Call(d))
      PROVE  \E b \in 0..TidTop : Fresh(s, b)' \/ Wrapped(s, b)'
  <2>1. Pending' <= Pending
    BY <1>4, EvqMoves, PendingFalls
  <2>2. req'.n = req.n
    <3>1. ASSUME req'.n = req.n + 1, evq' = Append(evq, "TRANSMIT") PROVE FALSE
      <4>1. Cardinality(TransmitsIn(Append(evq, "TRANSMIT"))) = Cardinality(TransmitsIn(evq)) + 1
        BY PendingAppend DEF Types, PollTypes, PollEvents
      <4>2. Pending' = Pending + 1
        BY <3>1, <4>1 DEF Pending
      <4> QED
        BY <1>1, <2>1, <4>2
    <3> QED
      BY <3>1, RequestStep
  <2>3. CASE Shrinks(s)
    <3>1. Len(node'[s].tx) <= Len(node[s].tx)
      BY <2>3 DEF Shrinks
    <3>2. Len(node'[s].tx) + Pending' - req'.n <= Len(node[s].tx) + Pending - req.n
      <4> DEFINE l == Len(node[s].tx)
                 m == Len(node'[s].tx)
                 p == Pending
                 q == Pending'
                 n == req.n
      <4>1. /\ l \in Nat /\ m \in Nat /\ p \in Nat /\ q \in Nat /\ n \in Nat
            /\ m <= l /\ q <= p
        BY <1>1, <2>1, <3>1
      <4> HIDE DEF l, m, p, q, n
      <4>2. m + q - n <= l + p - n
        BY <4>1
      <4> QED
        BY <2>2, <4>2 DEF l, m, p, q, n
    <3> QED
      BY <1>2, <2>3, <3>2 DEF Shrinks, Out
  <2>4. CASE SendWrite(s)
    <3>1. ~IsClosed(s)
      BY <2>4, WriteFrames DEF IsClosed
    <3>2. PICK b \in 0..TidTop : Fresh(s, b) \/ Wrapped(s, b)
      BY <3>1 DEF TidsInOrder
    <3> QED
      BY <2>4, <3>2, WriteFresh
  <2>5. CASE Transmits(s)
    <3> DEFINE g == [req |-> req.n, tid |-> node[s].tid]
    <3>1. /\ g \in Frames /\ node'[s].tid = node[s].tid /\ node'[s].rx = node[s].rx
          /\ node[s].state = "CONNECTED" /\ peer'[s].asked = peer[s].asked
          /\ Len(node'[s].tx) = Len(node[s].tx) + 1
          /\ \A x : Has(node'[s].tx, x) <=> Has(node[s].tx, x) \/ x = g
          /\ evq # <<>> /\ Head(evq) = "TRANSMIT" /\ evq' = Tail(evq)
      BY <2>5, TransmitFrames
    <3>2. Pending' + 1 <= Pending
      <4>1. Cardinality(TransmitsIn(Tail(evq))) + 1 <= Cardinality(TransmitsIn(evq))
        BY <3>1, PendingTail DEF Types, PollTypes
      <4> QED
        BY <3>1, <4>1 DEF Pending
    <3>3. Len(node'[s].tx) + Pending' - req'.n <= Len(node[s].tx) + Pending - req.n
      <4> DEFINE l == Len(node[s].tx)
                 p == Pending
                 q == Pending'
                 n == req.n
      <4>1. l \in Nat /\ p \in Nat /\ q \in Nat /\ n \in Nat /\ q + 1 <= p
        BY <1>1, <3>2
      <4> HIDE DEF l, p, q, n
      <4>2. l + 1 + q - n <= l + p - n
        BY <4>1
      <4> QED
        BY <2>2, <3>1, <4>2 DEF l, p, q, n
    <3>4. \A f \in Frames : Has(node'[s].tx, f) => Has(node[s].tx, f) \/ f.tid = node[s].tid
      BY <3>1
    <3> QED
      BY <1>2, <3>1, <3>3, <3>4 DEF IsClosed, Out
  <2>6. CASE OnClose
    BY <2>6 DEF OnClose, IsClosed
  <2> QED
    BY <2>3, <2>4, <2>5, <2>6, StepShrinks
<1> QED
  BY <1>3, <1>4

LEMMA NextLastUnique ==
  ASSUME EnoughTids, Types, Types', Keeping, TidsInOrder, LastUnique, Next
  PROVE  LastUnique'
<1>1. CASE last' = NoFrame
  BY <1>1 DEF LastUnique
<1>2. ASSUME NEW s \in Slaves, SendWrite(s), last' # NoFrame PROVE LastUnique'
  <2>1. /\ curNode' = s /\ req' = req /\ node[s].tx # <<>> /\ node[s].state = node'[s].state
        /\ last' = Head(node[s].tx) /\ Head(node[s].tx).tid = node[s].tid
        /\ Head(node[s].tx) \in Frames
    BY <1>2, WriteFrames
  <2>2. CASE IsClosed(s)
    BY <2>1, <2>2 DEF LastUnique, IsClosed
  <2>3. CASE ~IsClosed(s)
    <3>3. PICK b \in 0..TidTop : Fresh(s, b) \/ Wrapped(s, b)
      BY <2>3 DEF TidsInOrder
    <3>1. \A f \in Frames : Out(s, f)' /\ f.tid = node'[s].tid - 1 => f = Head(node[s].tx)
      BY <1>2, <2>1, <3>3, WriteFresh
    <3>2. ASSUME last'.req = req'.n, NEW f \in Frames,
                 Out(curNode, f)', f.tid = node'[curNode'].tid - 1
          PROVE  f.req = req'.n
      <4>1. Out(s, f)' /\ f.tid = node'[s].tid - 1
        BY <2>1, <3>2 DEF Out
      <4> QED
        BY <2>1, <3>1, <3>2, <4>1
    <3> QED
      BY <3>2 DEF LastUnique
  <2> QED
    BY <2>2, <2>3
<1>3. ASSUME UNCHANGED <<last, curNode>>, last # NoFrame, ~(\E s \in Slaves : SendWrite(s)),
             last'.req = req'.n, ~IsClosed(curNode)', NEW f \in Frames,
             Out(curNode, f)', f.tid = node'[curNode'].tid - 1
      PROVE  f.req = req'.n
  <2>1. curNode \in Slaves /\ last.req <= req.n /\ req.n \in Nat /\ last.req \in Nat
    <3>1. last \in Frames
      BY <1>3 DEF Types, LinkTypes
    <3> QED
      BY <1>3, <3>1 DEF Keeping, LastWritten, Types, PollTypes, Frames
  <2>2. req'.n = req.n
    <3>1. req'.n # req.n + 1
      BY <1>3, <2>1
    <3> QED
      BY <3>1, RequestStep
  <2>3. CASE Shrinks(curNode) \/ Transmits(curNode)
    <3>1. /\ node'[curNode].tid = node[curNode].tid
          /\ Out(curNode, f)
          /\ ~IsClosed(curNode)
      BY <1>3, <2>1, <2>3, TransmitFrames DEF Shrinks, Out, IsClosed
    <3> QED
      BY <1>3, <2>2, <3>1 DEF LastUnique
  <2>4. CASE OnClose
    BY <1>3, <2>1, <2>4 DEF OnClose, IsClosed
  <2> QED
    BY <1>3, <2>1, <2>3, <2>4, StepShrinks
<1> QED
  BY <1>1, <1>2, <1>3, LastStep DEF LastUnique

\* The inductive invariant.
Accepting == Keeping /\ TidsInOrder /\ LastUnique

LEMMA AcceptingAlways ==
  ASSUME EnoughTids
  PROVE  Spec => [](Types /\ Accepting)
<1>1. Init => Types /\ Keeping /\ TidsInOrder /\ LastUnique
  <2> SUFFICES ASSUME Init PROVE TidsInOrder /\ LastUnique /\ Keeping
    BY InitTypes
  <2>1. /\ \A s \in Slaves : /\ node[s].rx = <<>> /\ node[s].tx = <<>> /\ peer[s].asked = <<>>
                             /\ node[s].tid \in 0..TidTop
        /\ evq = <<"READY">> \/ evq = <<>>
        /\ last = NoFrame /\ req.n = 0
    <3>1. \A s \in Slaves : node[s].tid \in 0..TidTop
      BY InitTypes DEF Types, LinkTypes, NodeSet
    <3>2. evq = <<"READY">> \/ evq = <<>>
      BY DEF Init, Starts, Runs
    <3> QED
      BY <3>1, <3>2, InitLinks DEF Init
  <2>2. \A f : ~Has(<<>>, f)
    BY DEF Has
  <2>3. Pending = 0
    <3>1. TransmitsIn(evq) = {}
      BY <2>1 DEF TransmitsIn
    <3> QED
      BY <3>1, FS_EmptySet DEF Pending
  <2>4. ASSUME NEW s \in Slaves PROVE Fresh(s, node[s].tid)
    <3>1. node[s].tid \in Int
      BY <2>1, Constants
    <3>2. node[s].tid - node[s].tid + Len(<<>>) + 0 <= 0 /\ node[s].tid <= node[s].tid
      BY <3>1
    <3> QED
      BY <2>1, <2>2, <2>3, <3>2 DEF Fresh, Out
  <2>5. Keeping
    BY <2>1, <2>2 DEF Keeping, Owned, Out, LastWritten, ClosedEmpty
  <2> QED
    BY <2>1, <2>4, <2>5 DEF TidsInOrder, LastUnique
<1>2. Types /\ Types' /\ Accepting /\ [Next]_vars => Accepting'
  <2>1. CASE UNCHANGED vars
    <3> USE <2>1 DEF vars
    <3>1. Pending' = Pending
      BY DEF Pending
    <3>2. Keeping => Keeping'
      BY DEF Keeping, Owned, Out, LastWritten, IsClosed, ClosedEmpty
    <3>3. ASSUME NEW s \in Slaves, NEW b \in 0..TidTop
          PROVE  /\ IsClosed(s)' = IsClosed(s)
                 /\ Fresh(s, b)' = Fresh(s, b) /\ Wrapped(s, b)' = Wrapped(s, b)
      BY <3>1 DEF IsClosed, Fresh, Wrapped, Out, FirstTid
    <3>5. TidsInOrder => TidsInOrder'
      <4> SUFFICES ASSUME TidsInOrder, NEW s \in Slaves, ~IsClosed(s)'
                   PROVE  \E b \in 0..TidTop : Fresh(s, b)' \/ Wrapped(s, b)'
        BY DEF TidsInOrder
      <4>1. ~IsClosed(s)
        BY DEF IsClosed
      <4>2. PICK b \in 0..TidTop : Fresh(s, b) \/ Wrapped(s, b)
        BY <4>1 DEF TidsInOrder
      <4> QED
        BY <3>3, <4>2
    <3>4. LastUnique => LastUnique'
      BY DEF LastUnique, Out, IsClosed
    <3> QED
      BY <3>2, <3>4, <3>5 DEF Accepting
  <2>2. ASSUME Types, Types', Accepting, Next PROVE Accepting'
    <3>1. Keeping'
      BY <2>2, NextOwned, NextLastWritten, NextClosedEmpty DEF Accepting, Keeping
    <3> QED
      BY <2>2, <3>1, NextTids, NextLastUnique DEF Accepting
  <2> QED
    BY <2>1, <2>2
<1> QED
  BY <1>1, <1>2, TypesAlways, PTL DEF Spec, Accepting

\* Whatever late answers come, of whichever request and slave, only the own answer is
\* accepted among what is read from the slave that was written to last, for a request that
\* was written with its slave's identifier; for any number of slaves and requests and
\* wherever the counters are, as long as no identifier is used twice.
THEOREM AcceptsAlwaysOwn ==
  ASSUME EnoughTids
  PROVE  Spec => AcceptsOwn
<1>1. ASSUME Types, Accepting, NEW s \in Slaves, PollReceive(s), s = curNode, last.req = req.n
      PROVE  buf'.req = req.n
  <2> DEFINE f == Head(node[s].rx)
  <2>1. /\ node[s].rx # <<>> /\ node[s].rx \in Seq(Frames) /\ buf' = f
        /\ f.tid = node[s].tid - 1
    <3>1. node[s].rx # <<>> /\ buf' = f /\ f.tid = node[s].tid - 1
      BY <1>1 DEF PollReceive, ReadDone, Acceptable, Expected
    <3> QED
      BY <1>1, <3>1, NodeType DEF Types
  <2>2. f \in Frames /\ Out(s, f)
    <3>1. f \in Frames /\ Has(node[s].rx, f)
      BY <2>1, TailHas
    <3> QED
      BY <3>1 DEF Out
  <2>3. ~IsClosed(s)
    BY <1>1, <2>1 DEF Accepting, Keeping, ClosedEmpty
  <2>4. CASE last = NoFrame
    <3>1. req.n = 0
      BY <1>1, <2>4 DEF NoFrame
    <3>2. f.req <= 0 /\ f.req \in 1..MaxReq
      BY <1>1, <2>2, <3>1 DEF Accepting, Keeping, Owned, Frames
    <3> QED
      BY <3>2, Constants
  <2>5. CASE last # NoFrame
    BY <1>1, <2>1, <2>2, <2>3, <2>5 DEF Accepting, LastUnique
  <2> QED
    BY <2>4, <2>5
<1>2. Types /\ Accepting /\ [Next]_vars =>
         [\A s \in Slaves : PollReceive(s) /\ s = curNode /\ last.req = req.n => buf'.req = req.n]_vars
  BY <1>1
<1> QED
  BY <1>2, AcceptingAlways, PTL DEF Spec, AcceptsOwn

-------------------------------------------------------------------------------
(* What leads to the return of the resource.                               *)

Driving == {"READY", "TRANSMIT", "EXECUTE", "ERROR"}

\* An error that is set has its event; and while the resource is taken, an event that leads
\* to its return is queued or the response timeout runs.
Driven == /\ errType # "INIT" => Has(evq, "ERROR")
          /\ ~res /\ control # "stopped" => timer \/ \E e \in Driving : Has(evq, e)

\* An event that is posted is there beside all others.
LEMMA PostedHas ==
  ASSUME Types
  PROVE  \A e \in PollEvents : \A x : Has(Append(evq, e), x) <=> Has(evq, x) \/ x = e
BY AppendHas DEF Types, PollTypes

\* One that is taken leaves all others.
LEMMA TakenHas ==
  ASSUME Types, NEW e \in PollEvents, PollGets(e)
  PROVE  /\ \A x : Has(Tail(evq), x) \/ x = e <=> Has(evq, x)
         /\ \A d \in PollEvents : \A x : Has(Append(Tail(evq), d), x) <=> Has(Tail(evq), x) \/ x = d
<1>1. evq \in Seq(PollEvents) /\ evq # <<>> /\ Head(evq) = e
  BY DEF Types, PollTypes, PollGets
<1>2. /\ Tail(evq) \in Seq(PollEvents)
      /\ \A x : Has(Tail(evq), x) \/ x = e <=> Has(evq, x)
  BY <1>1, TailHas
<1> QED
  BY <1>2, AppendHas

\* The steps of the poll task that take an event off its queue.
LEMMA TakesDriven ==
  ASSUME Types, Driven, PollReady \/ PollTransmit \/ PollRead \/ PollStale \/ PollExecute \/ PollError
  PROVE  Driven'
<1>1. /\ PollEvents = {"READY", "TRANSMIT", "RECEIVED", "EXECUTE", "ERROR"}
      /\ Driving = {"READY", "TRANSMIT", "EXECUTE", "ERROR"}
  BY DEF PollEvents, Driving
<1>2. CASE PollReady
  <2>1. PollGets("READY") /\ evq' = Tail(evq) /\ res' /\ errType' = errType
    BY <1>2 DEF PollReady
  <2>2. \A x : Has(evq', x) \/ x = "READY" <=> Has(evq, x)
    BY <1>1, <2>1, TakenHas
  <2> QED
    BY <2>1, <2>2 DEF Driven
<1>3. CASE PollTransmit
  <2>1. /\ PollGets("TRANSMIT") /\ timer'
        /\ \/ evq' = Tail(evq) /\ errType' = errType
           \/ evq' = Append(Tail(evq), "ERROR") /\ errType' = "TIMEOUT"
    BY <1>3 DEF PollTransmit
  <2>2. /\ \A x : Has(Tail(evq), x) \/ x = "TRANSMIT" <=> Has(evq, x)
        /\ \A x : Has(Append(Tail(evq), "ERROR"), x) <=> Has(Tail(evq), x) \/ x = "ERROR"
    BY <1>1, <2>1, TakenHas
  <2> QED
    BY <2>1, <2>2 DEF Driven
<1>4. CASE PollRead \/ PollStale
  <2>1. /\ PollGets("RECEIVED") /\ res' = res /\ control' = control
        /\ \/ evq' = Tail(evq) /\ errType' = errType /\ timer' = timer
           \/ evq' = Append(Tail(evq), "EXECUTE") /\ errType' = errType
           \/ evq' = Append(Tail(evq), "ERROR")
    BY <1>4 DEF PollRead, PollStale, Accept, Reject, Ignore
  <2>2. /\ \A x : Has(Tail(evq), x) \/ x = "RECEIVED" <=> Has(evq, x)
        /\ \A x : Has(Append(Tail(evq), "EXECUTE"), x) <=> Has(Tail(evq), x) \/ x = "EXECUTE"
        /\ \A x : Has(Append(Tail(evq), "ERROR"), x) <=> Has(Tail(evq), x) \/ x = "ERROR"
    BY <1>1, <2>1, TakenHas
  <2>3. "RECEIVED" \notin Driving /\ "EXECUTE" \in Driving /\ "ERROR" \in Driving
    BY <1>1
  <2>4. CASE evq' = Tail(evq) /\ errType' = errType /\ timer' = timer
    <3>1. errType' # "INIT" => Has(evq', "ERROR")
      BY <2>2, <2>4 DEF Driven
    <3>2. \A e \in Driving : Has(evq, e) => Has(evq', e)
      BY <2>2, <2>3, <2>4
    <3> QED
      BY <2>1, <2>4, <3>1, <3>2 DEF Driven
  <2>5. CASE evq' = Append(Tail(evq), "EXECUTE") /\ errType' = errType
    <3>1. errType' # "INIT" => Has(evq', "ERROR")
      BY <2>2, <2>5 DEF Driven
    <3> QED
      BY <2>2, <2>3, <2>5, <3>1 DEF Driven
  <2>6. CASE evq' = Append(Tail(evq), "ERROR")
    BY <2>2, <2>3, <2>6 DEF Driven
  <2> QED
    BY <2>1, <2>4, <2>5, <2>6
<1>5. CASE PollExecute
  <2>1. /\ PollGets("EXECUTE")
        /\ \/ evq' = Append(Tail(evq), "ERROR")
           \/ evq' = Tail(evq) /\ errType # "INIT"
    BY <1>5 DEF PollExecute
  <2>2. /\ \A x : Has(Tail(evq), x) \/ x = "EXECUTE" <=> Has(evq, x)
        /\ \A x : Has(Append(Tail(evq), "ERROR"), x) <=> Has(Tail(evq), x) \/ x = "ERROR"
    BY <1>1, <2>1, TakenHas
  <2>3. Has(evq', "ERROR")
    BY <2>1, <2>2 DEF Driven
  <2> QED
    BY <1>1, <2>3 DEF Driven
<1>6. CASE PollError
  BY <1>6 DEF PollError, Driven
<1> QED
  BY <1>2, <1>3, <1>4, <1>5, <1>6

\* The steps that post one, and those that do neither.
LEMMA NextDriven == Types /\ Driven /\ [Next]_vars => Driven'
<1> SUFFICES ASSUME Types, Driven, [Next]_vars PROVE Driven'
  OBVIOUS
<1>1. /\ PollEvents = {"READY", "TRANSMIT", "RECEIVED", "EXECUTE", "ERROR"}
      /\ Driving = {"READY", "TRANSMIT", "EXECUTE", "ERROR"}
  BY DEF PollEvents, Driving
<1>2. ASSUME NEW e \in Driving, evq' = Append(evq, e), errType' = errType \/ e = "ERROR"
      PROVE  Driven'
  <2>1. \A x : Has(evq', x) <=> Has(evq, x) \/ x = e
    BY <1>1, <1>2, PostedHas
  <2>2. errType' # "INIT" => Has(evq', "ERROR")
    BY <1>2, <2>1 DEF Driven
  <2> QED
    BY <2>1, <2>2 DEF Driven
<1>3. ASSUME UNCHANGED <<evq, errType, timer, res>>, control = "stopped" => control' = "stopped"
      PROVE  Driven'
  BY <1>3 DEF Driven
<1>4. ASSUME NEW s \in Slaves, RecvFound(s) PROVE Driven'
  <2>1. /\ evq' = Append(evq, "RECEIVED") /\ errType' = "INIT"
        /\ UNCHANGED <<timer, res, control>>
    BY <1>4 DEF RecvFound
  <2>2. \A x : Has(evq', x) <=> Has(evq, x) \/ x = "RECEIVED"
    BY <1>1, <2>1, PostedHas
  <2> QED
    BY <2>1, <2>2 DEF Driven
<1>5. CASE Network
  <2>1. ASSUME NEW s \in Slaves, ReadBad(s) PROVE Driven'
    BY <1>1, <1>2, <2>1 DEF ReadBad
  <2>2. ASSUME NEW s \in Slaves, Answer(s) \/ Break(s) \/ Reset(s) \/ ReadBroken(s) PROVE Driven'
    BY <1>3, <2>2 DEF Answer, Break, Reset, ReadBroken, fsm
  <2> QED
    BY <1>5, <2>1, <2>2 DEF Network
<1>6. CASE Driver
  BY <1>3, <1>4, <1>6 DEF Driver, OnResolveAll, OnErrorRepair, Reconnect, OnErrorLater, OnClose,
     HandleStale, OnResolve, ConnectDone, ConnectPending, ConnectRefused, SendWrite, SendFail,
     SendNothing, RecvNothing, fsm
<1>7. CASE Poll
  <2>1. ASSUME NEW s \in Slaves, PollReceive(s) \/ PollReject(s) PROVE Driven'
    <3>1. \E e \in Driving : evq' = Append(evq, e) /\ (errType' = errType \/ e = "ERROR")
      BY <1>1, <2>1 DEF PollReceive, PollReject, Accept, Reject
    <3> QED
      BY <1>2, <3>1
  <2>2. ASSUME NEW s \in Slaves, PollIgnore(s) PROVE Driven'
    BY <1>3, <2>2 DEF PollIgnore, ReadDone, Ignore
  <2> QED
    BY <1>7, <2>1, <2>2, TakesDriven DEF Poll
<1>8. CASE TimerExpires
  BY <1>1, <1>2, <1>8 DEF TimerExpires
<1>9. CASE Caller
  <2>1. ASSUME NEW s \in Slaves, Call(s) PROVE Driven'
    BY <1>1, <1>2, <2>1 DEF Call
  <2>2. CASE CallReturn \/ CallGiveUp
    BY <1>3, <2>2 DEF CallReturn, CallGiveUp, fsm
  <2> QED
    BY <1>9, <2>1, <2>2 DEF Caller
<1>10. CASE Started
  BY <1>3, <1>10 DEF Started, fsm
<1>11. CASE Stop
  BY <1>11 DEF Stop, Driven
<1>12. CASE UNCHANGED vars
  BY <1>3, <1>12 DEF vars
<1> QED
  BY <1>5, <1>6, <1>7, <1>8, <1>9, <1>10, <1>11, <1>12 DEF Next

\* At every instant of a request that has taken the resource, an event that leads to its
\* return is queued or the response timeout runs: for any number of slaves, requests and
\* faults, and wherever the poll task is overtaken.
THEOREM HeldAlwaysDriven == Spec => []HeldIsDriven
<1>1. Init => Driven
  <2> SUFFICES ASSUME Init PROVE Driven
    OBVIOUS
  <2>1. errType = "INIT"
    BY DEF Init
  <2>2. CASE Starts
    <3>1. evq = <<"READY">> /\ "READY" \in Driving
      BY <2>2 DEF Starts, Driving
    <3>2. Has(evq, "READY")
      BY <3>1 DEF Has
    <3> QED
      BY <2>1, <3>1, <3>2 DEF Driven
  <2>3. CASE Runs
    BY <2>1, <2>3 DEF Runs, Driven
  <2> QED
    BY <2>2, <2>3 DEF Init
<1>2. Types /\ Driven => HeldIsDriven
  <2> SUFFICES ASSUME Driven, ~res, control = "running", ~timer PROVE evq # <<>>
    BY DEF HeldIsDriven
  <2>1. PICK e \in Driving : Has(evq, e)
    BY DEF Driven
  <2> QED
    BY <2>1 DEF Has
<1> QED
  BY <1>1, <1>2, NextDriven, TypesAlways, PTL DEF Spec

================================================================================
