--------------------------- MODULE MbTcpSlaveProofs ---------------------------
(***************************************************************************)
(* Theorems about MbTcpSlave for any number of connections, slots,         *)
(* requests and faults: the types, and then three invariants one on top of *)
(* the other.  Placed says where each connection and its frames are, so    *)
(* that a transaction belongs to the connection that has its slot.         *)
(* Answering says what each frame has been through, so that a response is  *)
(* sent once, in order and to the client that asked.  Calm says that       *)
(* nothing is started or posted again while no transaction gets too old    *)
(* and the slave is not stopped, so that a request is executed once.       *)
(* ErrOnWay stands apart: what keeps the resource taken from being         *)
(* forgotten.                                                              *)
(***************************************************************************)
EXTENDS MbTcpSlave, SequenceTheorems, FiniteSetTheorems, TLAPS

Has(q, e) == \E i \in DOMAIN q : q[i] = e

-------------------------------------------------------------------------------
(* Queues.                                                                 *)

LEMMA AppendIs ==
  ASSUME NEW S, NEW q \in Seq(S), NEW e \in S
  PROVE  /\ Append(q, e) \in Seq(S) /\ Len(q) \in Nat
         /\ DOMAIN q = 1..Len(q) /\ DOMAIN Append(q, e) = 1..Len(q) + 1
         /\ \A i \in DOMAIN q : i \in DOMAIN Append(q, e) /\ i # Len(q) + 1 /\ Append(q, e)[i] = q[i]
         /\ Append(q, e)[Len(q) + 1] = e /\ Len(q) + 1 \in DOMAIN Append(q, e)
         /\ \A i \in DOMAIN Append(q, e) : i \in DOMAIN q \/ i = Len(q) + 1
         /\ \A x : Has(Append(q, e), x) <=> Has(q, x) \/ x = e
<1>1. /\ Append(q, e) \in Seq(S) /\ Len(Append(q, e)) = Len(q) + 1
      /\ \A i \in 1..Len(q) : Append(q, e)[i] = q[i]
      /\ Append(q, e)[Len(q) + 1] = e
  BY AppendProperties
<1>2. /\ Len(q) \in Nat /\ DOMAIN q = 1..Len(q)
      /\ DOMAIN Append(q, e) = 1..Len(q) + 1
  BY <1>1
<1>3. \A i \in 1..Len(q) + 1 : i \in 1..Len(q) \/ i = Len(q) + 1
  BY <1>2
<1>4. /\ Len(q) + 1 \in 1..Len(q) + 1
      /\ \A i \in 1..Len(q) : i \in 1..Len(q) + 1 /\ i # Len(q) + 1
  BY <1>2
<1>5. \A x : Has(Append(q, e), x) <=> Has(q, x) \/ x = e
  BY <1>1, <1>2, <1>3, <1>4 DEF Has
<1> QED
  BY <1>1, <1>2, <1>3, <1>4, <1>5

LEMMA TailIs ==
  ASSUME NEW S, NEW q \in Seq(S), q # <<>>
  PROVE  /\ Head(q) \in S /\ Tail(q) \in Seq(S) /\ Len(q) \in Nat \ {0}
         /\ Head(q) = q[1] /\ 1 \in DOMAIN q
         /\ DOMAIN q = 1..Len(q) /\ DOMAIN Tail(q) = 1..Len(q) - 1
         /\ \A i \in DOMAIN Tail(q) : i \in Nat /\ i + 1 \in DOMAIN q /\ Tail(q)[i] = q[i + 1]
         /\ \A x : Has(q, x) <=> Has(Tail(q), x) \/ x = Head(q)
<1>1. /\ Tail(q) \in Seq(S) /\ Head(q) \in S
      /\ Len(q) \in Nat \ {0}
      /\ DOMAIN q = 1..Len(q) /\ DOMAIN Tail(q) = 1..Len(q) - 1
      /\ Head(q) = q[1]
      /\ \A i \in 1..Len(q) - 1 : Tail(q)[i] = q[i + 1]
  OBVIOUS
<1>2. /\ \A i \in 1..Len(q) - 1 : i \in Nat /\ i + 1 \in 1..Len(q)
      /\ 1 \in 1..Len(q)
  BY <1>1
<1>3. ASSUME NEW x, Has(q, x), x # Head(q) PROVE Has(Tail(q), x)
  <2>1. PICK i \in 1..Len(q) : q[i] = x
    BY <1>1, <1>3 DEF Has
  <2>2. i # 1
    BY <1>1, <1>3, <2>1
  <2>3. i - 1 \in 1..Len(q) - 1 /\ i - 1 + 1 = i
    BY <1>1, <2>1, <2>2
  <2> QED
    BY <1>1, <2>1, <2>3 DEF Has
<1>4. ASSUME NEW x, Has(Tail(q), x) PROVE Has(q, x)
  <2>1. PICK i \in 1..Len(q) - 1 : Tail(q)[i] = x
    BY <1>1, <1>4 DEF Has
  <2> QED
    BY <1>1, <1>2, <2>1 DEF Has
<1>5. Has(q, Head(q))
  BY <1>1, <1>2 DEF Has
<1> QED
  BY <1>1, <1>2, <1>3, <1>4, <1>5

-------------------------------------------------------------------------------
(* Deleting from the list of transactions.                                 *)

\* How many of S come before i.
Rank(S, i) == Cardinality({j \in S : j < i})

LEMMA RankGrows ==
  ASSUME NEW S \in SUBSET Nat, IsFiniteSet(S), NEW i \in S, NEW j \in S, i < j
  PROVE  Rank(S, i) < Rank(S, j)
<1> DEFINE A == {r \in S : r < i}
           B == {r \in S : r < j}
<1>1. IsFiniteSet(A) /\ IsFiniteSet(B)
  BY FS_Subset
<1>2. A \in SUBSET B /\ i \in B /\ i \notin A
  <2>1. ASSUME NEW r \in S, r < i PROVE r < j
    <3>1. r \in Nat /\ i \in Nat /\ j \in Nat
      OBVIOUS
    <3> QED
      BY <2>1, <3>1
  <2>2. ~(i < i)
    <3>1. i \in Nat
      OBVIOUS
    <3> QED
      BY <3>1
  <2> QED
    BY <2>1, <2>2
<1>3. Cardinality(A) <= Cardinality(B) /\ Cardinality(A) # Cardinality(B)
  BY <1>1, <1>2, FS_Subset
<1>4. Cardinality(A) \in Nat /\ Cardinality(B) \in Nat
  BY <1>1, FS_CardinalityType
<1> HIDE DEF A, B
<1>5. Cardinality(A) < Cardinality(B)
  BY <1>3, <1>4
<1> QED
  BY <1>5 DEF Rank, A, B

\* The members of S have the ranks from 0 on.
LEMMA RankBijection ==
  ASSUME NEW S \in SUBSET Nat, IsFiniteSet(S)
  PROVE  /\ Cardinality(S) \in Nat
         /\ \A i \in S : Rank(S, i) \in 0..Cardinality(S) - 1
         /\ \A k \in 0..Cardinality(S) - 1 : \E i \in S : Rank(S, i) = k
<1>1. Cardinality(S) \in Nat
  BY FS_CardinalityType
<1>2. ASSUME NEW i \in S PROVE Rank(S, i) \in 0..Cardinality(S) - 1
  <2> DEFINE A == {r \in S : r < i}
  <2>1. A \in SUBSET S /\ i \notin A
    <3>1. i \in Nat
      OBVIOUS
    <3> QED
      BY <3>1
  <2>2. IsFiniteSet(A) /\ Cardinality(A) <= Cardinality(S) /\ Cardinality(A) # Cardinality(S)
    BY <2>1, FS_Subset
  <2>3. Cardinality(A) \in Nat
    BY <2>2, FS_CardinalityType
  <2> HIDE DEF A
  <2>4. Cardinality(A) \in 0..Cardinality(S) - 1
    BY <1>1, <2>2, <2>3
  <2> QED
    BY <2>4 DEF Rank, A
<1>3. ASSUME NEW k \in 0..Cardinality(S) - 1 PROVE \E i \in S : Rank(S, i) = k
  <2> DEFINE T == 0..Cardinality(S) - 1
             f == [i \in S |-> Rank(S, i)]
  <2>1. f \in [S -> T]
    BY <1>2
  <2>2. \A i, j \in S : f[i] = f[j] => i = j
    <3> SUFFICES ASSUME NEW i \in S, NEW j \in S, Rank(S, i) = Rank(S, j) PROVE i = j
      OBVIOUS
    <3>1. Rank(S, i) \in Nat
      BY <1>1, <1>2
    <3>2. ~(i < j) /\ ~(j < i)
      BY <3>1, RankGrows
    <3>3. i \in Nat /\ j \in Nat
      OBVIOUS
    <3> QED
      BY <3>2, <3>3
  <2>3. f \in Injection(S, T)
    BY <2>1, <2>2 DEF Injection, IsInjective
  <2>4. IsFiniteSet(T) /\ Cardinality(T) = Cardinality(S)
    <3>1. 0 \in Int /\ Cardinality(S) - 1 \in Int
      BY <1>1
    <3>2. /\ IsFiniteSet(T)
          /\ Cardinality(T) = IF 0 > Cardinality(S) - 1 THEN 0 ELSE Cardinality(S) - 1 - 0 + 1
      BY <3>1, FS_Interval
    <3> QED
      BY <1>1, <3>2
  <2>5. f \in Surjection(S, T)
    BY <2>3, <2>4, FS_Injection
  <2>6. \E i \in S : f[i] = k
    BY <2>5 DEF Surjection
  <2> QED
    BY <2>6
<1> QED
  BY <1>1, <1>2, <1>3

\* p is what is left of q, in the same order, at the places g.
LeftAt(p, q, g) == /\ g \in [DOMAIN p -> DOMAIN q]
                   /\ \A m \in DOMAIN p : p[m] = q[g[m]]
                   /\ \A m, n \in DOMAIN p : m < n => g[m] < g[n]

Left(p, q) == \E g : LeftAt(p, q, g)

LEMMA KeptIs ==
  ASSUME NEW X, NEW q \in Seq(X), NEW S \in SUBSET DOMAIN q
  PROVE  /\ Kept(q, S) \in Seq(X) /\ Len(Kept(q, S)) = Cardinality(S)
         /\ \E g : /\ LeftAt(Kept(q, S), q, g)
                   /\ \A m \in DOMAIN Kept(q, S) : g[m] \in S
                   /\ \A i \in S : \E m \in DOMAIN Kept(q, S) : g[m] = i
<1> DEFINE n == Cardinality(S)
           At(m) == CHOOSE i \in S : Cardinality({j \in S : j < i}) = m - 1
           g == [m \in 1..n |-> At(m)]
<1>1. S \in SUBSET Nat /\ IsFiniteSet(S) /\ n \in Nat
  <2>1. Len(q) \in Nat /\ DOMAIN q = 1..Len(q) /\ IsFiniteSet(1..Len(q))
    BY FS_Interval
  <2> QED
    BY <2>1, FS_Subset, FS_CardinalityType
<1>2. ASSUME NEW m \in 1..n PROVE At(m) \in S /\ Rank(S, At(m)) = m - 1
  <2>1. m - 1 \in 0..n - 1
    BY <1>1
  <2>2. \E i \in S : Rank(S, i) = m - 1
    BY <1>1, <2>1, RankBijection
  <2> QED
    BY <2>2 DEF Rank
<1>3. Kept(q, S) = [m \in 1..n |-> q[At(m)]]
  BY DEF Kept
<1>4. \A m \in 1..n : At(m) \in S /\ q[At(m)] \in X /\ At(m) \in DOMAIN q
  <2>1. \A i \in S : q[i] \in X /\ i \in DOMAIN q
    OBVIOUS
  <2> HIDE DEF At
  <2> QED
    BY <1>2, <2>1
<1>5. Kept(q, S) \in [1..n -> X] /\ DOMAIN Kept(q, S) = 1..n
  <2> HIDE DEF At
  <2> QED
    BY <1>3, <1>4
<1>6. Kept(q, S) \in Seq(X) /\ Len(Kept(q, S)) = n
  BY <1>1, <1>5
<1>7. ASSUME NEW m \in 1..n, NEW p \in 1..n, m < p PROVE At(m) < At(p)
  <2>1. /\ At(m) \in S /\ At(p) \in S /\ Rank(S, At(m)) = m - 1 /\ Rank(S, At(p)) = p - 1
    BY <1>2
  <2> HIDE DEF At
  <2>2. m \in Nat /\ p \in Nat /\ ~(p - 1 < m - 1) /\ m - 1 # p - 1
    BY <1>1, <1>7
  <2>3. At(m) # At(p) /\ ~(At(p) < At(m))
    BY <1>1, <2>1, <2>2, RankGrows
  <2>4. At(m) \in Nat /\ At(p) \in Nat
    BY <1>1, <2>1
  <2> QED
    BY <2>3, <2>4
<1>8. ASSUME NEW i \in S PROVE \E m \in 1..n : At(m) = i
  <2>1. Rank(S, i) \in 0..n - 1
    BY <1>1, RankBijection
  <2> DEFINE m == Rank(S, i) + 1
  <2>2. m \in 1..n /\ m - 1 = Rank(S, i)
    BY <1>1, <2>1
  <2>3. At(m) \in S /\ Rank(S, At(m)) = Rank(S, i)
    BY <1>2, <2>2
  <2>4. Rank(S, i) \in Nat
    BY <1>1, <2>1
  <2>5. At(m) = i
    <3> HIDE DEF At, m
    <3>1. ~(At(m) < i) /\ ~(i < At(m))
      BY <1>1, <2>3, <2>4, RankGrows
    <3>2. At(m) \in Nat /\ i \in Nat
      BY <1>1, <2>3
    <3> QED
      BY <3>1, <3>2
  <2> QED
    BY <2>2, <2>5
<1>9. LeftAt(Kept(q, S), q, g)
  <2> HIDE DEF At
  <2> QED
    BY <1>3, <1>4, <1>5, <1>7 DEF LeftAt
<1> QED
  <2>1. \A m \in 1..n : g[m] = At(m)
    OBVIOUS
  <2> HIDE DEF At, g
  <2> QED
    BY <1>4, <1>5, <1>6, <1>8, <1>9, <2>1, SMTT(30)

\* What stays at all its places stays as it is.
LEMMA KeptAll ==
  ASSUME NEW X, NEW q \in Seq(X)
  PROVE  Kept(q, DOMAIN q) = q
<1> DEFINE p == Kept(q, DOMAIN q)
<1>1. Len(q) \in Nat /\ DOMAIN q = 1..Len(q) /\ Cardinality(1..Len(q)) = Len(q)
  <2>1. Len(q) \in Nat /\ DOMAIN q = 1..Len(q)
    OBVIOUS
  <2>2. Cardinality(1..Len(q)) = IF 1 > Len(q) THEN 0 ELSE Len(q) - 1 + 1
    BY <2>1, FS_Interval
  <2> QED
    BY <2>1, <2>2
<1>2. /\ p \in Seq(X) /\ Len(p) = Len(q) /\ DOMAIN p = DOMAIN q
  <2>1. p \in Seq(X) /\ Len(p) = Cardinality(DOMAIN q)
    BY KeptIs
  <2> HIDE DEF p
  <2> QED
    BY <1>1, <2>1
<1>3. ASSUME NEW m \in DOMAIN q PROVE p[m] = q[m]
  <2> DEFINE At == CHOOSE i \in DOMAIN q : Cardinality({j \in DOMAIN q : j < i}) = m - 1
  <2>1. \A i \in DOMAIN q : Cardinality({j \in DOMAIN q : j < i}) = i - 1
    <3> SUFFICES ASSUME NEW i \in 1..Len(q) PROVE Cardinality({j \in 1..Len(q) : j < i}) = i - 1
      BY <1>1
    <3>1. {j \in 1..Len(q) : j < i} = 1..i - 1
      BY <1>1
    <3>2. Cardinality(1..i - 1) = IF 1 > i - 1 THEN 0 ELSE i - 1 - 1 + 1
      BY <1>1, FS_Interval
    <3>3. i \in Nat /\ 1 <= i /\ (IF 1 > i - 1 THEN 0 ELSE i - 1 - 1 + 1) = i - 1
      BY <1>1
    <3> QED
      BY <3>1, <3>2, <3>3, Zenon
  <2>2. m \in Nat /\ \A i \in DOMAIN q : i \in Nat /\ (i - 1 = m - 1 => i = m)
    BY <1>1
  <2>3. At = m
    BY <2>1, <2>2
  <2>4. p[m] = q[At]
    BY <1>1 DEF Kept
  <2> QED
    BY <2>3, <2>4
<1>4. p = q
  <2> HIDE DEF p
  <2> QED
    BY <1>2, <1>3
<1> QED
  BY <1>4

\* What stays at the first place stays there.
LEMMA KeptFirst ==
  ASSUME NEW X, NEW q \in Seq(X), NEW S \in SUBSET DOMAIN q, 1 \in S
  PROVE  /\ Kept(q, S) # <<>> /\ Kept(q, S)[1] = q[1]
         /\ Head(Kept(q, S)) = q[1] /\ Head(q) = q[1]
<1> DEFINE p == Kept(q, S)
<1>1. p \in Seq(X)
  BY KeptIs
<1>2. PICK g : /\ LeftAt(p, q, g)
               /\ \A i \in S : \E m \in DOMAIN p : g[m] = i
  BY KeptIs
<1> HIDE DEF p
<1>3. PICK m \in DOMAIN p : g[m] = 1
  BY <1>2
<1>4. Len(p) \in Nat /\ DOMAIN p = 1..Len(p) /\ 1 \in DOMAIN p /\ m \in Nat /\ (m = 1 \/ 1 < m)
  BY <1>1, <1>3
<1>5. g[1] \in DOMAIN q /\ p[1] = q[g[1]] /\ (1 < m => g[1] < g[m])
  BY <1>2, <1>4 DEF LeftAt
<1>6. g[1] \in Nat /\ 1 <= g[1]
  BY <1>5
<1>7. m = 1
  BY <1>3, <1>4, <1>5, <1>6
<1>8. p[1] = q[1] /\ p # <<>>
  BY <1>3, <1>4, <1>5, <1>7
<1>9. Head(p) = p[1] /\ Head(q) = q[1]
  BY <1>1, <1>8
<1> QED
  BY <1>8, <1>9 DEF p

-------------------------------------------------------------------------------
(* Types.                                                                  *)

FramesOf(k) == [conn : {k}, tid : 1..Asks[k]]

\* A slot in use; what it has read is of its own connection.
NodeOf(k) == [conn : {k}, state : {"OPENED", "CONNECTED"}, rx : Seq(FramesOf(k)),
              tx : Seq(Frames), tid : 0..Asks[k]]
NodeSet == UNION {NodeOf(k) : k \in Conns}

ItemSet == [frame : Frames, node : Nodes, state : States, old : BOOLEAN]
EventSet == [ev : {"CONNECT", "RECV_DATA", "SEND_DATA", "ERROR", "READY", "CLOSE"},
             node : Nodes \union {All}]
PollEvents == {"READY", "RECEIVED", "EXECUTE", "SENT", "ERROR"}

ClientTypes == client \in [Conns -> [state : {"none", "up", "gone"}, asked : Nat]]
NodeTypes == node \in [Nodes -> NodeSet \union {NoNode}]
CountType == connCount \in 0..MaxNodes
QueueTypes == drvq \in Seq(EventSet) /\ evq \in Seq(PollEvents)
ListTypes == trans \in Seq(ItemSet) /\ acking \in ItemSet \union {NoItem}
FlagTypes == /\ res \in BOOLEAN /\ timer \in BOOLEAN /\ listening \in BOOLEAN
             /\ orphaned \in BOOLEAN /\ calm \in BOOLEAN
             /\ errType \in {"INIT", "OK", "RECEIVE_DATA", "RESPOND_TIMEOUT"}
             /\ buf \in Frames \union {NoFrame}
             /\ pollPc \in {"get", "send", "sent"}
             /\ user \in {"stopped", "running", "stopping"}
HistoryTypes == ran \in [Conns -> Seq(Nat)] /\ sent \in [Conns -> Seq(Frames)]

Types == /\ ClientTypes /\ NodeTypes /\ CountType /\ QueueTypes /\ ListTypes
         /\ FlagTypes /\ HistoryTypes

LEMMA FrameIs ==
  /\ \A k \in Conns : Asks[k] \in Nat /\ k # 0 /\ k \in Nat
  /\ \A k \in Conns : \A t \in 1..Asks[k] : [conn |-> k, tid |-> t] \in FramesOf(k)
  /\ \A k \in Conns : \A f \in FramesOf(k) : f \in Frames /\ f.conn = k
  /\ \A f \in Frames : /\ f.conn \in Conns /\ f \in FramesOf(f.conn)
                       /\ f.tid \in Nat /\ f.tid \in 1..Asks[f.conn] /\ f # NoFrame
  /\ \A f, h \in Frames : f.conn = h.conn /\ f.tid = h.tid => f = h
  /\ NoFrame.conn \notin Conns
<1>1. \A k \in Conns : Asks[k] \in Nat /\ k # 0 /\ k \in Nat
  BY TcpSlaveAssumption DEF Conns
<1>2. \A k \in Conns : \A f \in FramesOf(k) : f \in Frames /\ f.conn = k
  BY DEF Frames, FramesOf
<1>3. \A k \in Conns : \A t \in 1..Asks[k] : [conn |-> k, tid |-> t] \in FramesOf(k)
  BY DEF FramesOf
<1>4. ASSUME NEW f \in Frames
      PROVE  /\ f.conn \in Conns /\ f \in FramesOf(f.conn)
             /\ f.tid \in Nat /\ f.tid \in 1..Asks[f.conn] /\ f # NoFrame
  <2>1. PICK k \in Conns : f \in [conn : {k}, tid : 1..Asks[k]]
    BY DEF Frames
  <2>2. f.conn = k /\ f.tid \in 1..Asks[k]
    BY <2>1
  <2>3. f.tid \in Nat /\ f.tid # 0
    BY <1>1, <2>2
  <2> QED
    BY <2>1, <2>2, <2>3 DEF FramesOf, NoFrame
<1>5. ASSUME NEW f \in Frames, NEW h \in Frames, f.conn = h.conn, f.tid = h.tid
      PROVE  f = h
  <2>1. f \in FramesOf(f.conn) /\ h \in FramesOf(f.conn)
    BY <1>4, <1>5
  <2> QED
    BY <1>5, <2>1 DEF FramesOf
<1>6. NoFrame.conn \notin Conns
  BY <1>1 DEF NoFrame
<1> QED
  BY <1>1, <1>2, <1>3, <1>4, <1>5, <1>6

LEMMA NodeIs ==
  /\ \A r \in NodeSet : /\ r # NoNode /\ r.conn \in Conns /\ r \in NodeOf(r.conn)
                        /\ r.rx \in Seq(FramesOf(r.conn)) /\ r.tx \in Seq(Frames)
                        /\ r.rx \in Seq(Frames)
                        /\ r.tid \in 0..Asks[r.conn] /\ r.tid \in Nat
                        /\ r.state \in {"OPENED", "CONNECTED"}
                        /\ \A i \in DOMAIN r.rx : /\ r.rx[i] \in Frames /\ r.rx[i].conn = r.conn
                        /\ \A i \in DOMAIN r.tx : r.tx[i] \in Frames
  /\ \A k \in Conns : NodeOf(k) \subseteq NodeSet
<1>1. ASSUME NEW r \in NodeSet
      PROVE  /\ r # NoNode /\ r.conn \in Conns /\ r \in NodeOf(r.conn)
             /\ r.rx \in Seq(FramesOf(r.conn)) /\ r.tx \in Seq(Frames)
             /\ r.rx \in Seq(Frames)
             /\ r.tid \in 0..Asks[r.conn] /\ r.tid \in Nat
             /\ r.state \in {"OPENED", "CONNECTED"}
             /\ \A i \in DOMAIN r.rx : /\ r.rx[i] \in Frames /\ r.rx[i].conn = r.conn
             /\ \A i \in DOMAIN r.tx : r.tx[i] \in Frames
  <2>1. PICK k \in Conns : r \in NodeOf(k)
    BY DEF NodeSet
  <2>2. /\ r.conn = k /\ r.rx \in Seq(FramesOf(k)) /\ r.tx \in Seq(Frames)
        /\ r.tid \in 0..Asks[k] /\ r.state \in {"OPENED", "CONNECTED"}
    BY <2>1 DEF NodeOf
  <2>3. r.tid \in Nat
    BY <2>2, FrameIs
  <2>4. \A i \in DOMAIN r.rx : r.rx[i] \in FramesOf(k)
    BY <2>2
  <2>5. \A i \in DOMAIN r.rx : /\ r.rx[i] \in Frames /\ r.rx[i].conn = r.conn
    BY <2>2, <2>4, FrameIs
  <2>6. \A i \in DOMAIN r.tx : r.tx[i] \in Frames
    BY <2>2
  <2>7. r.conn # 0
    BY <2>2, FrameIs
  <2>8. FramesOf(k) \subseteq Frames
    BY FrameIs
  <2>9. r.rx \in Seq(Frames)
    BY <2>2, <2>8
  <2> QED
    BY <2>1, <2>2, <2>3, <2>5, <2>6, <2>7, <2>9 DEF NoNode
<1> QED
  BY <1>1 DEF NodeSet

LEMMA InitTypes == Init => Types
<1> SUFFICES ASSUME Init PROVE Types
  OBVIOUS
<1>1. ClientTypes /\ NodeTypes /\ HistoryTypes
  <2>1. <<>> \in Seq(Nat) /\ <<>> \in Seq(Frames)
    OBVIOUS
  <2> QED
    BY <2>1 DEF Init, ClientTypes, NodeTypes, HistoryTypes
<1>2. CountType /\ FlagTypes
  <2>1. 0 \in 0..MaxNodes
    BY TcpSlaveAssumption
  <2> QED
    BY <2>1 DEF Init, CountType, FlagTypes
<1>3. QueueTypes /\ ListTypes
  BY DEF Init, QueueTypes, ListTypes
<1> QED
  BY <1>1, <1>2, <1>3 DEF Types

-------------------------------------------------------------------------------
(* The operations of the list.                                             *)

LEMMA LeftSelf ==
  ASSUME NEW X, NEW q \in Seq(X)
  PROVE  Left(q, q)
<1> DEFINE g == [m \in DOMAIN q |-> m]
<1>1. LeftAt(q, q, g)
  BY DEF LeftAt
<1> QED
  BY <1>1 DEF Left

LEMMA LeftTail ==
  ASSUME NEW X, NEW q \in Seq(X), q # <<>>
  PROVE  Left(Tail(q), q)
<1> DEFINE g == [m \in DOMAIN Tail(q) |-> m + 1]
<1>1. \A m \in DOMAIN Tail(q) : m \in Nat /\ m + 1 \in DOMAIN q /\ Tail(q)[m] = q[m + 1]
  BY TailIs
<1>2. \A m, n \in DOMAIN Tail(q) : m < n => m + 1 < n + 1
  BY <1>1
<1>3. LeftAt(Tail(q), q, g)
  BY <1>1, <1>2 DEF LeftAt
<1> QED
  BY <1>3 DEF Left

LEMMA LeftKept ==
  ASSUME NEW X, NEW q \in Seq(X), NEW S \in SUBSET DOMAIN q
  PROVE  Kept(q, S) \in Seq(X) /\ Left(Kept(q, S), q)
BY KeptIs DEF Left

\* Nothing is added and nothing changes its place among the others.
LEMMA DeletesLeft ==
  ASSUME NEW q \in Seq(ItemSet), NEW n, NEW tid
  PROVE  /\ DeleteExpired(q) \in Seq(ItemSet) /\ Left(DeleteExpired(q), q)
         /\ DeleteByNode(q, n) \in Seq(ItemSet) /\ Left(DeleteByNode(q, n), q)
         /\ \A i \in DOMAIN DeleteByNode(q, n) : DeleteByNode(q, n)[i].node # n
         /\ Delete(q, tid) \in Seq(ItemSet) /\ Left(Delete(q, tid), q)
         /\ (\A i \in DOMAIN q : ~q[i].old) => DeleteExpired(q) = q
<1>1. DeleteExpired(q) \in Seq(ItemSet) /\ Left(DeleteExpired(q), q)
  BY LeftKept DEF DeleteExpired
<1>2. DeleteByNode(q, n) \in Seq(ItemSet) /\ Left(DeleteByNode(q, n), q)
  BY LeftKept DEF DeleteByNode
<1>3. \A i \in DOMAIN DeleteByNode(q, n) : DeleteByNode(q, n)[i].node # n
  <2> DEFINE S == {i \in DOMAIN q : q[i].node # n}
  <2>1. PICK g : /\ LeftAt(Kept(q, S), q, g)
                 /\ \A m \in DOMAIN Kept(q, S) : g[m] \in S
    BY KeptIs
  <2> QED
    BY <2>1 DEF LeftAt, DeleteByNode
<1>4. Delete(q, tid) \in Seq(ItemSet) /\ Left(Delete(q, tid), q)
  BY LeftKept, LeftSelf DEF Delete, Without
<1>5. ASSUME \A i \in DOMAIN q : ~q[i].old PROVE DeleteExpired(q) = q
  <2>1. {i \in DOMAIN q : ~q[i].old} = DOMAIN q
    BY <1>5
  <2> QED
    BY <2>1, KeptAll DEF DeleteExpired
<1> QED
  BY <1>1, <1>2, <1>3, <1>4, <1>5

\* The transaction that is answered is the oldest one, and goes.
LEMMA AnsweredIs ==
  ASSUME NEW q \in Seq(ItemSet), q # <<>>, NEW tid, q[1].frame.tid = tid
  PROVE  LET p == DeleteItem(SetState(q, tid, "TRANSMITTED"), q[1])
         IN  /\ p \in Seq(ItemSet)
             /\ \E g : LeftAt(p, q, g) /\ \A m \in DOMAIN p : g[m] # 1
<1> DEFINE r == SetState(q, tid, "TRANSMITTED")
           S == DOMAIN r \ Place(r, q[1])
<1>1. Len(q) \in Nat /\ DOMAIN q = 1..Len(q) /\ 1 \in DOMAIN q /\ \A i \in DOMAIN q : i \in Nat /\ 1 <= i
  <2>1. Len(q) \in Nat \ {0} /\ DOMAIN q = 1..Len(q)
    OBVIOUS
  <2> QED
    BY <2>1
<1>2. 1 \in Having(q, tid) /\ Having(q, tid) \subseteq DOMAIN q
  BY <1>1 DEF Having
<1>3. Get(q, tid) = 1
  <2>1. \A i \in Having(q, tid) : (\A j \in Having(q, tid) : i =< j) <=> i = 1
    <3>1. \A i \in Having(q, tid) : i \in Nat /\ 1 =< i /\ (i =< 1 => i = 1)
      BY <1>1, <1>2
    <3> QED
      BY <1>2, <3>1
  <2> QED
    BY <1>2, <2>1 DEF Get
<1>4. r = [q EXCEPT ![1].state = "TRANSMITTED"]
  BY <1>2, <1>3 DEF SetState
<1>5. \A i \in DOMAIN q : q[i] \in ItemSet
  OBVIOUS
<1>6. /\ DOMAIN r = DOMAIN q /\ r[1].frame = q[1].frame
      /\ \A i \in DOMAIN q : i # 1 => r[i] = q[i]
  BY <1>1, <1>4, <1>5 DEF ItemSet
<1>7. r \in Seq(ItemSet)
  <2>1. [q[1] EXCEPT !.state = "TRANSMITTED"] \in ItemSet
    BY <1>1, <1>5 DEF ItemSet, States
  <2>2. \A i \in DOMAIN q : r[i] \in ItemSet
    BY <1>1, <1>4, <1>5, <2>1
  <2>3. DOMAIN r = 1..Len(q) /\ r = [i \in 1..Len(q) |-> r[i]]
    BY <1>1, <1>4, <1>6
  <2> HIDE DEF r
  <2>4. r \in [1..Len(q) -> ItemSet]
    BY <1>1, <2>2, <2>3
  <2> QED
    BY <1>1, <2>4
<1> HIDE DEF r
<1>8. S \in SUBSET DOMAIN r /\ 1 \notin S /\ S \subseteq DOMAIN q
  BY <1>1, <1>6 DEF Place
<1>9. Kept(r, S) \in Seq(ItemSet)
  BY <1>7, <1>8, KeptIs
<1>10. PICK g : /\ LeftAt(Kept(r, S), r, g)
                /\ \A m \in DOMAIN Kept(r, S) : g[m] \in S
  BY <1>7, <1>8, KeptIs
<1>11. LeftAt(Kept(r, S), q, g) /\ \A m \in DOMAIN Kept(r, S) : g[m] # 1
  BY <1>6, <1>8, <1>10 DEF LeftAt
<1> QED
  BY <1>9, <1>11 DEF DeleteItem, r

\* The state of one item, or its age, is changed in place.
LEMMA ItemSetIs ==
  ASSUME NEW q \in Seq(ItemSet), NEW a \in ItemSet, NEW s \in States
  PROVE  /\ ItemSetState(q, a, s) \in Seq(ItemSet)
         /\ DOMAIN ItemSetState(q, a, s) = DOMAIN q
         /\ \A i \in DOMAIN q :
              /\ q[i].frame # a.frame => ItemSetState(q, a, s)[i] = q[i]
              /\ q[i].frame = a.frame => ItemSetState(q, a, s)[i] = [q[i] EXCEPT !.state = s]
<1> DEFINE p == ItemSetState(q, a, s)
<1>1. Len(q) \in Nat /\ DOMAIN q = 1..Len(q) /\ \A i \in DOMAIN q : q[i] \in ItemSet
  OBVIOUS
<1>2. \A i \in DOMAIN q : i \in Place(q, a) <=> q[i].frame = a.frame
  BY DEF Place
<1>3. \A i \in DOMAIN q : [q[i] EXCEPT !.state = s] \in ItemSet
  BY <1>1 DEF ItemSet
<1>4. DOMAIN p = DOMAIN q /\ p \in [1..Len(q) -> ItemSet]
  BY <1>1, <1>3 DEF ItemSetState
<1>5. p \in Seq(ItemSet)
  <2> HIDE DEF p
  <2> QED
    BY <1>1, <1>4
<1>6. \A i \in DOMAIN q :
        /\ q[i].frame # a.frame => p[i] = q[i]
        /\ q[i].frame = a.frame => p[i] = [q[i] EXCEPT !.state = s]
  BY <1>2 DEF ItemSetState
<1> QED
  BY <1>4, <1>5, <1>6

LEMMA ExceptItem ==
  ASSUME NEW q \in Seq(ItemSet), NEW i \in DOMAIN q, NEW e \in ItemSet
  PROVE  [q EXCEPT ![i] = e] \in Seq(ItemSet) /\ DOMAIN [q EXCEPT ![i] = e] = DOMAIN q
<1> DEFINE p == [q EXCEPT ![i] = e]
<1>1. Len(q) \in Nat /\ DOMAIN q = 1..Len(q) /\ \A j \in DOMAIN q : q[j] \in ItemSet
  OBVIOUS
<1>2. DOMAIN p = DOMAIN q /\ p \in [1..Len(q) -> ItemSet]
  BY <1>1
<1>3. p \in Seq(ItemSet)
  <2> HIDE DEF p
  <2> QED
    BY <1>1, <1>2
<1> QED
  BY <1>2, <1>3

-------------------------------------------------------------------------------
(* What the steps do to the types.                                         *)

LEMMA SlotIs ==
  ASSUME NodeTypes, NEW n \in Nodes
  PROVE  /\ Up(n) <=> node[n] \in NodeSet
         /\ Up(n) => node[n].conn \in Conns /\ node[n] \in NodeOf(node[n].conn)
BY NodeIs DEF NodeTypes, Up

LEMMA EventIs ==
  /\ \A e \in {"CONNECT", "RECV_DATA", "SEND_DATA", "ERROR", "READY", "CLOSE"} :
        \A n \in Nodes \union {All} : Event(e, n) \in EventSet
  /\ \A n \in Nodes : n \in Nodes \union {All}
BY DEF Event, EventSet

LEMMA QueueIs ==
  ASSUME QueueTypes
  PROVE  /\ \A e \in EventSet : Append(drvq, e) \in Seq(EventSet)
         /\ drvq # <<>> => Tail(drvq) \in Seq(EventSet)
         /\ drvq # <<>> => \A e \in EventSet : Append(Tail(drvq), e) \in Seq(EventSet)
         /\ \A e \in PollEvents : Append(evq, e) \in Seq(PollEvents)
         /\ evq # <<>> => Tail(evq) \in Seq(PollEvents)
         /\ evq # <<>> => \A e \in PollEvents : Append(Tail(evq), e) \in Seq(PollEvents)
BY DEF QueueTypes

LEMMA ListIs ==
  ASSUME ListTypes
  PROVE  /\ \A f \in Frames, n \in Nodes : Enqueue(trans, f, n) \in Seq(ItemSet)
         /\ \A i \in DOMAIN trans : trans[i] \in ItemSet
         /\ trans # <<>> => /\ Tail(trans) \in Seq(ItemSet) /\ 1 \in DOMAIN trans
                            /\ Head(trans) = trans[1]
<1>1. ASSUME NEW f \in Frames, NEW n \in Nodes PROVE Enqueue(trans, f, n) \in Seq(ItemSet)
  <2>1. [frame |-> f, node |-> n, state |-> "QUEUED", old |-> FALSE] \in ItemSet
    BY DEF ItemSet, States
  <2> QED
    BY <2>1 DEF Enqueue, ListTypes
<1>2. trans # <<>> => /\ Tail(trans) \in Seq(ItemSet) /\ 1 \in DOMAIN trans
                      /\ Head(trans) = trans[1]
  BY TailIs DEF ListTypes
<1> QED
  BY <1>1, <1>2 DEF ListTypes

\* The list that mbs_on_recv_data goes on with, and the slot it leaves.
LEMMA RecvIs ==
  ASSUME Types, NEW n \in Nodes, RecvBegin(n)
  PROVE  /\ NodeTypes' /\ drvq # <<>>
         /\ Enqueued(n) \in Seq(ItemSet)
         /\ DeleteExpired(Enqueued(n)) \in Seq(ItemSet)
         /\ Enqueued(n) # <<>> => Head(Enqueued(n)) \in ItemSet
<1>1. drvq # <<>> /\ Up(n) /\ node' = Popped(n)
  BY DEF RecvBegin, Handle
<1>2. node[n].conn \in Conns /\ node[n] \in NodeOf(node[n].conn) /\ node[n] \in NodeSet
  BY <1>1, SlotIs DEF Types
<1> DEFINE k == node[n].conn
<1>3. Popped(n) \in [Nodes -> NodeSet \union {NoNode}]
  <2>1. CASE node[n].rx = <<>>
    BY <2>1 DEF Popped, Types, NodeTypes
  <2>2. CASE node[n].rx # <<>>
    <3> DEFINE q == node[n].rx
               X == FramesOf(k)
    <3>1. q \in Seq(X) /\ q # <<>>
      BY <1>2, <2>2, NodeIs
    <3>2. Tail(q) \in Seq(X) /\ Head(q) \in X
      <4> HIDE DEF q, X
      <4> QED
        BY <3>1
    <3>3. Head(node[n].rx).tid \in 0..Asks[k]
      <4>1. Head(node[n].rx).tid \in 1..Asks[k] /\ Asks[k] \in Nat
        BY <1>2, <3>2, FrameIs DEF FramesOf
      <4> QED
        BY <4>1
    <3> DEFINE r == [node[n] EXCEPT !.rx = Tail(@), !.tid = Head(node[n].rx).tid]
    <3>4. r \in NodeOf(k)
      BY <1>2, <3>2, <3>3 DEF NodeOf
    <3>5. r \in NodeSet
      BY <1>2, <3>4, NodeIs
    <3>6. Popped(n) = [node EXCEPT ![n] = r]
      BY <2>2, <1>2 DEF Popped, Types, NodeTypes
    <3> HIDE DEF r
    <3> QED
      BY <3>5, <3>6 DEF Types, NodeTypes
  <2> QED
    BY <2>1, <2>2
<1>4. Enqueued(n) \in Seq(ItemSet)
  <2>1. CASE node[n].rx = <<>>
    BY <2>1 DEF Enqueued, Types, ListTypes
  <2>2. CASE node[n].rx # <<>>
    <3> DEFINE q == node[n].rx
               X == FramesOf(k)
    <3>1. q \in Seq(X) /\ q # <<>>
      BY <1>2, <2>2, NodeIs
    <3>2. Tail(q) \in Seq(X) /\ Head(q) \in X
      <4> HIDE DEF q, X
      <4> QED
        BY <3>1
    <3> QED
      BY <1>2, <2>2, <3>2, FrameIs, ListIs DEF Enqueued, Types
  <2> QED
    BY <2>1, <2>2
<1>5. DeleteExpired(Enqueued(n)) \in Seq(ItemSet)
  BY <1>4, DeletesLeft
<1>6. Enqueued(n) # <<>> => Head(Enqueued(n)) \in ItemSet
  BY <1>4
<1> QED
  BY <1>1, <1>3, <1>4, <1>5, <1>6 DEF NodeTypes

LEMMA EndedIs ==
  ASSUME ClientTypes, NEW K
  PROVE  /\ Ended(K) \in [Conns -> [state : {"none", "up", "gone"}, asked : Nat]]
         /\ \A k \in Conns : /\ Ended(K)[k].asked = client[k].asked
                             /\ client[k].state # "none" => Ended(K)[k].state # "none"
BY DEF ClientTypes, Ended

LEMMA CountIs ==
  ASSUME CountType, NEW S \in SUBSET Nodes
  PROVE  CountWithout(S) \in 0..MaxNodes
<1> DEFINE T == {n \in S : Connected(n)}
           c == Cardinality(T)
<1>1. IsFiniteSet(Nodes)
  BY FS_Interval, TcpSlaveAssumption DEF Nodes
<1>2. IsFiniteSet(T)
  <2>1. T \in SUBSET Nodes
    OBVIOUS
  <2> QED
    BY <1>1, <2>1, FS_Subset
<1>3. c \in Nat
  BY <1>2, FS_CardinalityType
<1> HIDE DEF c
<1>4. connCount \in Nat /\ connCount <= MaxNodes /\ MaxNodes \in Nat
  BY TcpSlaveAssumption DEF CountType
<1>5. (IF connCount - c > 0 THEN connCount - c ELSE 0) \in 0..MaxNodes
  BY <1>3, <1>4
<1> QED
  BY <1>5 DEF CountWithout, c

LEMMA DropIs ==
  ASSUME Types, NEW n \in Nodes, Connected(n), Drop(n)
  PROVE  ClientTypes' /\ NodeTypes' /\ CountType' /\ trans' \in Seq(ItemSet)
<1>1. ClientTypes'
  BY EndedIs DEF Drop, Types, ClientTypes
<1>2. NodeTypes'
  BY DEF Drop, Types, NodeTypes
<1>3. CountType'
  BY CountIs DEF Drop, Types, CountType
<1>4. trans' \in Seq(ItemSet)
  BY DeletesLeft DEF Drop, Types, ListTypes
<1> QED
  BY <1>1, <1>2, <1>3, <1>4

LEMMA TypesNext == Types /\ [Next]_vars => Types'
<1> SUFFICES ASSUME Types, [Next]_vars PROVE Types'
  OBVIOUS
<1>1. ASSUME NEW k \in Conns, Accept(k) PROVE Types'
  <2>1. PICK n \in Nodes : /\ node' = [node EXCEPT ![n] = Opened(k)]
                           /\ drvq' = Append(drvq, Event("CONNECT", n))
    BY <1>1 DEF Accept
  <2>2. Opened(k) \in NodeSet
    <3>1. 0 \in 0..Asks[k] /\ <<>> \in Seq(FramesOf(k)) /\ <<>> \in Seq(Frames)
      BY FrameIs
    <3> QED
      BY <3>1, NodeIs DEF Opened, NodeOf
  <2>3. Append(drvq, Event("CONNECT", n)) \in Seq(EventSet)
    BY EventIs, QueueIs DEF Types
  <2>4. ClientTypes'
    BY <1>1 DEF Accept, Types, ClientTypes
  <2>5. NodeTypes'
    BY <2>1, <2>2 DEF Types, NodeTypes
  <2>6. drvq' \in Seq(EventSet)
    BY <2>1, <2>3
  <2>7. UNCHANGED <<connCount, acking, trans, fsm, control, history>>
    BY <1>1 DEF Accept
  <2> QED
    BY <2>4, <2>5, <2>6, <2>7 DEF Types, CountType, QueueTypes, ListTypes, FlagTypes, HistoryTypes,
                                 fsm, control, history
<1>2. ASSUME NEW k \in Conns, Refuse(k) \/ PeerGone(k) PROVE Types'
  <2>1. ClientTypes'
    BY <1>2 DEF Refuse, PeerGone, Types, ClientTypes
  <2>2. UNCHANGED <<node, connCount, drvq, acking, trans, fsm, user, listening, orphaned, calm,
                    history>>
    BY <1>2 DEF Refuse, PeerGone, control
  <2> QED
    BY <2>1, <2>2 DEF Refuse, PeerGone, Fault, Types, ClientTypes, NodeTypes, CountType, QueueTypes, ListTypes, FlagTypes, HistoryTypes, slots, fsm, control, history
<1>3. ASSUME NEW n \in Nodes, Read(n) PROVE Types'
  <2> DEFINE k == node[n].conn
             f == [conn |-> k, tid |-> client[k].asked + 1]
             r == [node[n] EXCEPT !.rx = Append(@, f)]
  <2>1. k \in Conns /\ node[n] \in NodeOf(k) /\ node[n] \in NodeSet
    BY <1>3, SlotIs DEF Read, Connected, Types
  <2>2. f \in FramesOf(k)
    <3>1. client[k].asked \in Nat
      BY <2>1 DEF Types, ClientTypes
    <3>2. client[k].asked + 1 \in Nat /\ client[k].asked + 1 =< Asks[k] /\ Asks[k] \in Nat
      BY <1>3, <2>1, <3>1, FrameIs DEF Read
    <3>3. client[k].asked + 1 \in 1..Asks[k]
      BY <3>1, <3>2
    <3> QED
      BY <2>1, <3>3, FrameIs
  <2>3. r \in NodeSet
    <3>1. Append(node[n].rx, f) \in Seq(FramesOf(k))
      BY <2>1, <2>2, NodeIs
    <3> HIDE DEF f
    <3>2. r \in NodeOf(k)
      BY <2>1, <3>1 DEF NodeOf
    <3> QED
      BY <2>1, <3>2, NodeIs
  <2>4. node' = [node EXCEPT ![n] = r]
    BY <1>3 DEF Read
  <2>5. NodeTypes'
    <3> HIDE DEF r
    <3> QED
      BY <2>3, <2>4 DEF Types, NodeTypes
  <2>6. ClientTypes'
    <3>1. client[k].asked + 1 \in Nat
      BY <2>1 DEF Types, ClientTypes
    <3>2. client' = [client EXCEPT ![k].asked = client[k].asked + 1]
      BY <1>3 DEF Read
    <3> HIDE DEF k
    <3> QED
      BY <2>1, <3>1, <3>2 DEF Types, ClientTypes
  <2>7. Append(drvq, Event("RECV_DATA", n)) \in Seq(EventSet)
    BY EventIs, QueueIs DEF Types
  <2> QED
    BY <1>3, <2>5, <2>6, <2>7
    DEF Read, Types, CountType, QueueTypes, ListTypes, FlagTypes, HistoryTypes, fsm, control, history
<1>4. ASSUME NEW n \in Nodes, ReadBad(n) PROVE Types'
  <2>1. Append(evq, "ERROR") \in Seq(PollEvents)
    BY QueueIs DEF Types, PollEvents
  <2> QED
    BY <1>4, <2>1 DEF ReadBad, Fault, Types, ClientTypes, NodeTypes, CountType, QueueTypes, ListTypes, FlagTypes, HistoryTypes, slots, fsm, control, history
<1>5. ASSUME NEW n \in Nodes, ReadGone(n) PROVE Types'
  <2>1. Append(drvq, Event("ERROR", n)) \in Seq(EventSet)
    BY EventIs, QueueIs DEF Types
  <2> QED
    BY <1>5, <2>1 DEF ReadGone, Fault, Types, ClientTypes, NodeTypes, CountType, QueueTypes, ListTypes, FlagTypes, HistoryTypes, slots, fsm, control, history
<1>6. ASSUME NEW i \in DOMAIN trans, Expire(i) PROVE Types'
  <2>1. [trans[i] EXCEPT !.old = TRUE] \in ItemSet
    BY ListIs DEF Types, ItemSet
  <2>2. trans' = [trans EXCEPT ![i] = [trans[i] EXCEPT !.old = TRUE]]
    BY <1>6 DEF Expire
  <2>3. trans' \in Seq(ItemSet)
    BY <2>1, <2>2, ExceptItem DEF Types, ListTypes
  <2>4. FlagTypes'
    BY <1>6 DEF Expire, Types, FlagTypes, fsm
  <2>5. UNCHANGED <<slots, drvq, acking, evq, history>>
    BY <1>6 DEF Expire, fsm
  <2> QED
    BY <2>3, <2>4, <2>5 DEF Types, ClientTypes, NodeTypes, CountType, QueueTypes, ListTypes, HistoryTypes, slots, history
<1>7. ASSUME NEW n \in Nodes, NEW e \in {"CONNECT", "RECV_DATA", "SEND_DATA", "ERROR"}, HandleGone(e, n) PROVE Types'
  <2>1. Tail(drvq) \in Seq(EventSet)
    BY <1>7, QueueIs DEF HandleGone, Handle, Types
  <2> QED
    BY <1>7, <2>1 DEF HandleGone, Types, ClientTypes, NodeTypes, CountType, QueueTypes, ListTypes, FlagTypes, HistoryTypes, slots, fsm, control, history
<1>8. ASSUME NEW n \in Nodes, OnConnect(n) PROVE Types'
  <2>1. Tail(drvq) \in Seq(EventSet)
    BY <1>8, QueueIs DEF OnConnect, Handle, Types
  <2>2. node[n].conn \in Conns /\ node[n] \in NodeOf(node[n].conn)
    BY <1>8, SlotIs DEF OnConnect, Types
  <2>3. [node[n] EXCEPT !.state = "CONNECTED"] \in NodeSet
    <3>1. [node[n] EXCEPT !.state = "CONNECTED"] \in NodeOf(node[n].conn)
      BY <2>2 DEF NodeOf
    <3> QED
      BY <2>2, <3>1, NodeIs
  <2>4. NodeTypes'
    BY <1>8, <2>3 DEF OnConnect, Types, NodeTypes
  <2>5. CountType'
    <3>1. connCount \in Nat /\ connCount <= MaxNodes /\ MaxNodes \in Nat
      BY TcpSlaveAssumption DEF Types, CountType
    <3>2. (IF connCount < MaxNodes THEN connCount + 1 ELSE connCount) \in 0..MaxNodes
      BY <3>1
    <3> QED
      BY <1>8, <3>2 DEF OnConnect, CountType
  <2> QED
    BY <1>8, <2>1, <2>4, <2>5
    DEF OnConnect, Types, ClientTypes, QueueTypes, ListTypes, FlagTypes, HistoryTypes, fsm, control,
        history
<1>9. ASSUME NEW n \in Nodes, RecvStart(n) \/ RecvPostpone(n) \/ RecvOngoing(n) PROVE Types'
  <2>1. RecvBegin(n)
    BY <1>9 DEF RecvStart, RecvPostpone, RecvOngoing
  <2>2. /\ NodeTypes' /\ drvq # <<>>
        /\ Enqueued(n) \in Seq(ItemSet) /\ DeleteExpired(Enqueued(n)) \in Seq(ItemSet)
        /\ Enqueued(n) # <<>> => Head(Enqueued(n)) \in ItemSet
    BY <2>1, RecvIs
  <2>3. /\ Tail(drvq) \in Seq(EventSet)
        /\ Append(Tail(drvq), Event("RECV_DATA", n)) \in Seq(EventSet)
        /\ Append(evq, "RECEIVED") \in Seq(PollEvents)
    BY <2>2, EventIs, QueueIs DEF Types, PollEvents
  <2>4. ListTypes' /\ QueueTypes'
    BY <1>9, <2>2, <2>3
    DEF RecvStart, RecvPostpone, RecvOngoing, FirstIs, Types, ListTypes, QueueTypes, fsm
  <2>5. ClientTypes' /\ CountType' /\ HistoryTypes'
    BY <1>9
    DEF RecvStart, RecvPostpone, RecvOngoing, Types, ClientTypes, CountType, HistoryTypes, history
  <2>6. FlagTypes'
    BY <1>9 DEF RecvStart, RecvPostpone, RecvOngoing, Types, FlagTypes, fsm, control
  <2> QED
    BY <2>2, <2>4, <2>5, <2>6 DEF Types
<1>10. ASSUME RecvAcknowledge PROVE Types'
  <2>1. trans' \in Seq(ItemSet)
    BY <1>10, ItemSetIs DEF RecvAcknowledge, Types, ListTypes, States
  <2> QED
    BY <1>10, <2>1 DEF RecvAcknowledge, Types, ClientTypes, NodeTypes, CountType, QueueTypes, ListTypes, FlagTypes, HistoryTypes, slots, fsm, control, history
<1>11. ASSUME NEW n \in Nodes, SendWrite(n) \/ SendLate(n) PROVE Types'
  <2>1. SendBegin(n)
    BY <1>11 DEF SendWrite, SendLate
  <2>2. /\ drvq # <<>> /\ Up(n) /\ node[n].tx # <<>>
        /\ node' = [node EXCEPT ![n] = [node[n] EXCEPT !.tx = Tail(@)]]
    BY <2>1 DEF SendBegin, Handle
  <2>3. node[n].conn \in Conns /\ node[n] \in NodeOf(node[n].conn)
    BY <2>2, SlotIs DEF Types
  <2>4. /\ Tail(node[n].tx) \in Seq(Frames) /\ Head(node[n].tx) \in Frames
    BY <2>2, <2>3, TailIs DEF NodeOf
  <2>5. NodeTypes'
    <3>1. [node[n] EXCEPT !.tx = Tail(@)] \in NodeOf(node[n].conn)
      BY <2>3, <2>4 DEF NodeOf
    <3>2. [node[n] EXCEPT !.tx = Tail(@)] \in NodeSet
      BY <2>3, <3>1, NodeIs
    <3> QED
      BY <2>2, <3>2 DEF Types, NodeTypes
  <2>6. Tail(drvq) \in Seq(EventSet) /\ Append(Tail(drvq), Event("ERROR", n)) \in Seq(EventSet)
    BY <2>2, EventIs, QueueIs DEF Types
  <2>7. trans' \in Seq(ItemSet)
    <3>1. CASE SendWrite(n)
      BY <3>1, AnsweredIs DEF SendWrite, Current, Types, ListTypes
    <3>2. CASE SendLate(n)
      BY <3>2, DeletesLeft DEF SendLate, Types, ListTypes
    <3> QED
      BY <1>11, <3>1, <3>2
  <2>8. sent' \in [Conns -> Seq(Frames)]
    <3>1. sent[node[n].conn] \in Seq(Frames)
      BY <2>3 DEF Types, HistoryTypes
    <3>2. Append(sent[node[n].conn], Head(node[n].tx)) \in Seq(Frames)
      BY <2>4, <3>1
    <3> QED
      BY <1>11, <2>3, <3>2 DEF SendWrite, SendLate, Types, HistoryTypes, history
  <2>9. drvq' \in Seq(EventSet)
    BY <1>11, <2>6 DEF SendWrite, SendLate
  <2>10. UNCHANGED <<client, connCount, acking, fsm, user, listening, orphaned, calm, ran>>
    BY <1>11 DEF SendWrite, SendLate, control, history
  <2> QED
    BY <2>5, <2>7, <2>8, <2>9, <2>10
    DEF Types, ClientTypes, CountType, QueueTypes, ListTypes, FlagTypes, HistoryTypes, fsm
<1>12. ASSUME NEW n \in Nodes, SendNothing(n) PROVE Types'
  <2>1. Tail(drvq) \in Seq(EventSet)
    BY <1>12, QueueIs DEF SendNothing, Handle, Types
  <2> QED
    BY <1>12, <2>1 DEF SendNothing, Types, ClientTypes, NodeTypes, CountType, QueueTypes, ListTypes, FlagTypes, HistoryTypes, slots, fsm, control, history
<1>13. ASSUME NEW n \in Nodes, OnError(n) \/ OnTimeout(n) PROVE Types'
  <2>1. CASE \E m \in Nodes : Connected(m) /\ Drop(m)
    <3>1. ClientTypes' /\ NodeTypes' /\ CountType' /\ trans' \in Seq(ItemSet)
      BY <2>1, DropIs
    <3>2. drvq' \in Seq(EventSet)
      BY <1>13, QueueIs DEF OnError, OnTimeout, Handle, Types, QueueTypes
    <3>3. calm' \in BOOLEAN
      BY <2>1 DEF Drop, Interrupts
    <3> QED
      BY <1>13, <3>1, <3>2, <3>3
      DEF OnError, OnTimeout, Types, QueueTypes, ListTypes, FlagTypes, HistoryTypes, fsm, history
  <2>2. CASE OnError(n) /\ UNCHANGED <<slots, trans, faults, calm>>
    <3>1. drvq' \in Seq(EventSet)
      BY <2>2, QueueIs DEF OnError, Handle, Types
    <3> QED
      BY <2>2, <3>1 DEF OnError, Types, ClientTypes, NodeTypes, CountType, QueueTypes, ListTypes, FlagTypes, HistoryTypes, slots, fsm, control, history
  <2> QED
    BY <1>13, <2>1, <2>2 DEF OnError, OnTimeout, CheckedFrom
<1>14. ASSUME OnReady PROVE Types'
  <2>1. All \in Nodes \union {All} /\ drvq # <<>>
    BY <1>14 DEF OnReady, Handle
  <2>2. /\ Tail(drvq) \in Seq(EventSet)
        /\ \A e \in {"READY", "CLOSE"} : Append(Tail(drvq), Event(e, All)) \in Seq(EventSet)
        /\ Append(evq, "READY") \in Seq(PollEvents)
    BY <2>1, EventIs, QueueIs DEF Types, PollEvents
  <2>3. QueueTypes'
    BY <1>14, <2>2 DEF OnReady, Types, QueueTypes
  <2>4. FlagTypes'
    BY <1>14 DEF OnReady, Types, FlagTypes
  <2> QED
    BY <1>14, <2>3, <2>4
    DEF OnReady, Types, ClientTypes, NodeTypes, CountType, ListTypes, HistoryTypes, slots, history
<1>15. ASSUME OnClose PROVE Types'
  <2>1. ClientTypes'
    BY <1>15, EndedIs DEF OnClose, Types, ClientTypes
  <2>2. NodeTypes'
    BY <1>15 DEF OnClose, NodeTypes
  <2>3. CountType'
    BY <1>15, CountIs DEF OnClose, Types, CountType
  <2>4. QueueTypes'
    BY <1>15, QueueIs DEF OnClose, Handle, Types, QueueTypes, fsm
  <2> QED
    BY <1>15, <2>1, <2>2, <2>3, <2>4
    DEF OnClose, Types, ListTypes, FlagTypes, HistoryTypes, fsm, history
<1>16. ASSUME PollReady PROVE Types'
  <2>1. Tail(evq) \in Seq(PollEvents)
    BY <1>16, QueueIs DEF PollReady, PollGets, Types
  <2> QED
    BY <1>16, <2>1 DEF PollReady, Types, ClientTypes, NodeTypes, CountType, QueueTypes, ListTypes, FlagTypes, HistoryTypes, slots, fsm, control, history
<1>17. ASSUME PollReceive PROVE Types'
  <2>1. 1 \in DOMAIN trans /\ trans[1] \in ItemSet /\ Head(trans) = trans[1]
    BY <1>17, ListIs DEF PollReceive, Readable, FirstIs, Types
  <2>2. [trans[1] EXCEPT !.state = "CONFIRMED"] \in ItemSet /\ Head(trans).frame \in Frames
    BY <2>1 DEF ItemSet, States
  <2>3. trans' = [trans EXCEPT ![1] = [trans[1] EXCEPT !.state = "CONFIRMED"]]
    BY <1>17 DEF PollReceive
  <2>4. trans' \in Seq(ItemSet)
    BY <2>1, <2>2, <2>3, ExceptItem DEF Types, ListTypes
  <2>5. Tail(evq) \in Seq(PollEvents) /\ Append(Tail(evq), "EXECUTE") \in Seq(PollEvents)
    BY <1>17, QueueIs DEF PollReceive, PollGets, Types, PollEvents
  <2>6. evq' \in Seq(PollEvents)
    BY <1>17, <2>5 DEF PollReceive
  <2> QED
    BY <1>17, <2>2, <2>4, <2>6 DEF PollReceive, Types, ClientTypes, NodeTypes, CountType, QueueTypes, ListTypes, FlagTypes, HistoryTypes, slots, fsm, control, history
<1>18. ASSUME PollNoReceive PROVE Types'
  <2>1. trans' \in Seq(ItemSet)
    BY <1>18, DeletesLeft DEF PollNoReceive, Types, ListTypes
  <2>2. Append(Tail(evq), "ERROR") \in Seq(PollEvents)
    BY <1>18, QueueIs DEF PollNoReceive, PollGets, Types, PollEvents
  <2> QED
    BY <1>18, <2>1, <2>2 DEF PollNoReceive, Types, ClientTypes, NodeTypes, CountType, QueueTypes, ListTypes, FlagTypes, HistoryTypes, slots, fsm, control, history
<1>19. ASSUME PollExecute PROVE Types'
  <2>1. Tail(evq) \in Seq(PollEvents)
    BY <1>19, QueueIs DEF PollExecute, PollGets, Types
  <2>2. ran' \in [Conns -> Seq(Nat)]
    <3>1. ran' = [ran EXCEPT ![buf.conn] = Append(@, buf.tid)]
      BY <1>19 DEF PollExecute
    <3>2. CASE buf = NoFrame
      <4>1. ran' \in [Conns -> Seq(Nat)]
        <5>1. buf.conn \notin Conns /\ ran \in [Conns -> Seq(Nat)]
          BY <3>2, FrameIs DEF Types, HistoryTypes
        <5>2. \A f, x, y : x \notin Conns /\ f \in [Conns -> Seq(Nat)] => [f EXCEPT ![x] = y] = f
          OBVIOUS
        <5> QED
          BY <3>1, <5>1, <5>2
      <4> QED
        BY <4>1
    <3>3. CASE buf \in Frames
      <4>1. buf.conn \in Conns /\ buf.tid \in Nat
        BY <3>3, FrameIs
      <4>2. Append(ran[buf.conn], buf.tid) \in Seq(Nat)
        BY <4>1 DEF Types, HistoryTypes
      <4> QED
        BY <3>1, <4>1, <4>2 DEF Types, HistoryTypes
    <3> QED
      BY <3>2, <3>3 DEF Types, FlagTypes
  <2> QED
    BY <1>19, <2>1, <2>2 DEF PollExecute, Types, ClientTypes, NodeTypes, CountType, QueueTypes, ListTypes, FlagTypes, HistoryTypes, slots, fsm, control, history
<1>20. ASSUME PollSend PROVE Types'
  <2> DEFINE n == Head(trans).node
  <2>1. /\ 1 \in DOMAIN trans /\ trans[1] \in ItemSet /\ Head(trans) = trans[1]
        /\ Up(n)
    BY <1>20, ListIs DEF PollSend, Sendable, FirstIs, Types
  <2>2. n \in Nodes
    BY <2>1 DEF ItemSet
  <2>3. [trans[1] EXCEPT !.state = "REPLIED"] \in ItemSet
    BY <2>1 DEF ItemSet, States
  <2>4. trans' = [trans EXCEPT ![1] = [trans[1] EXCEPT !.state = "REPLIED"]]
    BY <1>20 DEF PollSend
  <2>5. trans' \in Seq(ItemSet)
    BY <2>1, <2>3, <2>4, ExceptItem DEF Types, ListTypes
  <2>6. NodeTypes' /\ drvq' \in Seq(EventSet)
    <3>1. CASE Connected(n)
      <4>1. /\ node' = [node EXCEPT ![n] = [node[n] EXCEPT !.tx = Append(@, buf)]]
            /\ drvq' = Append(drvq, Event("SEND_DATA", n))
        BY <1>20, <3>1 DEF PollSend
      <4>2. node[n].conn \in Conns /\ node[n] \in NodeOf(node[n].conn)
        BY <2>1, <2>2, SlotIs DEF Types
      <4>3. buf \in Frames
        <5>1. Head(trans).frame \in Frames /\ Head(trans).frame.tid = buf.tid
          BY <1>20, <2>1 DEF PollSend, Sendable, ItemSet
        <5>2. buf.tid # 0
          BY <5>1, FrameIs
        <5> QED
          BY <5>2 DEF Types, FlagTypes, NoFrame
      <4>4. [node[n] EXCEPT !.tx = Append(@, buf)] \in NodeSet
        <5>1. Append(node[n].tx, buf) \in Seq(Frames)
          BY <4>2, <4>3 DEF NodeOf
        <5>2. [node[n] EXCEPT !.tx = Append(@, buf)] \in NodeOf(node[n].conn)
          BY <4>2, <5>1 DEF NodeOf
        <5> QED
          BY <4>2, <5>2, NodeIs
      <4>5. NodeTypes'
        <5> HIDE DEF n
        <5> QED
          BY <2>2, <4>1, <4>4 DEF Types, NodeTypes
      <4>6. drvq' \in Seq(EventSet)
        BY <2>2, <4>1, EventIs, QueueIs DEF Types
      <4> QED
        BY <4>5, <4>6
    <3>2. CASE ~Connected(n)
      BY <1>20, <3>2 DEF PollSend, Types, NodeTypes, QueueTypes
    <3> QED
      BY <3>1, <3>2
  <2> HIDE DEF n
  <2> QED
    BY <1>20, <2>5, <2>6
    DEF PollSend, Types, ClientTypes, CountType, QueueTypes, ListTypes, FlagTypes, HistoryTypes,
        control, history
<1>21. ASSUME PollNoSend PROVE Types'
  <2>1. trans' \in Seq(ItemSet)
    BY <1>21, ListIs DEF PollNoSend, FirstIs, Types, ListTypes
  <2>2. Append(evq, "ERROR") \in Seq(PollEvents)
    BY QueueIs DEF Types, PollEvents
  <2> QED
    BY <1>21, <2>1, <2>2 DEF PollNoSend, Types, ClientTypes, NodeTypes, CountType, QueueTypes, ListTypes, FlagTypes, HistoryTypes, slots, fsm, control, history
<1>22. ASSUME PollPostSent PROVE Types'
  <2>1. Append(evq, "SENT") \in Seq(PollEvents)
    BY QueueIs DEF Types, PollEvents
  <2> QED
    BY <1>22, <2>1 DEF PollPostSent, Types, ClientTypes, NodeTypes, CountType, QueueTypes, ListTypes, FlagTypes, HistoryTypes, slots, fsm, control, history
<1>23. ASSUME PollSent PROVE Types'
  <2>1. Tail(evq) \in Seq(PollEvents)
    BY <1>23, QueueIs DEF PollSent, PollGets, Types
  <2>2. Append(Tail(evq), "ERROR") \in Seq(PollEvents)
    BY <1>23, QueueIs DEF PollSent, PollGets, Types, PollEvents
  <2>3. evq' \in Seq(PollEvents)
    BY <1>23, <2>1, <2>2 DEF PollSent
  <2>4. FlagTypes'
    BY <1>23 DEF PollSent, Types, FlagTypes, control
  <2>5. UNCHANGED <<slots, drvq, acking, trans, history>>
    BY <1>23 DEF PollSent
  <2> QED
    BY <2>3, <2>4, <2>5 DEF Types, ClientTypes, NodeTypes, CountType, QueueTypes, ListTypes, HistoryTypes, slots, history
<1>24. ASSUME PollError PROVE Types'
  <2>1. Tail(evq) \in Seq(PollEvents)
    BY <1>24, QueueIs DEF PollError, PollGets, Types
  <2> QED
    BY <1>24, <2>1 DEF PollError, Types, ClientTypes, NodeTypes, CountType, QueueTypes, ListTypes, FlagTypes, HistoryTypes, slots, fsm, control, history
<1>25. ASSUME TimerExpires PROVE Types'
  <2>1. Append(evq, "READY") \in Seq(PollEvents)
    BY QueueIs DEF Types, PollEvents
  <2> QED
    BY <1>25, <2>1 DEF TimerExpires, Types, ClientTypes, NodeTypes, CountType, QueueTypes, ListTypes, FlagTypes, HistoryTypes, slots, fsm, control, history
<1>26. ASSUME Start PROVE Types'
  <2>1. Append(drvq, Event("READY", All)) \in Seq(EventSet)
    BY EventIs, QueueIs DEF Types
  <2>2. Append(evq, "READY") \in Seq(PollEvents)
    BY QueueIs DEF Types, PollEvents
  <2> QED
    BY <1>26, <2>1, <2>2 DEF Start, Types, ClientTypes, NodeTypes, CountType, QueueTypes, ListTypes, FlagTypes, HistoryTypes, slots, fsm, control, history
<1>27. ASSUME Stop PROVE Types'
  <2>1. Append(drvq, Event("CLOSE", All)) \in Seq(EventSet)
    BY EventIs, QueueIs DEF Types
  <2> QED
    BY <1>27, <2>1 DEF Stop, Fault, Types, ClientTypes, NodeTypes, CountType, QueueTypes, ListTypes, FlagTypes, HistoryTypes, slots, fsm, control, history
<1>28. ASSUME Stopped \/ UNCHANGED vars PROVE Types'
  <2>1. FlagTypes'
    BY <1>28 DEF Stopped, vars, Types, FlagTypes
  <2>2. UNCHANGED <<slots, drvq, acking, trans, evq, history>>
    BY <1>28 DEF Stopped, vars, slots, history
  <2> QED
    BY <2>1, <2>2 DEF Types, ClientTypes, NodeTypes, CountType, QueueTypes, ListTypes, FlagTypes, HistoryTypes, slots, fsm, control, history
<1> QED
  BY <1>1, <1>2, <1>3, <1>4, <1>5, <1>6, <1>7, <1>8, <1>9, <1>10, <1>11, <1>12, <1>13, <1>14, <1>15, <1>16, <1>17, <1>18, <1>19, <1>20, <1>21, <1>22, <1>23, <1>24, <1>25, <1>26, <1>27, <1>28 DEF Next, Clients, Driver, Idle, Poll

\* The variables keep their types, for any number of clients, slots, requests and
\* faults; the count of connections, which is taken back where a connection ends, stays
\* within the slots there are.
THEOREM TypeCorrect == Spec => []TypeOK
<1>1. Types => TypeOK
  <2> SUFFICES ASSUME Types PROVE TypeOK
    OBVIOUS
  <2>1. \A n \in Nodes : Up(n) => node[n] \in NodeSet
    BY SlotIs DEF Types
  <2>2. \A i \in DOMAIN trans : trans[i] \in ItemSet
    BY ListIs DEF Types
  <2>3. \A i \in DOMAIN drvq : drvq[i] \in EventSet
    BY DEF Types, QueueTypes
  <2>4. \A i \in DOMAIN evq : evq[i] \in PollEvents
    BY DEF Types, QueueTypes
  <2>5. \A n \in Nodes : Up(n) =>
          /\ node[n].conn \in Conns /\ node[n].state \in {"OPENED", "CONNECTED"}
          /\ \A i \in DOMAIN node[n].rx : node[n].rx[i] \in Frames
          /\ \A i \in DOMAIN node[n].tx : node[n].tx[i] \in Frames
          /\ node[n].tid \in 0..Asks[node[n].conn]
    BY <2>1, NodeIs
  <2>6. \A i \in DOMAIN trans : /\ trans[i].frame \in Frames /\ trans[i].node \in Nodes
                                /\ trans[i].state \in States
    BY <2>2 DEF ItemSet
  <2>7. \A i \in DOMAIN drvq : drvq[i].node \in Nodes \union {All}
    BY <2>3 DEF EventSet
  <2> QED
    BY <2>4, <2>5, <2>6, <2>7 DEF Types, TypeOK, ClientTypes, CountType, FlagTypes, PollEvents
<1>2. Spec => []Types
  BY InitTypes, TypesNext, PTL DEF Spec
<1> QED
  BY <1>1, <1>2, PTL

-------------------------------------------------------------------------------
(* Requests wait in their order.                                           *)

\* p has items of q only, in the same order, if in other states.
ThinAt(p, q, g) == /\ g \in [DOMAIN p -> DOMAIN q]
                   /\ \A m \in DOMAIN p : p[m].frame = q[g[m]].frame /\ p[m].node = q[g[m]].node
                   /\ \A m, n \in DOMAIN p : m < n => g[m] < g[n]

Thin(p, q) == \E g : ThinAt(p, q, g)

\* Of a list, the slots nd and the clients cl: a client has one slot at most; its requests
\* are in the list in the order it sent them, and behind them those that wait in its slot.
Ordered(list) == \A i, j \in DOMAIN list :
    i < j /\ list[i].frame.conn = list[j].frame.conn => list[i].frame.tid < list[j].frame.tid
Apart(nd) == \A n, m \in Nodes :
    nd[n] # NoNode /\ nd[m] # NoNode /\ nd[n].conn = nd[m].conn => n = m
RxOrdered(nd) == \A n \in Nodes : nd[n] # NoNode =>
    \A i, j \in DOMAIN nd[n].rx : i < j => nd[n].rx[i].tid < nd[n].rx[j].tid
Behind(list, nd) == \A n \in Nodes : nd[n] # NoNode =>
    \A i \in DOMAIN nd[n].rx, j \in DOMAIN list :
       list[j].frame.conn = nd[n].conn => list[j].frame.tid < nd[n].rx[i].tid
Asked(list, nd, cl) ==
    /\ \A i \in DOMAIN list : list[i].frame.tid =< cl[list[i].frame.conn].asked
    /\ \A n \in Nodes : nd[n] # NoNode =>
          /\ cl[nd[n].conn].state # "none"
          /\ \A i \in DOMAIN nd[n].rx : nd[n].rx[i].tid =< cl[nd[n].conn].asked
InOrder(list, nd, cl) == /\ Ordered(list) /\ Apart(nd) /\ RxOrdered(nd)
                         /\ Behind(list, nd) /\ Asked(list, nd, cl)

LEMMA LeftThin ==
  ASSUME NEW p, NEW q, Left(p, q)
  PROVE  Thin(p, q)
BY DEF Left, LeftAt, Thin, ThinAt

LEMMA ThinSame ==
  ASSUME NEW p \in Seq(ItemSet), NEW q \in Seq(ItemSet), DOMAIN p = DOMAIN q,
         \A i \in DOMAIN q : p[i].frame = q[i].frame /\ p[i].node = q[i].node
  PROVE  Thin(p, q)
<1> DEFINE g == [m \in DOMAIN q |-> m]
<1>1. ThinAt(p, q, g)
  BY DEF ThinAt
<1> QED
  BY <1>1 DEF Thin

LEMMA ThinInOrder ==
  ASSUME NEW p, NEW q, NEW nd, NEW cl, Thin(p, q), InOrder(q, nd, cl)
  PROVE  InOrder(p, nd, cl)
<1>1. PICK g : ThinAt(p, q, g)
  BY DEF Thin
<1>2. \A m \in DOMAIN p : g[m] \in DOMAIN q /\ p[m].frame = q[g[m]].frame
  BY <1>1 DEF ThinAt
<1>3. \A m, n \in DOMAIN p : m < n => g[m] < g[n]
  BY <1>1 DEF ThinAt
<1>4. Ordered(p)
  BY <1>2, <1>3 DEF InOrder, Ordered
<1>5. Behind(p, nd)
  BY <1>2 DEF InOrder, Behind
<1>6. Asked(p, nd, cl)
  BY <1>2 DEF InOrder, Asked
<1> QED
  BY <1>4, <1>5, <1>6 DEF InOrder

\* Clients and slots that are left.
Steady(cl, cl2) == \A k \in Conns : /\ cl2[k].asked = cl[k].asked
                                    /\ cl[k].state # "none" => cl2[k].state # "none"
Fewer(nd, nd2) == \A n \in Nodes :
    \/ nd2[n] = NoNode
    \/ nd[n] # NoNode /\ nd2[n].conn = nd[n].conn /\ nd2[n].rx = nd[n].rx

LEMMA ItemIs ==
  \A e \in ItemSet : /\ e.frame \in Frames /\ e.frame.conn \in Conns /\ e.frame.tid \in Nat
                     /\ e.node \in Nodes /\ e.state \in States
BY FrameIs DEF ItemSet

LEMMA FewerInOrder ==
  ASSUME NEW q \in Seq(ItemSet), NEW nd \in [Nodes -> NodeSet \union {NoNode}], NEW cl,
         NEW nd2, NEW cl2, Steady(cl, cl2), Fewer(nd, nd2), InOrder(q, nd, cl)
  PROVE  InOrder(q, nd2, cl2)
<1>1. Apart(nd2) /\ RxOrdered(nd2) /\ Behind(q, nd2)
  BY DEF InOrder, Apart, RxOrdered, Behind, Fewer
<1>2. \A i \in DOMAIN q : q[i].frame.conn \in Conns
  <2>1. \A i \in DOMAIN q : q[i] \in ItemSet
    OBVIOUS
  <2> QED
    BY <2>1, ItemIs
<1>3. \A n \in Nodes : nd[n] # NoNode => nd[n].conn \in Conns
  BY NodeIs
<1>4. Asked(q, nd2, cl2)
  BY <1>2, <1>3 DEF InOrder, Asked, Fewer, Steady
<1> QED
  BY <1>1, <1>4 DEF InOrder

\* A new connection.
LEMMA AcceptInOrder ==
  ASSUME Types, InOrder(trans, node, client), NEW k \in Conns, Accept(k)
  PROVE  InOrder(trans', node', client')
<1>1. PICK n \in Nodes : ~Up(n) /\ node' = [node EXCEPT ![n] = Opened(k)]
  BY DEF Accept
<1>2. /\ Steady(client, client') /\ client[k].state = "none" /\ client'[k].state = "up"
      /\ trans' = trans
  BY DEF Accept, Arrives, Types, ClientTypes, Steady
<1>4. InOrder(trans, node, client')
  <2>1. Fewer(node, node)
    BY DEF Fewer
  <2> QED
    BY <1>2, <2>1, FewerInOrder DEF Types, ListTypes, NodeTypes
<1>5. /\ \A m \in Nodes : m # n => node'[m] = node[m]
      /\ node'[n].conn = k /\ node'[n].rx = <<>>
  BY <1>1 DEF Types, NodeTypes, Opened
<1>6. \A m \in Nodes : node[m] # NoNode => node[m].conn # k
  BY <1>2 DEF InOrder, Asked
<1>7. DOMAIN <<>> = {}
  OBVIOUS
<1>8. Apart(node')
  BY <1>4, <1>5, <1>6 DEF InOrder, Apart
<1>9. RxOrdered(node') /\ Behind(trans, node')
  BY <1>4, <1>5, <1>7 DEF InOrder, RxOrdered, Behind
<1>10. Asked(trans, node', client')
  BY <1>2, <1>4, <1>5, <1>7 DEF InOrder, Asked
<1> QED
  BY <1>2, <1>4, <1>8, <1>9, <1>10 DEF InOrder

\* The next request of a client.
LEMMA ReadInOrder ==
  ASSUME Types, InOrder(trans, node, client), NEW n \in Nodes, Read(n)
  PROVE  InOrder(trans', node', client')
<1> DEFINE k == node[n].conn
           f == [conn |-> k, tid |-> client[k].asked + 1]
<1>1. /\ Up(n) /\ trans' = trans
      /\ client' = [client EXCEPT ![k].asked = f.tid]
      /\ node' = [node EXCEPT ![n].rx = Append(@, f)]
      /\ f.tid =< Asks[k]
  BY DEF Read, Connected
<1>2. k \in Conns /\ node[n] \in NodeSet /\ node[n] # NoNode
  BY <1>1, SlotIs, NodeIs DEF Types
<1>3. client[k].asked \in Nat
  BY <1>2 DEF Types, ClientTypes
<1>4. f \in FramesOf(k) /\ f.conn = k /\ f.tid \in Nat /\ client[k].asked < f.tid
  <2>1. f.tid = client[k].asked + 1
    OBVIOUS
  <2>2. Asks[k] \in Nat
    BY <1>2, FrameIs
  <2>3. f.tid \in Nat /\ f.tid \in 1..Asks[k] /\ client[k].asked < f.tid
    BY <1>1, <1>3, <2>1, <2>2
  <2>4. f.conn = k /\ f \in [conn : {k}, tid : 1..Asks[k]]
    BY <1>2, <2>3
  <2> QED
    BY <2>3, <2>4 DEF FramesOf
<1>5. /\ \A j \in Conns : j # k => client'[j] = client[j]
      /\ client'[k].asked = f.tid /\ client'[k].state = client[k].state
  <2> HIDE DEF f
  <2> QED
    BY <1>1, <1>2 DEF Types, ClientTypes
<1>6. /\ \A m \in Nodes : m # n => node'[m] = node[m]
      /\ node'[n].conn = k /\ node'[n].rx = Append(node[n].rx, f)
      /\ node'[n] # NoNode
  <2>1. node[n] \in NodeOf(k)
    BY <1>2, NodeIs
  <2>2. node' = [node EXCEPT ![n] = [node[n] EXCEPT !.rx = Append(@, f)]]
    BY <1>1
  <2> HIDE DEF f
  <2>3. /\ \A m \in Nodes : m # n => node'[m] = node[m]
        /\ node'[n] = [node[n] EXCEPT !.rx = Append(@, f)]
    BY <2>2 DEF Types, NodeTypes
  <2>4. node'[n].conn = k /\ node'[n].rx = Append(node[n].rx, f)
    BY <2>1, <2>3 DEF NodeOf
  <2>5. k # 0
    BY <1>2, FrameIs
  <2> QED
    BY <2>3, <2>4, <2>5 DEF NoNode
<1> DEFINE rx == node[n].rx
<1>7. /\ rx \in Seq(Frames) /\ f \in Frames
      /\ \A i \in DOMAIN rx : rx[i].tid \in Nat
  <2>1. rx \in Seq(Frames) /\ f \in Frames /\ \A i \in DOMAIN rx : rx[i] \in Frames
    BY <1>2, <1>4, NodeIs, FrameIs
  <2> HIDE DEF rx, f
  <2> QED
    BY <2>1, FrameIs
<1>8. /\ DOMAIN rx = 1..Len(rx) /\ Len(rx) \in Nat
      /\ \A i \in DOMAIN rx : Append(rx, f)[i] = rx[i] /\ i # Len(rx) + 1
      /\ Append(rx, f)[Len(rx) + 1] = f
      /\ \A i \in DOMAIN Append(rx, f) : i \in DOMAIN rx \/ i = Len(rx) + 1
  <2> HIDE DEF rx, f
  <2> QED
    BY <1>7, AppendIs
<1>9. \A i \in DOMAIN rx : rx[i].tid < f.tid
  <2>1. \A i \in DOMAIN rx : rx[i].tid =< client[k].asked
    BY <1>2 DEF InOrder, Asked
  <2> HIDE DEF rx, f, k
  <2> QED
    BY <2>1, <1>3, <1>4, <1>7
<1>10. \A j \in DOMAIN trans : /\ trans[j] \in ItemSet /\ trans[j].frame.conn \in Conns
                               /\ trans[j].frame.tid \in Nat
  <2>1. \A j \in DOMAIN trans : trans[j] \in ItemSet
    BY ListIs DEF Types
  <2> QED
    BY <2>1, ItemIs
<1>11. \A j \in DOMAIN trans : trans[j].frame.conn = k => trans[j].frame.tid < f.tid
  <2>1. \A j \in DOMAIN trans : trans[j].frame.conn = k => trans[j].frame.tid =< client[k].asked
    BY DEF InOrder, Asked
  <2> HIDE DEF f, k
  <2> QED
    BY <2>1, <1>3, <1>4, <1>10
<1>12. \A i \in DOMAIN trans : trans[i].frame.tid =< client'[trans[i].frame.conn].asked
  <2>1. \A i \in DOMAIN trans : trans[i].frame.conn = k => trans[i].frame.tid =< f.tid
    <3> HIDE DEF f, k
    <3> QED
      BY <1>4, <1>10, <1>11
  <2>2. \A i \in DOMAIN trans : trans[i].frame.conn # k =>
           trans[i].frame.tid =< client'[trans[i].frame.conn].asked
    <3> HIDE DEF f, k
    <3> QED
      BY <1>5, <1>10 DEF InOrder, Asked
  <2> HIDE DEF f, k
  <2> QED
    BY <2>1, <2>2, <1>5
<1>13. f.tid =< f.tid /\ \A i \in DOMAIN rx : rx[i].tid =< f.tid
  <2> HIDE DEF f, rx
  <2> QED
    BY <1>4, <1>7, <1>9
<1>14. \A i, j \in DOMAIN Append(rx, f) : i < j => Append(rx, f)[i].tid < Append(rx, f)[j].tid
  <2>1. \A i, j \in DOMAIN rx : i < j => rx[i].tid < rx[j].tid
    BY <1>2 DEF InOrder, RxOrdered
  <2>2. \A i \in DOMAIN rx : ~(Len(rx) + 1 < i)
    <3> HIDE DEF rx
    <3> QED
      BY <1>8
  <2>3. ~(Len(rx) + 1 < Len(rx) + 1)
    <3> HIDE DEF rx
    <3> QED
      BY <1>8
  <2> HIDE DEF rx, f
  <2> QED
    BY <1>8, <1>9, <2>1, <2>2, <2>3
<1>15. \A m \in Nodes : m # n /\ node[m] # NoNode => node[m].conn # k /\ node[m].conn \in Conns
  <2>1. \A m \in Nodes : node[m] # NoNode => node[m].conn \in Conns
    BY NodeIs DEF Types, NodeTypes
  <2> QED
    BY <1>2, <2>1 DEF InOrder, Apart
<1> HIDE DEF k, f, rx
<1>16. Apart(node')
  BY <1>2, <1>6, <1>15 DEF InOrder, Apart
<1>17. RxOrdered(node')
  BY <1>6, <1>14 DEF InOrder, RxOrdered, rx
<1>18. Behind(trans, node')
  <2> SUFFICES ASSUME NEW m \in Nodes, node'[m] # NoNode, NEW i \in DOMAIN node'[m].rx,
                      NEW j \in DOMAIN trans, trans[j].frame.conn = node'[m].conn
               PROVE  trans[j].frame.tid < node'[m].rx[i].tid
    BY DEF Behind
  <2>1. CASE m # n
    BY <1>6, <2>1 DEF InOrder, Behind
  <2>2. CASE m = n
    <3>1. i \in DOMAIN Append(rx, f) /\ node'[m].rx[i] = Append(rx, f)[i] /\ trans[j].frame.conn = k
      BY <1>6, <2>2 DEF rx
    <3>2. CASE i \in DOMAIN rx
      <4>1. trans[j].frame.tid < rx[i].tid
        BY <1>2, <3>1, <3>2 DEF InOrder, Behind, rx, k
      <4> QED
        BY <1>8, <3>1, <3>2, <4>1
    <3>3. CASE i = Len(rx) + 1
      BY <1>8, <1>11, <3>1, <3>3
    <3> QED
      BY <1>8, <3>1, <3>2, <3>3
  <2> QED
    BY <2>1, <2>2
<1>19. Asked(trans, node', client')
  <2> SUFFICES ASSUME NEW m \in Nodes, node'[m] # NoNode
               PROVE  /\ client'[node'[m].conn].state # "none"
                      /\ \A i \in DOMAIN node'[m].rx : node'[m].rx[i].tid =< client'[node'[m].conn].asked
    BY <1>12 DEF Asked
  <2>1. CASE m # n
    BY <1>5, <1>6, <1>15, <2>1 DEF InOrder, Asked
  <2>2. CASE m = n
    <3>1. client'[k].state # "none"
      BY <1>2, <1>5 DEF InOrder, Asked, k
    <3>2. \A i \in DOMAIN Append(rx, f) : Append(rx, f)[i].tid =< f.tid
      BY <1>8, <1>13
    <3> QED
      BY <1>5, <1>6, <2>2, <3>1, <3>2 DEF rx
  <2> QED
    BY <2>1, <2>2
<1> QED
  BY <1>1, <1>16, <1>17, <1>18, <1>19 DEF InOrder

\* A request goes from its slot to the list.
LEMMA PopIs ==
  ASSUME Types, NEW n \in Nodes, Up(n), node[n].rx # <<>>
  PROVE  LET f == Head(node[n].rx)
         IN  /\ Enqueued(n) \in Seq(ItemSet)
             /\ f \in Frames /\ f = node[n].rx[1] /\ 1 \in DOMAIN node[n].rx
             /\ f.conn = node[n].conn
             /\ DOMAIN trans = 1..Len(trans) /\ Len(trans) \in Nat
             /\ \A i \in DOMAIN trans : Enqueued(n)[i] = trans[i] /\ i \in DOMAIN Enqueued(n)
             /\ Len(trans) + 1 \in DOMAIN Enqueued(n)
             /\ Enqueued(n)[Len(trans) + 1] = [frame |-> f, node |-> n, state |-> "QUEUED", old |-> FALSE]
             /\ \A i \in DOMAIN Enqueued(n) : i \in DOMAIN trans \/ i = Len(trans) + 1
             /\ \A m \in Nodes : m # n => Popped(n)[m] = node[m]
             /\ Popped(n)[n].conn = node[n].conn
             /\ Popped(n)[n].rx = Tail(node[n].rx) /\ Popped(n)[n].tx = node[n].tx
             /\ Popped(n)[n].tid = f.tid /\ Popped(n)[n].state = node[n].state
             /\ \A i \in DOMAIN Tail(node[n].rx) :
                   i + 1 \in DOMAIN node[n].rx /\ 1 < i + 1 /\ Tail(node[n].rx)[i] = node[n].rx[i + 1]
<1> DEFINE f == Head(node[n].rx)
           rx == node[n].rx
           it == [frame |-> f, node |-> n, state |-> "QUEUED", old |-> FALSE]
<1>1. node[n].conn \in Conns /\ node[n] \in NodeOf(node[n].conn) /\ node[n] \in NodeSet
  BY SlotIs DEF Types
<1>2. rx \in Seq(FramesOf(node[n].conn)) /\ rx # <<>>
  BY <1>1, NodeIs
<1>3. /\ Head(rx) \in FramesOf(node[n].conn) /\ Head(rx) = rx[1] /\ 1 \in DOMAIN rx
      /\ \A i \in DOMAIN Tail(rx) : i \in DOMAIN Tail(rx) /\ i + 1 \in DOMAIN rx /\ 1 < i + 1
                                  /\ Tail(rx)[i] = rx[i + 1]
  <2> HIDE DEF rx
  <2>1. /\ Head(rx) \in FramesOf(node[n].conn) /\ Head(rx) = rx[1] /\ 1 \in DOMAIN rx
        /\ DOMAIN Tail(rx) = 1..Len(rx) - 1 /\ Len(rx) \in Nat \ {0}
        /\ \A i \in DOMAIN Tail(rx) : i + 1 \in DOMAIN rx /\ Tail(rx)[i] = rx[i + 1]
    BY <1>2, TailIs
  <2>2. \A i \in DOMAIN Tail(rx) : 1 < i + 1
    BY <2>1
  <2> QED
    BY <2>1, <2>2
<1>4. f \in Frames /\ f.conn = node[n].conn
  BY <1>1, <1>3, FrameIs
<1>5. it \in ItemSet
  BY <1>4 DEF ItemSet, States
<1>6. Enqueued(n) = Append(trans, it)
  BY DEF Enqueued, Enqueue
<1>7. /\ Append(trans, it) \in Seq(ItemSet)
      /\ DOMAIN trans = 1..Len(trans) /\ Len(trans) \in Nat
      /\ \A i \in DOMAIN trans : Append(trans, it)[i] = trans[i] /\ i \in DOMAIN Append(trans, it)
      /\ Len(trans) + 1 \in DOMAIN Append(trans, it)
      /\ Append(trans, it)[Len(trans) + 1] = it
      /\ \A i \in DOMAIN Append(trans, it) : i \in DOMAIN trans \/ i = Len(trans) + 1
  <2> HIDE DEF it
  <2> QED
    BY <1>5, AppendIs DEF Types, ListTypes
<1>8. /\ \A m \in Nodes : m # n => Popped(n)[m] = node[m]
      /\ Popped(n)[n].conn = node[n].conn
      /\ Popped(n)[n].rx = Tail(node[n].rx) /\ Popped(n)[n].tx = node[n].tx
      /\ Popped(n)[n].tid = f.tid /\ Popped(n)[n].state = node[n].state
  <2>1. Popped(n) = [node EXCEPT ![n] = [node[n] EXCEPT !.rx = Tail(node[n].rx), !.tid = f.tid]]
    BY DEF Popped, Types, NodeTypes
  <2>2. /\ \A m \in Nodes : m # n => Popped(n)[m] = node[m]
        /\ Popped(n)[n] = [node[n] EXCEPT !.rx = Tail(node[n].rx), !.tid = f.tid]
    BY <2>1 DEF Types, NodeTypes
  <2> QED
    BY <1>1, <2>2 DEF NodeOf
<1> QED
  BY <1>3, <1>4, <1>6, <1>7, <1>8

LEMMA PopInOrder ==
  ASSUME Types, InOrder(trans, node, client), NEW n \in Nodes, Up(n)
  PROVE  InOrder(Enqueued(n), Popped(n), client)
<1>1. CASE node[n].rx = <<>>
  BY <1>1 DEF Enqueued, Popped
<1>2. CASE node[n].rx # <<>>
  <2> DEFINE f == Head(node[n].rx)
             rx == node[n].rx
             q == Enqueued(n)
             nd == Popped(n)
             last == Len(trans) + 1
  <2>1. /\ f = rx[1] /\ 1 \in DOMAIN rx /\ f.conn = node[n].conn /\ f \in Frames
        /\ \A i \in DOMAIN trans : q[i] = trans[i]
        /\ q[last].frame = f
        /\ \A i \in DOMAIN q : i \in DOMAIN trans \/ i = last
        /\ \A m \in Nodes : m # n => nd[m] = node[m]
        /\ nd[n].conn = node[n].conn /\ nd[n].rx = Tail(rx)
        /\ \A i \in DOMAIN Tail(rx) : i + 1 \in DOMAIN rx /\ 1 < i + 1 /\ Tail(rx)[i] = rx[i + 1]
    <3>1. q[last] = [frame |-> f, node |-> n, state |-> "QUEUED", old |-> FALSE]
      BY <1>2, PopIs
    <3>2. q[last].frame = f
      BY <3>1
    <3>3. /\ f = rx[1] /\ 1 \in DOMAIN rx /\ f.conn = node[n].conn /\ f \in Frames
          /\ \A i \in DOMAIN trans : q[i] = trans[i]
          /\ \A i \in DOMAIN q : i \in DOMAIN trans \/ i = last
      BY <1>2, PopIs
    <3>4. /\ \A m \in Nodes : m # n => nd[m] = node[m]
          /\ nd[n].conn = node[n].conn /\ nd[n].rx = Tail(rx)
          /\ \A i \in DOMAIN Tail(rx) : i + 1 \in DOMAIN rx /\ 1 < i + 1 /\ Tail(rx)[i] = rx[i + 1]
      BY <1>2, PopIs
    <3> HIDE DEF f, rx, q, nd, last
    <3> QED
      BY <3>2, <3>3, <3>4
  <2>2. ~(last < last) /\ \A i \in DOMAIN trans : ~(last < i)
    <3>1. DOMAIN trans = 1..Len(trans) /\ Len(trans) \in Nat
      BY <1>2, PopIs
    <3> QED
      BY <3>1
  <2>3. node[n] # NoNode
    BY DEF Up
  <2> HIDE DEF f, rx, q, nd, last
  <2>4. Ordered(q)
    <3> SUFFICES ASSUME NEW i \in DOMAIN q, NEW j \in DOMAIN q, i < j,
                        q[i].frame.conn = q[j].frame.conn
                 PROVE  q[i].frame.tid < q[j].frame.tid
      BY DEF Ordered
    <3>1. CASE j = last
      <4>1. i \in DOMAIN trans
        BY <2>1, <2>2, <3>1
      <4>2. trans[i].frame.tid < rx[1].tid
        BY <2>1, <2>3, <3>1, <4>1 DEF InOrder, Behind, rx
      <4> QED
        BY <2>1, <3>1, <4>1, <4>2
    <3>2. CASE j # last
      <4>1. i \in DOMAIN trans /\ j \in DOMAIN trans
        BY <2>1, <2>2, <3>2
      <4> QED
        BY <2>1, <4>1 DEF InOrder, Ordered
    <3> QED
      BY <3>1, <3>2
  <2>5. Apart(nd)
    BY <2>1, <2>3 DEF InOrder, Apart
  <2>6. RxOrdered(nd)
    <3> SUFFICES ASSUME NEW m \in Nodes, nd[m] # NoNode, NEW i \in DOMAIN nd[m].rx,
                        NEW j \in DOMAIN nd[m].rx, i < j
                 PROVE  nd[m].rx[i].tid < nd[m].rx[j].tid
      BY DEF RxOrdered
    <3>1. CASE m # n
      BY <2>1, <3>1 DEF InOrder, RxOrdered
    <3>2. CASE m = n
      <4>1. i \in DOMAIN Tail(rx) /\ j \in DOMAIN Tail(rx)
        BY <2>1, <3>2
      <4>2. i + 1 < j + 1
        <5>1. i \in Nat /\ j \in Nat
          <6>1. rx \in Seq(Frames) /\ rx # <<>>
            BY <1>2, <2>3, SlotIs, NodeIs DEF Types, Up, rx
          <6> QED
            BY <4>1, <6>1, TailIs
        <5> QED
          BY <5>1
      <4>3. rx[i + 1].tid < rx[j + 1].tid
        BY <2>1, <2>3, <4>1, <4>2 DEF InOrder, RxOrdered, rx
      <4> QED
        BY <2>1, <3>2, <4>1, <4>3
    <3> QED
      BY <3>1, <3>2
  <2>7. Behind(q, nd)
    <3> SUFFICES ASSUME NEW m \in Nodes, nd[m] # NoNode, NEW i \in DOMAIN nd[m].rx,
                        NEW j \in DOMAIN q, q[j].frame.conn = nd[m].conn
                 PROVE  q[j].frame.tid < nd[m].rx[i].tid
      BY DEF Behind
    <3>1. CASE m # n
      <4>1. nd[m] = node[m] /\ node[m].conn # node[n].conn
        BY <2>1, <2>3, <3>1 DEF InOrder, Apart
      <4>2. j # last
        BY <2>1, <4>1
      <4> QED
        BY <2>1, <4>1, <4>2 DEF InOrder, Behind
    <3>2. CASE m = n
      <4>1. /\ i \in DOMAIN Tail(rx) /\ i + 1 \in DOMAIN rx /\ 1 < i + 1
            /\ nd[m].rx[i] = rx[i + 1] /\ q[j].frame.conn = node[n].conn
        BY <2>1, <3>2
      <4>2. CASE j = last
        <5>1. rx[1].tid < rx[i + 1].tid
          BY <2>1, <2>3, <4>1 DEF InOrder, RxOrdered, rx
        <5> QED
          BY <2>1, <4>1, <4>2, <5>1
      <4>3. CASE j \in DOMAIN trans
        BY <2>1, <2>3, <4>1, <4>3 DEF InOrder, Behind, rx
      <4> QED
        BY <2>1, <4>2, <4>3
    <3> QED
      BY <3>1, <3>2
  <2>8. Asked(q, nd, client)
    <3>1. \A i \in DOMAIN rx : rx[i].tid =< client[node[n].conn].asked
      BY <2>3 DEF InOrder, Asked, rx
    <3>2. \A i \in DOMAIN q : q[i].frame.tid =< client[q[i].frame.conn].asked
      BY <2>1, <3>1 DEF InOrder, Asked
    <3>3. \A m \in Nodes : nd[m] # NoNode => /\ client[nd[m].conn].state # "none"
                                             /\ \A i \in DOMAIN nd[m].rx : nd[m].rx[i].tid =< client[nd[m].conn].asked
      BY <2>1, <2>3, <3>1 DEF InOrder, Asked
    <3> QED
      BY <3>2, <3>3 DEF Asked
  <2> QED
    BY <2>4, <2>5, <2>6, <2>7, <2>8 DEF InOrder, q, nd
<1> QED
  BY <1>1, <1>2

\* A slot that is given up leaves nothing in the list, unless all are.
Frees == orphaned' \/ \A n \in Nodes : Up(n) /\ node'[n] = NoNode =>
                         \A i \in DOMAIN trans' : trans'[i].node # n

\* The steps, by what they do to clients, slots and list.
Thins == /\ Steady(client, client') /\ Fewer(node, node') /\ Thin(trans', trans) /\ Frees

Takes(n) == /\ RecvBegin(n) /\ Thin(trans', Enqueued(n))
            /\ UNCHANGED <<client, orphaned>>

\* One slot changes, but not its connection nor what it has read.
LEMMA SlotFewer ==
  ASSUME NodeTypes, NEW n \in Nodes, Up(n), NEW r, r.conn = node[n].conn, r.rx = node[n].rx
  PROVE  /\ Fewer(node, [node EXCEPT ![n] = r])
         /\ \A m \in Nodes : Up(m) => [node EXCEPT ![n] = r][m] # NoNode
<1> DEFINE nd == [node EXCEPT ![n] = r]
<1>1. nd[n] = r /\ \A m \in Nodes : m # n => nd[m] = node[m]
  BY DEF NodeTypes
<1>2. r.conn # 0
  BY SlotIs, FrameIs
<1> HIDE DEF nd
<1>3. Fewer(node, nd)
  <2> SUFFICES ASSUME NEW m \in Nodes
               PROVE  \/ nd[m] = NoNode
                      \/ node[m] # NoNode /\ nd[m].conn = node[m].conn /\ nd[m].rx = node[m].rx
    BY DEF Fewer
  <2> QED
    BY <1>1 DEF Up
<1>4. \A m \in Nodes : Up(m) => nd[m] # NoNode
  BY <1>1, <1>2 DEF Up, NoNode
<1> QED
  BY <1>3, <1>4 DEF nd

LEMMA SameThins ==
  ASSUME Types, Steady(client, client'), Thin(trans', trans),
         \/ UNCHANGED node
         \/ \E n \in Nodes : \E r : /\ Up(n) /\ r.conn = node[n].conn /\ r.rx = node[n].rx
                                    /\ node' = [node EXCEPT ![n] = r]
  PROVE  Thins
<1>1. CASE UNCHANGED node
  BY <1>1 DEF Thins, Fewer, Frees, Up
<1>2. ASSUME NEW n \in Nodes, NEW r, Up(n), r.conn = node[n].conn, r.rx = node[n].rx,
             node' = [node EXCEPT ![n] = r]
      PROVE  Thins
  <2>1. /\ Fewer(node, node') /\ \A m \in Nodes : Up(m) => node'[m] # NoNode
    <3> DEFINE nd == [node EXCEPT ![n] = r]
    <3>1. /\ Fewer(node, nd) /\ \A m \in Nodes : Up(m) => nd[m] # NoNode
      BY <1>2, SlotFewer DEF Types
    <3>2. node' = nd
      BY <1>2
    <3> HIDE DEF nd
    <3> QED
      BY <3>1, <3>2
  <2> QED
    BY <2>1 DEF Thins, Frees
<1> QED
  BY <1>1, <1>2

LEMMA DropThins ==
  ASSUME Types, NEW n \in Nodes, Connected(n), Drop(n)
  PROVE  Thins
<1>1. Steady(client, client')
  BY EndedIs DEF Drop, Steady, Types
<1>2. /\ node'[n] = NoNode /\ \A m \in Nodes : m # n => node'[m] = node[m]
  BY DEF Drop, Types, NodeTypes
<1>3. Fewer(node, node')
  BY <1>2 DEF Fewer
<1>4. Thin(trans', trans) /\ \A i \in DOMAIN trans' : trans'[i].node # n
  BY DeletesLeft, LeftThin DEF Drop, Types, ListTypes
<1>5. Frees
  BY <1>2, <1>4 DEF Frees, Up
<1> QED
  BY <1>1, <1>3, <1>4, <1>5 DEF Thins

LEMMA SteadySame == Steady(client, client)
BY DEF Steady

LEMMA ListThin ==
  ASSUME ListTypes
  PROVE  /\ Thin(trans, trans)
         /\ \A n, tid : /\ Thin(DeleteExpired(trans), trans) /\ Thin(Delete(trans, tid), trans)
         /\ trans # <<>> => Thin(Tail(trans), trans)
BY LeftSelf, LeftTail, LeftThin, DeletesLeft DEF ListTypes

\* An item changed in place.
LEMMA ExceptThin ==
  ASSUME ListTypes, NEW i \in DOMAIN trans, NEW e \in ItemSet,
         e.frame = trans[i].frame, e.node = trans[i].node
  PROVE  Thin([trans EXCEPT ![i] = e], trans)
<1> DEFINE p == [trans EXCEPT ![i] = e]
<1>1. p \in Seq(ItemSet) /\ DOMAIN p = DOMAIN trans
  BY ExceptItem DEF ListTypes
<1>2. \A j \in DOMAIN trans : p[j].frame = trans[j].frame /\ p[j].node = trans[j].node
  OBVIOUS
<1> HIDE DEF p
<1>3. Thin(p, trans)
  BY <1>1, <1>2, ThinSame DEF ListTypes
<1> QED
  BY <1>3 DEF p

LEMMA StepKinds ==
  Types /\ [Next]_vars => \/ Thins
                          \/ \E k \in Conns : Accept(k)
                          \/ \E n \in Nodes : Read(n)
                          \/ \E n \in Nodes : Takes(n)
<1> SUFFICES ASSUME Types, [Next]_vars
             PROVE  \/ Thins
                    \/ \E k \in Conns : Accept(k)
                    \/ \E n \in Nodes : Read(n)
                    \/ \E n \in Nodes : Takes(n)
  OBVIOUS
<1>0. /\ Thin(trans, trans)
      /\ Thin(DeleteExpired(trans), trans) /\ \A tid : Thin(Delete(trans, tid), trans)
      /\ trans # <<>> => Thin(Tail(trans), trans)
  BY ListThin DEF Types
<1>1. ASSUME NEW k \in Conns, Refuse(k) \/ PeerGone(k) PROVE Thins
  <2>1. Steady(client, client')
    BY <1>1 DEF Refuse, PeerGone, Types, ClientTypes, Steady
  <2> QED
    BY <1>0, <1>1, <2>1, SameThins DEF Refuse, PeerGone
<1>2. ASSUME UNCHANGED <<client, node>>, Thin(trans', trans) PROVE Thins
  BY <1>2, SteadySame, SameThins
<1>3. ASSUME NEW n \in Nodes, \/ ReadBad(n) \/ ReadGone(n) \/ SendNothing(n)
                              \/ \E e \in {"CONNECT", "RECV_DATA", "SEND_DATA", "ERROR"} : HandleGone(e, n)
      PROVE  Thins
  BY <1>0, <1>2, <1>3 DEF ReadBad, ReadGone, SendNothing, HandleGone, slots
<1>4. ASSUME \/ OnReady \/ PollReady \/ PollExecute \/ PollPostSent \/ PollSent \/ PollError
             \/ TimerExpires \/ Start \/ Stop \/ Stopped \/ UNCHANGED vars
      PROVE  Thins
  <2>1. UNCHANGED <<client, node, trans>>
    BY <1>4 DEF OnReady, PollReady, PollExecute, PollPostSent, PollSent, PollError, TimerExpires,
                Start, Stop, Stopped, vars, slots
  <2> QED
    BY <1>0, <1>2, <2>1
<1>5. ASSUME NEW i \in DOMAIN trans, Expire(i) PROVE Thins
  <2> DEFINE e == [trans[i] EXCEPT !.old = TRUE]
  <2>1. e \in ItemSet /\ e.frame = trans[i].frame /\ e.node = trans[i].node
    BY ListIs DEF Types, ItemSet
  <2>2. trans' = [trans EXCEPT ![i] = e]
    BY <1>5 DEF Expire
  <2> HIDE DEF e
  <2>3. Thin(trans', trans)
    BY <2>1, <2>2, ExceptThin DEF Types
  <2> QED
    BY <1>2, <1>5, <2>3 DEF Expire, slots
<1>6. ASSUME NEW n \in Nodes, OnConnect(n) PROVE Thins
  <2> DEFINE r == [node[n] EXCEPT !.state = "CONNECTED"]
  <2>1. /\ Up(n) /\ node' = [node EXCEPT ![n] = r]
        /\ UNCHANGED <<client, trans>>
    BY <1>6 DEF OnConnect
  <2>2. r.conn = node[n].conn /\ r.rx = node[n].rx
    BY <2>1, SlotIs DEF Types, NodeOf
  <2> HIDE DEF r
  <2> QED
    BY <1>0, <2>1, <2>2, SameThins, SteadySame
<1>7. ASSUME NEW n \in Nodes, RecvStart(n) \/ RecvPostpone(n) \/ RecvOngoing(n) PROVE Takes(n)
  <2>1. RecvBegin(n) /\ UNCHANGED <<client, orphaned>>
    BY <1>7 DEF RecvStart, RecvPostpone, RecvOngoing, control
  <2>2. Enqueued(n) \in Seq(ItemSet)
    BY <2>1, RecvIs
  <2>3. Thin(Enqueued(n), Enqueued(n)) /\ Thin(DeleteExpired(Enqueued(n)), Enqueued(n))
    BY <2>2, LeftSelf, LeftThin, DeletesLeft
  <2> QED
    BY <1>7, <2>1, <2>3 DEF RecvStart, RecvPostpone, RecvOngoing, Takes
<1>8. ASSUME RecvAcknowledge PROVE Thins
  <2>1. /\ trans' = ItemSetState(trans, acking, "ACKNOWLEDGED") /\ acking \in ItemSet
        /\ UNCHANGED <<client, node>>
    BY <1>8 DEF RecvAcknowledge, Types, ListTypes, slots
  <2>2. /\ trans' \in Seq(ItemSet) /\ DOMAIN trans' = DOMAIN trans
        /\ \A i \in DOMAIN trans :
              /\ trans[i].frame # acking.frame => trans'[i] = trans[i]
              /\ trans[i].frame = acking.frame => trans'[i] = [trans[i] EXCEPT !.state = "ACKNOWLEDGED"]
    <3>1. trans \in Seq(ItemSet) /\ "ACKNOWLEDGED" \in States
      BY DEF Types, ListTypes, States
    <3> QED
      <4> DEFINE p == ItemSetState(trans, acking, "ACKNOWLEDGED")
      <4>1. /\ p \in Seq(ItemSet) /\ DOMAIN p = DOMAIN trans
            /\ \A i \in DOMAIN trans :
                 /\ trans[i].frame # acking.frame => p[i] = trans[i]
                 /\ trans[i].frame = acking.frame => p[i] = [trans[i] EXCEPT !.state = "ACKNOWLEDGED"]
        <5> DEFINE s == "ACKNOWLEDGED"
        <5>1. s \in States /\ acking \in ItemSet
          BY <2>1, <3>1
        <5> HIDE DEF s
        <5>2. /\ ItemSetState(trans, acking, s) \in Seq(ItemSet)
              /\ DOMAIN ItemSetState(trans, acking, s) = DOMAIN trans
              /\ \A i \in DOMAIN trans :
                   /\ trans[i].frame # acking.frame => ItemSetState(trans, acking, s)[i] = trans[i]
                   /\ trans[i].frame = acking.frame =>
                        ItemSetState(trans, acking, s)[i] = [trans[i] EXCEPT !.state = s]
          BY <3>1, <5>1, ItemSetIs
        <5> QED
          BY <5>2 DEF s
      <4>2. trans' = p
        BY <2>1
      <4> HIDE DEF p
      <4> QED
        BY <4>1, <4>2
  <2>3. \A i \in DOMAIN trans : trans'[i].frame = trans[i].frame /\ trans'[i].node = trans[i].node
    BY <2>2, ListIs DEF Types, ItemSet
  <2>4. Thin(trans', trans)
    BY <2>2, <2>3, ThinSame DEF Types, ListTypes
  <2> QED
    BY <1>2, <2>1, <2>4
<1>9. ASSUME NEW n \in Nodes, SendWrite(n) \/ SendLate(n) PROVE Thins
  <2> DEFINE r == [node[n] EXCEPT !.tx = Tail(@)]
  <2>1. /\ Up(n) /\ node' = [node EXCEPT ![n] = r] /\ UNCHANGED client
    BY <1>9 DEF SendWrite, SendLate, SendBegin
  <2>2. r.conn = node[n].conn /\ r.rx = node[n].rx
    BY <2>1, SlotIs DEF Types, NodeOf
  <2>3. Thin(trans', trans)
    <3>1. CASE SendWrite(n)
      <4>1. Left(trans', trans)
        BY <3>1, AnsweredIs DEF SendWrite, Current, Types, ListTypes, Left
      <4> QED
        BY <4>1, LeftThin
    <3>2. CASE SendLate(n)
      BY <1>0, <3>2 DEF SendLate
    <3> QED
      BY <1>9, <3>1, <3>2
  <2> HIDE DEF r
  <2> QED
    BY <2>1, <2>2, <2>3, SameThins, SteadySame
<1>10. ASSUME NEW n \in Nodes, OnError(n) \/ OnTimeout(n) PROVE Thins
  <2>1. ASSUME NEW m \in Nodes, Connected(m), Drop(m) PROVE Thins
    BY <2>1, DropThins
  <2>2. CASE UNCHANGED <<slots, trans>>
    BY <1>0, <1>2, <2>2 DEF slots
  <2> QED
    BY <1>10, <2>1, <2>2 DEF OnError, OnTimeout, CheckedFrom
<1>11. ASSUME OnClose PROVE Thins
  <2>1. Steady(client, client')
    BY <1>11, EndedIs DEF OnClose, Steady, Types
  <2>2. \A n \in Nodes : node'[n] = NoNode
    BY <1>11 DEF OnClose
  <2>3. trans' = trans /\ (~orphaned' => trans = <<>>)
    BY <1>11 DEF OnClose
  <2>4. DOMAIN <<>> = {}
    OBVIOUS
  <2>5. Frees
    BY <2>3, <2>4 DEF Frees
  <2> QED
    BY <1>0, <2>1, <2>2, <2>3, <2>5 DEF Thins, Fewer
<1>12. ASSUME PollReceive PROVE Thins
  <2> DEFINE e == [trans[1] EXCEPT !.state = "CONFIRMED"]
  <2>1. 1 \in DOMAIN trans /\ trans[1] \in ItemSet
    BY <1>12, ListIs DEF PollReceive, Readable, FirstIs, Types
  <2>2. e \in ItemSet /\ e.frame = trans[1].frame /\ e.node = trans[1].node
    BY <2>1 DEF ItemSet, States
  <2>3. trans' = [trans EXCEPT ![1] = e]
    BY <1>12 DEF PollReceive
  <2> HIDE DEF e
  <2>4. Thin(trans', trans)
    BY <2>1, <2>2, <2>3, ExceptThin DEF Types
  <2> QED
    BY <1>2, <1>12, <2>4 DEF PollReceive, slots
<1>13. ASSUME PollNoReceive \/ PollNoSend PROVE Thins
  <2>1. Thin(trans', trans)
    BY <1>0, <1>13 DEF PollNoReceive, PollNoSend, FirstIs
  <2> QED
    BY <1>2, <1>13, <2>1 DEF PollNoReceive, PollNoSend, slots
<1>14. ASSUME PollSend PROVE Thins
  <2> DEFINE e == [trans[1] EXCEPT !.state = "REPLIED"]
             n == Head(trans).node
             r == [node[n] EXCEPT !.tx = Append(@, buf)]
  <2>1. 1 \in DOMAIN trans /\ trans[1] \in ItemSet /\ Head(trans) = trans[1]
    BY <1>14, ListIs DEF PollSend, Sendable, FirstIs, Types
  <2>2. e \in ItemSet /\ e.frame = trans[1].frame /\ e.node = trans[1].node
    BY <2>1 DEF ItemSet, States
  <2>3. trans' = [trans EXCEPT ![1] = e]
    BY <1>14 DEF PollSend
  <2>4. Thin(trans', trans)
    <3> HIDE DEF e
    <3> QED
      BY <2>1, <2>2, <2>3, ExceptThin DEF Types
  <2>5. n \in Nodes /\ Up(n) /\ UNCHANGED client
    BY <1>14, <2>1, ItemIs DEF PollSend, Sendable
  <2>6. r.conn = node[n].conn /\ r.rx = node[n].rx
    BY <2>5, SlotIs DEF Types, NodeOf
  <2>7. UNCHANGED node \/ node' = [node EXCEPT ![n] = r]
    BY <1>14 DEF PollSend
  <2> HIDE DEF n, r, e
  <2> QED
    BY <2>4, <2>5, <2>6, <2>7, SameThins, SteadySame
<1> QED
  BY <1>1, <1>3, <1>4, <1>5, <1>6, <1>7, <1>8, <1>9, <1>10, <1>11, <1>12, <1>13, <1>14
  DEF Next, Clients, Driver, Idle, Poll

\* Requests keep their order, from the client to the list.
LEMMA OrderNext ==
  ASSUME Types, InOrder(trans, node, client), [Next]_vars
  PROVE  InOrder(trans', node', client')
<1>1. CASE Thins
  <2>1. InOrder(trans', node, client)
    BY <1>1, ThinInOrder DEF Thins
  <2>2. trans' \in Seq(ItemSet)
    BY TypesNext DEF Types, ListTypes
  <2> QED
    BY <1>1, <2>1, <2>2, FewerInOrder DEF Thins, Types, NodeTypes
<1>2. ASSUME NEW n \in Nodes, Takes(n) PROVE InOrder(trans', node', client')
  <2>1. InOrder(Enqueued(n), node', client')
    BY <1>2, PopInOrder DEF Takes, RecvBegin
  <2> QED
    BY <1>2, <2>1, ThinInOrder DEF Takes
<1> QED
  BY <1>1, <1>2, StepKinds, AcceptInOrder, ReadInOrder

-------------------------------------------------------------------------------
(* Every transaction is of the connection that has its slot.               *)

OwnSlot(list, nd) == \A i \in DOMAIN list :
    nd[list[i].node] # NoNode /\ nd[list[i].node].conn = list[i].frame.conn

\* Nothing makes up for transactions that were left behind.
LEMMA OrphanedStays ==
  ASSUME [Next]_vars, orphaned
  PROVE  orphaned'
<1>1. ASSUME NEW n \in Nodes, OnError(n) \/ OnTimeout(n) PROVE orphaned'
  BY <1>1 DEF OnError, OnTimeout
<1>2. ASSUME NEW n \in Nodes, RecvStart(n) \/ RecvPostpone(n) \/ RecvOngoing(n) PROVE orphaned'
  BY <1>2 DEF RecvStart, RecvPostpone, RecvOngoing, control
<1>3. ASSUME NEW n \in Nodes, \/ SendWrite(n) \/ SendLate(n) \/ SendNothing(n) \/ OnConnect(n)
                              \/ Read(n) \/ ReadBad(n) \/ ReadGone(n)
                              \/ \E e \in {"CONNECT", "RECV_DATA", "SEND_DATA", "ERROR"} : HandleGone(e, n)
      PROVE orphaned'
  BY <1>3 DEF SendWrite, SendLate, SendNothing, OnConnect, Read, ReadBad, ReadGone, HandleGone, control
<1>4. ASSUME NEW k \in Conns, Accept(k) \/ Refuse(k) \/ PeerGone(k) PROVE orphaned'
  BY <1>4 DEF Accept, Refuse, PeerGone, control
<1>5. ASSUME NEW i \in DOMAIN trans, Expire(i) PROVE orphaned'
  BY <1>5 DEF Expire
<1>6. CASE OnReady \/ OnClose \/ RecvAcknowledge
  BY <1>6 DEF OnReady, OnClose, RecvAcknowledge, control
<1>7. CASE Poll
  BY <1>7 DEF Poll, PollReady, PollReceive, PollNoReceive, PollExecute, PollSend, PollNoSend,
              PollPostSent, PollSent, PollError, control
<1>8. CASE TimerExpires \/ Start \/ Stop \/ Stopped \/ UNCHANGED vars
  BY <1>8 DEF TimerExpires, Start, Stop, Stopped, vars, control
<1> QED
  BY <1>1, <1>2, <1>3, <1>4, <1>5, <1>6, <1>7, <1>8 DEF Next, Clients, Driver, Idle

LEMMA ThinOwn ==
  ASSUME NEW p, NEW q, NEW nd, Thin(p, q), OwnSlot(q, nd)
  PROVE  OwnSlot(p, nd)
<1>1. PICK g : ThinAt(p, q, g)
  BY DEF Thin
<1>2. \A m \in DOMAIN p : g[m] \in DOMAIN q /\ p[m].frame = q[g[m]].frame /\ p[m].node = q[g[m]].node
  BY <1>1 DEF ThinAt
<1> QED
  BY <1>2 DEF OwnSlot

Owned == ~orphaned => OwnSlot(trans, node)

LEMMA OwnedNext ==
  ASSUME Types, Owned, [Next]_vars
  PROVE  Owned'
<1> SUFFICES ASSUME ~orphaned' PROVE OwnSlot(trans', node')
  BY DEF Owned
<1>1. ~orphaned
  BY OrphanedStays
<1>2. OwnSlot(trans, node)
  BY <1>1 DEF Owned
<1>3. \A i \in DOMAIN trans : trans[i].node \in Nodes
  BY ListIs, ItemIs DEF Types
<1>4. CASE Thins
  <2>1. OwnSlot(trans', node)
    BY <1>2, <1>4, ThinOwn DEF Thins
  <2>2. \A i \in DOMAIN trans' : trans'[i].node \in Nodes
    <3>1. \A i \in DOMAIN trans' : trans'[i] \in ItemSet
      BY TypesNext DEF Types, ListTypes
    <3> QED
      BY <3>1, ItemIs
  <2> SUFFICES ASSUME NEW i \in DOMAIN trans'
               PROVE  /\ node'[trans'[i].node] # NoNode
                      /\ node'[trans'[i].node].conn = trans'[i].frame.conn
    BY DEF OwnSlot
  <2> DEFINE n == trans'[i].node
  <2>3. n \in Nodes /\ node[n] # NoNode /\ node[n].conn = trans'[i].frame.conn
    BY <2>1, <2>2 DEF OwnSlot
  <2>4. node'[n] # NoNode
    BY <1>4, <2>3 DEF Thins, Frees, Up
  <2>5. node'[n].conn = node[n].conn
    BY <1>4, <2>3, <2>4 DEF Thins, Fewer
  <2> QED
    BY <2>3, <2>4, <2>5
<1>5. ASSUME NEW k \in Conns, Accept(k) PROVE OwnSlot(trans', node')
  <2>1. PICK n \in Nodes : ~Up(n) /\ node' = [node EXCEPT ![n] = Opened(k)]
    BY <1>5 DEF Accept
  <2>2. trans' = trans /\ \A m \in Nodes : m # n => node'[m] = node[m]
    BY <1>5, <2>1 DEF Accept, Types, NodeTypes
  <2> QED
    BY <1>2, <1>3, <2>1, <2>2 DEF OwnSlot, Up
<1>6. ASSUME NEW n \in Nodes, Read(n) PROVE OwnSlot(trans', node')
  <2> DEFINE f == [conn |-> node[n].conn, tid |-> client[node[n].conn].asked + 1]
             r == [node[n] EXCEPT !.rx = Append(@, f)]
  <2>1. Up(n) /\ trans' = trans /\ node' = [node EXCEPT ![n] = r]
    BY <1>6 DEF Read, Connected
  <2>2. r.conn = node[n].conn /\ node[n].conn # 0
    BY <2>1, SlotIs, FrameIs DEF Types, NodeOf
  <2>3. \A m \in Nodes : (m # n => node'[m] = node[m]) /\ (m = n => node'[m] = r)
    BY <2>1 DEF Types, NodeTypes
  <2>4. r # NoNode
    BY <2>2 DEF NoNode
  <2> HIDE DEF r
  <2> QED
    BY <1>2, <1>3, <2>1, <2>2, <2>3, <2>4 DEF OwnSlot
<1>7. ASSUME NEW n \in Nodes, Takes(n) PROVE OwnSlot(trans', node')
  <2>1. Up(n) /\ node' = Popped(n)
    BY <1>7 DEF Takes, RecvBegin
  <2>2. OwnSlot(Enqueued(n), node')
    <3>1. CASE node[n].rx = <<>>
      BY <1>2, <2>1, <3>1 DEF Enqueued, Popped
    <3>2. CASE node[n].rx # <<>>
      <4> DEFINE f == Head(node[n].rx)
                 q == Enqueued(n)
                 nd == Popped(n)
      <4>1. /\ f.conn = node[n].conn
            /\ \A i \in DOMAIN trans : q[i] = trans[i]
            /\ \A m \in Nodes : m # n => nd[m] = node[m]
            /\ nd[n].conn = node[n].conn
            /\ \A i \in DOMAIN q : i \in DOMAIN trans \/ i = Len(trans) + 1
        BY <2>1, <3>2, PopIs
      <4>2. q[Len(trans) + 1] = [frame |-> f, node |-> n, state |-> "QUEUED", old |-> FALSE]
        BY <2>1, <3>2, PopIs
      <4>3. q[Len(trans) + 1].frame = f /\ q[Len(trans) + 1].node = n
        BY <4>2
      <4>4. nd[n] # NoNode
        <5>1. node[n].conn # 0
          BY <2>1, SlotIs, FrameIs DEF Types
        <5> QED
          BY <4>1, <5>1 DEF NoNode
      <4> HIDE DEF f, q, nd
      <4>5. \A m \in Nodes : node[m] # NoNode => nd[m] # NoNode /\ nd[m].conn = node[m].conn
        BY <4>1, <4>4
      <4>6. OwnSlot(q, nd)
        <5> SUFFICES ASSUME NEW i \in DOMAIN q
                     PROVE  nd[q[i].node] # NoNode /\ nd[q[i].node].conn = q[i].frame.conn
          BY DEF OwnSlot
        <5>1. CASE i \in DOMAIN trans
          BY <1>2, <1>3, <4>1, <4>5, <5>1 DEF OwnSlot
        <5>2. CASE i = Len(trans) + 1
          BY <4>1, <4>3, <4>4, <5>2
        <5> QED
          BY <4>1, <5>1, <5>2
      <4> QED
        BY <2>1, <4>6 DEF q, nd
    <3> QED
      BY <3>1, <3>2
  <2> QED
    BY <1>7, <2>2, ThinOwn DEF Takes
<1> QED
  BY <1>4, <1>5, <1>6, <1>7, StepKinds

\* Each step keeps all three.
Placed == Types /\ InOrder(trans, node, client) /\ Owned

LEMMA PlacedInit == Init => Placed
<1> SUFFICES ASSUME Init PROVE Placed
  OBVIOUS
<1>1. /\ trans = <<>> /\ DOMAIN <<>> = {} /\ \A n \in Nodes : node[n] = NoNode
  BY DEF Init
<1>2. InOrder(trans, node, client) /\ Owned
  BY <1>1 DEF InOrder, Ordered, Apart, RxOrdered, Behind, Asked, Owned, OwnSlot
<1> QED
  BY <1>2, InitTypes DEF Placed

LEMMA PlacedNext == Placed /\ [Next]_vars => Placed'
BY TypesNext, OrderNext, OwnedNext DEF Placed

\* Every queued transaction belongs to the connection that has its slot now, unless a
\* stop has left some behind.
THEOREM ItemsAlwaysOfTheirSlot == Spec => []ItemsAreOfTheirSlot
<1>1. Placed => ItemsAreOfTheirSlot
  BY DEF Placed, Owned, OwnSlot, ItemsAreOfTheirSlot, Up
<1>2. Spec => []Placed
  BY PlacedInit, PlacedNext, PTL DEF Spec
<1> QED
  BY <1>1, <1>2, PTL

-------------------------------------------------------------------------------
(* Only the oldest transaction is in progress, and the buffer holds its    *)
(* request.                                                                *)

\* Of a list, the item a to be acknowledged and the buffer b.
HeadOnly(list) == \A i \in DOMAIN list : i # 1 => list[i].state = "QUEUED"
HeadAcked(list, a) == a # NoItem =>
    \A i \in DOMAIN list : list[i].state = "QUEUED" /\ (list[i].frame = a.frame => i = 1)
HeadInBuf(list, b) == \A i \in DOMAIN list : list[i].state = "CONFIRMED" => b = list[i].frame

HeadOf(list, a, b) == HeadOnly(list) /\ HeadAcked(list, a) /\ HeadInBuf(list, b)

LEMMA LeftHead ==
  ASSUME NEW p \in Seq(ItemSet), NEW q \in Seq(ItemSet), NEW a, NEW b, Left(p, q), HeadOf(q, a, b)
  PROVE  HeadOf(p, a, b)
<1>1. PICK g : LeftAt(p, q, g)
  BY DEF Left
<1>2. \A m \in DOMAIN p : g[m] \in DOMAIN q /\ p[m] = q[g[m]] /\ (m # 1 => g[m] # 1)
  <2>1. \A m \in DOMAIN p : g[m] \in DOMAIN q /\ p[m] = q[g[m]]
    BY <1>1 DEF LeftAt
  <2>2. DOMAIN p = 1..Len(p) /\ Len(p) \in Nat /\ \A i \in DOMAIN q : i \in Nat /\ 1 <= i
    OBVIOUS
  <2>3. \A m \in DOMAIN p : m # 1 => 1 < m /\ 1 \in DOMAIN p
    BY <2>2
  <2>4. \A m \in DOMAIN p : m # 1 => g[1] < g[m] /\ g[1] \in DOMAIN q
    BY <1>1, <2>3 DEF LeftAt
  <2>5. ASSUME NEW m \in DOMAIN p, m # 1 PROVE g[m] # 1
    <3> DEFINE x == g[1]
               y == g[m]
    <3>1. x < y /\ x \in Nat /\ 1 <= x /\ y \in Nat
      BY <2>1, <2>2, <2>4, <2>5
    <3> HIDE DEF x, y
    <3>2. y # 1
      BY <3>1
    <3> QED
      BY <3>2 DEF y
  <2> QED
    BY <2>1, <2>5
<1> QED
  <2>1. \A m \in DOMAIN p : m # 1 => p[m].state = "QUEUED"
    BY <1>2 DEF HeadOf, HeadOnly
  <2>2. a # NoItem => \A m \in DOMAIN p : p[m].state = "QUEUED" /\ (p[m].frame = a.frame => m = 1)
    BY <1>2 DEF HeadOf, HeadAcked
  <2>3. \A m \in DOMAIN p : p[m].state = "CONFIRMED" => b = p[m].frame
    BY <1>2 DEF HeadOf, HeadInBuf
  <2> QED
    BY <2>1, <2>2, <2>3 DEF HeadOf, HeadOnly, HeadAcked, HeadInBuf

LEMMA EnqueuedHead ==
  ASSUME Types, HeadOf(trans, acking, buf), acking = NoItem, NEW n \in Nodes, Up(n)
  PROVE  HeadOf(Enqueued(n), acking, buf)
<1>1. CASE node[n].rx = <<>>
  BY <1>1 DEF Enqueued
<1>2. CASE node[n].rx # <<>>
  <2> DEFINE q == Enqueued(n)
  <2>1. /\ \A i \in DOMAIN trans : q[i] = trans[i]
        /\ \A i \in DOMAIN q : i \in DOMAIN trans \/ i = Len(trans) + 1
    BY <1>2, PopIs
  <2>2. q[Len(trans) + 1].state = "QUEUED"
    <3>1. q[Len(trans) + 1] = [frame |-> Head(node[n].rx), node |-> n, state |-> "QUEUED", old |-> FALSE]
      BY <1>2, PopIs
    <3> QED
      BY <3>1
  <2> HIDE DEF q
  <2>3. HeadOnly(q) /\ HeadAcked(q, acking) /\ HeadInBuf(q, buf)
    BY <2>1, <2>2 DEF HeadOf, HeadOnly, HeadAcked, HeadInBuf
  <2> QED
    BY <2>3 DEF HeadOf, q
<1> QED
  BY <1>1, <1>2

\* The oldest transaction goes from one state to another.
LEMMA FirstChanged ==
  ASSUME ListTypes, trans # <<>>, NEW s, trans' = [trans EXCEPT ![1].state = s]
  PROVE  /\ DOMAIN trans' = DOMAIN trans
         /\ trans'[1].frame = trans[1].frame /\ trans'[1].node = trans[1].node
         /\ trans'[1].state = s
         /\ \A i \in DOMAIN trans : i # 1 => trans'[i] = trans[i]
         /\ 1 \in DOMAIN trans
<1>1. 1 \in DOMAIN trans /\ trans[1] \in ItemSet
  BY ListIs
<1>2. trans' = [trans EXCEPT ![1] = [trans[1] EXCEPT !.state = s]]
  OBVIOUS
<1>3. /\ DOMAIN trans' = DOMAIN trans /\ trans'[1] = [trans[1] EXCEPT !.state = s]
      /\ \A i \in DOMAIN trans : i # 1 => trans'[i] = trans[i]
  BY <1>1, <1>2
<1> QED
  BY <1>1, <1>3 DEF ItemSet

LEMMA HeadNext ==
  ASSUME Placed, HeadOf(trans, acking, buf), [Next]_vars
  PROVE  HeadOf(trans', acking', buf')
<1> USE DEF Placed
<1>0. trans \in Seq(ItemSet) /\ trans' \in Seq(ItemSet)
  BY TypesNext DEF Types, ListTypes
<1>1. ASSUME Left(trans', trans), UNCHANGED <<acking, buf>> PROVE HeadOf(trans', acking', buf')
  BY <1>0, <1>1, LeftHead
<1>2. Left(trans, trans)
  BY <1>0, LeftSelf
<1>3. ASSUME NEW n \in Nodes, OnError(n) \/ OnTimeout(n) PROVE HeadOf(trans', acking', buf')
  <2>1. UNCHANGED <<acking, buf>>
    BY <1>3 DEF OnError, OnTimeout, fsm
  <2>2. Left(trans', trans)
    <3>1. \/ trans' = trans
          \/ \E m \in Nodes : trans' = DeleteByNode(trans, m)
      BY <1>3 DEF OnError, OnTimeout, Drop
    <3>2. ASSUME NEW m \in Nodes PROVE Left(DeleteByNode(trans, m), trans)
      BY <1>0, DeletesLeft
    <3> QED
      BY <1>2, <3>1, <3>2
  <2> QED
    BY <1>1, <2>1, <2>2
<1>4. ASSUME NEW n \in Nodes, RecvStart(n) \/ RecvPostpone(n) \/ RecvOngoing(n)
      PROVE  HeadOf(trans', acking', buf')
  <2> DEFINE q == Enqueued(n)
  <2>1. acking = NoItem /\ Up(n) /\ buf' = buf
    BY <1>4 DEF RecvStart, RecvPostpone, RecvOngoing, RecvBegin, Handle, fsm
  <2>2. q \in Seq(ItemSet)
    BY <1>4, RecvIs DEF RecvStart, RecvPostpone, RecvOngoing
  <2>3. HeadOf(q, acking, buf)
    BY <2>1, EnqueuedHead
  <2>4. CASE RecvPostpone(n) \/ RecvOngoing(n)
    <3>1. Left(trans', q) /\ acking' = acking
      BY <2>2, <2>4, DeletesLeft DEF RecvPostpone, RecvOngoing
    <3> HIDE DEF q
    <3> QED
      BY <1>0, <2>1, <2>2, <2>3, <3>1, LeftHead
  <2>5. CASE RecvStart(n)
    <3>1. trans' = q /\ acking' = Head(q) /\ q # <<>> /\ Head(q).state = "QUEUED"
      BY <2>5 DEF RecvStart, FirstIs
    <3>2. Ordered(q)
      BY <2>1, PopInOrder DEF InOrder
    <3> HIDE DEF q
    <3>3. Head(q) = q[1] /\ 1 \in DOMAIN q /\ \A i \in DOMAIN q : i # 1 => 1 < i
      BY <2>2, <3>1
    <3>4. \A i \in DOMAIN q : q[i].state = "QUEUED"
      BY <2>3, <3>1, <3>3 DEF HeadOf, HeadOnly
    <3>5. \A i \in DOMAIN q : q[i].frame = q[1].frame => i = 1
      <4> SUFFICES ASSUME NEW i \in DOMAIN q, i # 1, q[i].frame = q[1].frame PROVE FALSE
        OBVIOUS
      <4>1. q[1].frame.tid < q[i].frame.tid
        BY <3>2, <3>3 DEF Ordered
      <4>2. q[1].frame.tid \in Nat
        <5>1. q[1] \in ItemSet
          BY <2>2, <3>3
        <5> QED
          BY <5>1, ItemIs
      <4> QED
        BY <4>1, <4>2
    <3>6. HeadAcked(q, Head(q)) /\ HeadOnly(q) /\ HeadInBuf(q, buf)
      BY <2>3, <3>3, <3>4, <3>5 DEF HeadOf, HeadAcked, HeadOnly, HeadInBuf
    <3> QED
      BY <2>1, <3>1, <3>6 DEF HeadOf
  <2> QED
    BY <1>4, <2>4, <2>5
<1>5. CASE RecvAcknowledge
  <2>1. /\ acking # NoItem /\ acking \in ItemSet /\ acking' = NoItem /\ buf' = buf
        /\ trans' = ItemSetState(trans, acking, "ACKNOWLEDGED")
    BY <1>5 DEF RecvAcknowledge, Types, ListTypes, fsm
  <2>2. /\ \A i \in DOMAIN trans : trans[i].state = "QUEUED" /\ (trans[i].frame = acking.frame => i = 1)
    BY <2>1 DEF HeadOf, HeadAcked
  <2>3. \A i \in DOMAIN trans : trans[i] \in ItemSet
    BY <1>0
  <2>4. /\ DOMAIN trans' = DOMAIN trans
        /\ \A i \in DOMAIN trans :
             \/ trans'[i] = trans[i]
             \/ trans[i].frame = acking.frame /\ trans'[i] = [trans[i] EXCEPT !.state = "ACKNOWLEDGED"]
    BY <2>1 DEF ItemSetState, Place
  <2>5. \A i \in DOMAIN trans :
             \/ trans'[i] = trans[i]
             \/ i = 1 /\ trans'[i].state = "ACKNOWLEDGED"
    BY <2>2, <2>3, <2>4 DEF ItemSet
  <2>6. HeadOnly(trans') /\ HeadInBuf(trans', buf')
    BY <2>2, <2>4, <2>5 DEF HeadOnly, HeadInBuf
  <2> QED
    BY <2>1, <2>6 DEF HeadOf, HeadAcked
<1>6. ASSUME NEW i \in DOMAIN trans, Expire(i) PROVE HeadOf(trans', acking', buf')
  <2>1. trans' = [trans EXCEPT ![i].old = TRUE] /\ acking' = acking /\ buf' = buf
    BY <1>6 DEF Expire, fsm
  <2>2. \A j \in DOMAIN trans : trans[j] \in ItemSet
    BY <1>0
  <2>3. /\ DOMAIN trans' = DOMAIN trans
        /\ \A j \in DOMAIN trans : trans'[j].frame = trans[j].frame /\ trans'[j].state = trans[j].state
    BY <2>1, <2>2 DEF ItemSet
  <2> QED
    BY <2>1, <2>3 DEF HeadOf, HeadOnly, HeadAcked, HeadInBuf
<1>7. CASE PollReceive
  <2>1. /\ trans # <<>> /\ trans' = [trans EXCEPT ![1].state = "CONFIRMED"]
        /\ buf' = Head(trans).frame /\ Head(trans) = trans[1] /\ trans[1].state = "ACKNOWLEDGED"
        /\ acking' = acking
    BY <1>7, ListIs DEF PollReceive, Readable, FirstIs, Types
  <2>2. /\ DOMAIN trans' = DOMAIN trans /\ 1 \in DOMAIN trans
        /\ trans'[1].frame = trans[1].frame
        /\ trans'[1].state = "CONFIRMED"
        /\ \A i \in DOMAIN trans : i # 1 => trans'[i] = trans[i]
    BY <2>1, FirstChanged DEF Types
  <2>3. acking = NoItem
    BY <2>1, <2>2 DEF HeadOf, HeadAcked
  <2>4. HeadOnly(trans') /\ HeadInBuf(trans', buf')
    BY <2>1, <2>2 DEF HeadOf, HeadOnly, HeadInBuf
  <2> QED
    BY <2>1, <2>3, <2>4 DEF HeadOf, HeadAcked
<1>8. CASE PollSend
  <2>1. /\ trans # <<>> /\ trans' = [trans EXCEPT ![1].state = "REPLIED"]
        /\ Head(trans) = trans[1] /\ trans[1].state = "CONFIRMED"
        /\ acking' = acking /\ buf' = buf
    BY <1>8, ListIs DEF PollSend, Sendable, FirstIs, Types
  <2>2. /\ DOMAIN trans' = DOMAIN trans /\ 1 \in DOMAIN trans
        /\ trans'[1].state = "REPLIED"
        /\ \A i \in DOMAIN trans : i # 1 => trans'[i] = trans[i]
    BY <2>1, FirstChanged DEF Types
  <2>3. acking = NoItem
    BY <2>1, <2>2 DEF HeadOf, HeadAcked
  <2>4. HeadOnly(trans') /\ HeadInBuf(trans', buf')
    BY <2>1, <2>2 DEF HeadOf, HeadOnly, HeadInBuf
  <2> QED
    BY <2>1, <2>3, <2>4 DEF HeadOf, HeadAcked
<1>9. CASE PollNoReceive \/ PollNoSend
  <2>1. Left(trans', trans)
    BY <1>0, <1>2, <1>9, DeletesLeft, LeftTail DEF PollNoReceive, PollNoSend, FirstIs
  <2> QED
    BY <1>1, <1>9, <2>1 DEF PollNoReceive, PollNoSend
<1>10. ASSUME NEW n \in Nodes, SendWrite(n) \/ SendLate(n) PROVE HeadOf(trans', acking', buf')
  <2>1. CASE SendWrite(n)
    <3>1. Left(trans', trans)
      BY <1>0, <2>1, AnsweredIs DEF SendWrite, Current, Left
    <3> QED
      BY <1>1, <2>1, <3>1 DEF SendWrite, fsm
  <2>2. CASE SendLate(n)
    BY <1>0, <1>1, <2>2, DeletesLeft DEF SendLate, fsm
  <2> QED
    BY <1>10, <2>1, <2>2
<1>11. ASSUME UNCHANGED <<trans, acking, buf>> PROVE HeadOf(trans', acking', buf')
  BY <1>11
<1>12. ASSUME NEW n \in Nodes, \/ SendNothing(n) \/ OnConnect(n) \/ Read(n) \/ ReadBad(n) \/ ReadGone(n)
                               \/ \E e \in {"CONNECT", "RECV_DATA", "SEND_DATA", "ERROR"} : HandleGone(e, n)
       PROVE  UNCHANGED <<trans, acking, buf>>
  BY <1>12 DEF SendNothing, OnConnect, Read, ReadBad, ReadGone, HandleGone, fsm
<1>13. ASSUME NEW k \in Conns, Accept(k) \/ Refuse(k) \/ PeerGone(k) PROVE UNCHANGED <<trans, acking, buf>>
  BY <1>13 DEF Accept, Refuse, PeerGone, fsm
<1>14. ASSUME \/ OnReady \/ OnClose \/ PollReady \/ PollExecute \/ PollPostSent \/ PollSent
              \/ PollError \/ TimerExpires \/ Start \/ Stop \/ Stopped \/ UNCHANGED vars
       PROVE  UNCHANGED <<trans, acking, buf>>
  BY <1>14 DEF OnReady, OnClose, PollReady, PollExecute, PollPostSent, PollSent, PollError,
               TimerExpires, Start, Stop, Stopped, vars, fsm
<1> QED
  BY <1>3, <1>4, <1>5, <1>6, <1>7, <1>8, <1>9, <1>10, <1>11, <1>12, <1>13, <1>14
  DEF Next, Clients, Driver, Idle, Poll

-------------------------------------------------------------------------------
(* Responses: what is answered has been executed.                          *)

\* No response is added to a slot.
TxFewer(nd, nd2) == \A n \in Nodes : nd2[n] # NoNode =>
    \A f : Has(nd2[n].tx, f) => nd[n] # NoNode /\ nd2[n].conn = nd[n].conn /\ Has(nd[n].tx, f)

\* The responses of a slot stay, or there are none.
TxKept(nd, nd2) == \A n \in Nodes : nd2[n] # NoNode =>
    \/ nd2[n].tx = <<>>
    \/ nd[n] # NoNode /\ nd2[n].conn = nd[n].conn /\ nd2[n].tx = nd[n].tx

LEMMA SlotTxKept ==
  ASSUME NodeTypes, NEW n \in Nodes, NEW r, Up(n), r.conn = node[n].conn, r.tx = node[n].tx
  PROVE  TxKept(node, [node EXCEPT ![n] = r])
<1> DEFINE nd == [node EXCEPT ![n] = r]
<1>1. nd[n] = r /\ \A m \in Nodes : m # n => nd[m] = node[m]
  BY DEF NodeTypes
<1> HIDE DEF nd
<1>2. TxKept(node, nd)
  <2> SUFFICES ASSUME NEW m \in Nodes, nd[m] # NoNode
               PROVE  node[m] # NoNode /\ nd[m].conn = node[m].conn /\ nd[m].tx = node[m].tx
    BY DEF TxKept
  <2>1. CASE m = n
    BY <1>1, <2>1 DEF Up
  <2>2. CASE m # n
    BY <1>1, <2>2
  <2> QED
    BY <2>1, <2>2
<1> QED
  BY <1>2 DEF nd

\* A step adds a response, takes one out, or does neither.
LEMMA TxSteps ==
  ASSUME Types, [Next]_vars
  PROVE  \/ TxKept(node, node') /\ sent' = sent
         \/ \E n \in Nodes : SendWrite(n) \/ SendLate(n)
         \/ PollSend
<1> DEFINE Goal == TxKept(node, node') /\ sent' = sent
<1>1. ASSUME UNCHANGED node PROVE TxKept(node, node')
  BY <1>1 DEF TxKept
<1>2. ASSUME NEW k \in Conns, Accept(k) PROVE Goal
  <2>1. PICK n \in Nodes : node' = [node EXCEPT ![n] = Opened(k)]
    BY <1>2 DEF Accept
  <2>2. node'[n].tx = <<>> /\ \A m \in Nodes : m # n => node'[m] = node[m]
    BY <2>1 DEF Types, NodeTypes, Opened
  <2>3. TxKept(node, node')
    BY <2>2 DEF TxKept
  <2> QED
    BY <1>2, <2>3 DEF Accept, history
<1>3. ASSUME NEW n \in Nodes, Read(n) PROVE Goal
  <2> DEFINE f == [conn |-> node[n].conn, tid |-> client[node[n].conn].asked + 1]
             r == [node[n] EXCEPT !.rx = Append(@, f)]
  <2>1. Up(n) /\ node' = [node EXCEPT ![n] = r] /\ sent' = sent
    BY <1>3 DEF Read, Connected, history
  <2>2. r.conn = node[n].conn /\ r.tx = node[n].tx
    BY <2>1, SlotIs DEF Types, NodeOf
  <2> HIDE DEF r
  <2>3. TxKept(node, [node EXCEPT ![n] = r])
    BY <2>1, <2>2, SlotTxKept DEF Types
  <2> QED
    BY <2>1, <2>3
<1>4. ASSUME NEW n \in Nodes, OnConnect(n) PROVE Goal
  <2> DEFINE r == [node[n] EXCEPT !.state = "CONNECTED"]
  <2>1. Up(n) /\ node' = [node EXCEPT ![n] = r] /\ sent' = sent
    BY <1>4 DEF OnConnect, history
  <2>2. r.conn = node[n].conn /\ r.tx = node[n].tx
    BY <2>1, SlotIs DEF Types, NodeOf
  <2> HIDE DEF r
  <2>3. TxKept(node, [node EXCEPT ![n] = r])
    BY <2>1, <2>2, SlotTxKept DEF Types
  <2> QED
    BY <2>1, <2>3
<1>5. ASSUME NEW n \in Nodes, RecvStart(n) \/ RecvPostpone(n) \/ RecvOngoing(n) PROVE Goal
  <2> DEFINE r == [node[n] EXCEPT !.rx = Tail(@), !.tid = Head(node[n].rx).tid]
  <2>1. /\ Up(n) /\ sent' = sent
        /\ UNCHANGED node \/ node' = [node EXCEPT ![n] = r]
    BY <1>5 DEF RecvStart, RecvPostpone, RecvOngoing, RecvBegin, Popped, history
  <2>2. r.conn = node[n].conn /\ r.tx = node[n].tx
    BY <2>1, SlotIs DEF Types, NodeOf
  <2> HIDE DEF r
  <2>3. TxKept(node, [node EXCEPT ![n] = r])
    BY <2>1, <2>2, SlotTxKept DEF Types
  <2> QED
    BY <1>1, <2>1, <2>3
<1>7. ASSUME NEW n \in Nodes, OnError(n) \/ OnTimeout(n) PROVE Goal
  <2>1. sent' = sent
    BY <1>7 DEF OnError, OnTimeout, history
  <2>2. UNCHANGED node \/ \E m \in Nodes : node' = [node EXCEPT ![m] = NoNode]
    BY <1>7 DEF OnError, OnTimeout, Drop, slots
  <2>3. ASSUME NEW m \in Nodes, node' = [node EXCEPT ![m] = NoNode] PROVE TxKept(node, node')
    BY <2>3 DEF TxKept, Types, NodeTypes
  <2> QED
    BY <1>1, <2>1, <2>2, <2>3
<1>8. CASE OnClose
  BY <1>8 DEF OnClose, TxKept, history
<1>10. ASSUME UNCHANGED <<node, sent>> PROVE Goal
  BY <1>1, <1>10
<1>11. ASSUME NEW k \in Conns, Refuse(k) \/ PeerGone(k) PROVE UNCHANGED <<node, sent>>
  BY <1>11 DEF Refuse, PeerGone, history
<1>12. ASSUME NEW n \in Nodes, \/ SendNothing(n) \/ ReadBad(n) \/ ReadGone(n)
                               \/ \E e \in {"CONNECT", "RECV_DATA", "SEND_DATA", "ERROR"} : HandleGone(e, n)
       PROVE  UNCHANGED <<node, sent>>
  BY <1>12 DEF SendNothing, ReadBad, ReadGone, HandleGone, slots, history
<1>13. ASSUME \/ OnReady \/ RecvAcknowledge \/ PollReady \/ PollReceive \/ PollNoReceive \/ PollExecute
              \/ PollNoSend \/ PollPostSent \/ PollSent \/ PollError
              \/ TimerExpires \/ Start \/ Stop \/ Stopped \/ UNCHANGED vars
       PROVE  UNCHANGED <<node, sent>>
  BY <1>13 DEF OnReady, RecvAcknowledge, PollReady, PollReceive, PollNoReceive, PollExecute, PollNoSend,
               PollPostSent, PollSent, PollError, TimerExpires, Start, Stop, Stopped, vars, slots, history
<1>14. ASSUME NEW i \in DOMAIN trans, Expire(i) PROVE UNCHANGED <<node, sent>>
  BY <1>14 DEF Expire, slots, history
<1> QED
  BY <1>2, <1>3, <1>4, <1>5, <1>7, <1>8, <1>10, <1>11, <1>12, <1>13, <1>14
  DEF Next, Clients, Driver, Idle, Poll

LEMMA TxKinds ==
  ASSUME Types, [Next]_vars
  PROVE  \/ TxFewer(node, node') /\ sent' = sent
         \/ \E n \in Nodes : SendWrite(n) /\ TxFewer(node, node')
         \/ PollSend /\ sent' = sent
<1>1. ASSUME NEW n \in Nodes, SendWrite(n) \/ SendLate(n) PROVE TxFewer(node, node')
  <2> DEFINE r == [node[n] EXCEPT !.tx = Tail(@)]
  <2>1. /\ Up(n) /\ node' = [node EXCEPT ![n] = r] /\ node[n].tx # <<>>
    BY <1>1 DEF SendWrite, SendLate, SendBegin
  <2>2. node[n] \in NodeOf(node[n].conn)
    BY <2>1, SlotIs DEF Types
  <2>3. r.conn = node[n].conn /\ r.tx = Tail(node[n].tx)
    BY <2>2 DEF NodeOf
  <2>4. \A f : Has(Tail(node[n].tx), f) => Has(node[n].tx, f)
    <3> DEFINE q == node[n].tx
    <3>1. q \in Seq(Frames) /\ q # <<>>
      BY <2>1, <2>2 DEF NodeOf
    <3> HIDE DEF q
    <3>2. \A f : Has(Tail(q), f) => Has(q, f)
      BY <3>1, TailIs
    <3> QED
      BY <3>2 DEF q
  <2>5. /\ node'[n] = r /\ \A m \in Nodes : m # n => node'[m] = node[m]
    BY <2>1 DEF Types, NodeTypes
  <2> HIDE DEF r
  <2> SUFFICES ASSUME NEW m \in Nodes, node'[m] # NoNode, NEW f, Has(node'[m].tx, f)
               PROVE  node[m] # NoNode /\ node'[m].conn = node[m].conn /\ Has(node[m].tx, f)
    BY DEF TxFewer
  <2>6. CASE m = n
    BY <2>1, <2>3, <2>4, <2>5, <2>6 DEF Up
  <2>7. CASE m # n
    BY <2>5, <2>7
  <2> QED
    BY <2>6, <2>7
<1>2. ASSUME TxKept(node, node') PROVE TxFewer(node, node')
  <2>1. \A f : ~Has(<<>>, f)
    BY DEF Has
  <2> QED
    <3> SUFFICES ASSUME NEW n \in Nodes, node'[n] # NoNode, NEW f, Has(node'[n].tx, f)
                 PROVE  node[n] # NoNode /\ node'[n].conn = node[n].conn /\ Has(node[n].tx, f)
      BY DEF TxFewer
    <3>1. \/ node'[n].tx = <<>>
          \/ node[n] # NoNode /\ node'[n].conn = node[n].conn /\ node'[n].tx = node[n].tx
      BY <1>2 DEF TxKept
    <3>2. node'[n].tx # <<>>
      BY <2>1
    <3> QED
      BY <3>1, <3>2
<1>3. CASE PollSend
  BY <1>3 DEF PollSend, history
<1>4. ASSUME NEW n \in Nodes, SendLate(n) PROVE sent' = sent
  BY <1>4 DEF SendLate, history
<1> QED
  BY <1>1, <1>2, <1>3, <1>4, TxSteps

\* Only PollReceive fills the buffer and asks for its execution, only PollExecute executes.
LEMMA EvqIs ==
  ASSUME Types
  PROVE  /\ \A e \in PollEvents : \A x : Has(Append(evq, e), x) <=> Has(evq, x) \/ x = e
         /\ evq # <<>> => /\ \A x : Has(evq, x) <=> Has(Tail(evq), x) \/ x = Head(evq)
                          /\ \A e \in PollEvents : \A x : Has(Append(Tail(evq), e), x) <=> Has(Tail(evq), x) \/ x = e
<1>1. evq \in Seq(PollEvents)
  BY DEF Types, QueueTypes
<1>2. \A e \in PollEvents : \A x : Has(Append(evq, e), x) <=> Has(evq, x) \/ x = e
  BY <1>1, AppendIs
<1>3. ASSUME evq # <<>>
      PROVE  /\ \A x : Has(evq, x) <=> Has(Tail(evq), x) \/ x = Head(evq)
             /\ \A e \in PollEvents : \A x : Has(Append(Tail(evq), e), x) <=> Has(Tail(evq), x) \/ x = e
  <2>1. Tail(evq) \in Seq(PollEvents) /\ \A x : Has(evq, x) <=> Has(Tail(evq), x) \/ x = Head(evq)
    BY <1>1, <1>3, TailIs
  <2> DEFINE q == Tail(evq)
  <2> HIDE DEF q
  <2>2. q \in Seq(PollEvents) => \A e \in PollEvents : \A x : Has(Append(q, e), x) <=> Has(q, x) \/ x = e
    BY AppendIs
  <2> QED
    BY <2>1, <2>2 DEF q
<1> QED
  BY <1>2, <1>3

Executes == Has(evq, "EXECUTE")
One(q) == \A i, j \in DOMAIN q : q[i] = "EXECUTE" /\ q[j] = "EXECUTE" => i = j

LEMMA OneIs ==
  ASSUME NEW q \in Seq(PollEvents), NEW e \in PollEvents
  PROVE  /\ (One(q) /\ e # "EXECUTE") \/ ~Has(q, "EXECUTE") => One(Append(q, e))
         /\ q # <<>> /\ One(q) => /\ One(Tail(q))
                                  /\ Head(q) = "EXECUTE" => ~Has(Tail(q), "EXECUTE")
<1>1. ASSUME (One(q) /\ e # "EXECUTE") \/ ~Has(q, "EXECUTE") PROVE One(Append(q, e))
  <2> DEFINE last == Len(q) + 1
  <2>1. /\ \A i \in DOMAIN q : Append(q, e)[i] = q[i]
        /\ Append(q, e)[last] = e
        /\ \A i \in DOMAIN Append(q, e) : i \in DOMAIN q \/ i = last
    BY AppendIs
  <2> HIDE DEF last
  <2>2. CASE One(q) /\ e # "EXECUTE"
    BY <2>1, <2>2 DEF One
  <2>3. CASE ~Has(q, "EXECUTE")
    BY <2>1, <2>3 DEF One, Has
  <2> QED
    BY <1>1, <2>2, <2>3
<1>2. ASSUME q # <<>>, One(q) PROVE One(Tail(q)) /\ (Head(q) = "EXECUTE" => ~Has(Tail(q), "EXECUTE"))
  <2>1. /\ Head(q) = q[1] /\ 1 \in DOMAIN q
        /\ \A i \in DOMAIN Tail(q) : i \in Nat /\ i + 1 \in DOMAIN q /\ Tail(q)[i] = q[i + 1]
        /\ DOMAIN Tail(q) = 1..Len(q) - 1 /\ Len(q) \in Nat \ {0}
    BY <1>2, TailIs
  <2>2. \A i \in DOMAIN Tail(q) : i + 1 # 1
    BY <2>1
  <2>3. \A i, j \in DOMAIN Tail(q) : i + 1 = j + 1 => i = j
    BY <2>1
  <2>4. One(Tail(q))
    <3> SUFFICES ASSUME NEW i \in DOMAIN Tail(q), NEW j \in DOMAIN Tail(q),
                        Tail(q)[i] = "EXECUTE", Tail(q)[j] = "EXECUTE"
                 PROVE  i = j
      BY DEF One
    <3>1. i + 1 \in DOMAIN q /\ j + 1 \in DOMAIN q /\ q[i + 1] = "EXECUTE" /\ q[j + 1] = "EXECUTE"
      BY <2>1
    <3>2. i + 1 = j + 1
      BY <1>2, <3>1 DEF One
    <3> QED
      BY <2>3, <3>2
  <2>5. ASSUME Head(q) = "EXECUTE", NEW i \in DOMAIN Tail(q), Tail(q)[i] = "EXECUTE" PROVE FALSE
    <3>1. i + 1 \in DOMAIN q /\ q[i + 1] = "EXECUTE" /\ q[1] = "EXECUTE" /\ 1 \in DOMAIN q
      BY <2>1, <2>5
    <3>2. i + 1 = 1
      BY <1>2, <3>1 DEF One
    <3> QED
      BY <2>2, <2>5, <3>2
  <2> QED
    BY <2>4, <2>5 DEF Has
<1> QED
  BY <1>1, <1>2

LEMMA PollKinds ==
  ASSUME Types, [Next]_vars
  PROVE  \/ PollReceive
         \/ PollExecute
         \/ /\ UNCHANGED <<buf, ran>>
            /\ pollPc' = "send" => pollPc = "send"
            /\ pollPc = "get" => pollPc' = "get"
            /\ Executes' => Executes
            /\ One(evq) => One(evq')
<1> DEFINE Goal == /\ UNCHANGED <<buf, ran>>
                   /\ pollPc' = "send" => pollPc = "send"
                   /\ pollPc = "get" => pollPc' = "get"
                   /\ Executes' => Executes
                   /\ One(evq) => One(evq')
<1>1. /\ \A e \in PollEvents : \A x : Has(Append(evq, e), x) <=> Has(evq, x) \/ x = e
      /\ evq # <<>> => /\ \A x : Has(evq, x) <=> Has(Tail(evq), x) \/ x = Head(evq)
                       /\ \A e \in PollEvents : \A x : Has(Append(Tail(evq), e), x) <=> Has(Tail(evq), x) \/ x = e
  BY EvqIs
<1>2. ASSUME UNCHANGED <<buf, pollPc, evq, ran>> PROVE Goal
  BY <1>2 DEF Executes
<1>3. ASSUME UNCHANGED <<buf, ran>>,
             pollPc' = "get" \/ pollPc' = pollPc \/ (pollPc = "send" /\ pollPc' = "sent"),
             \/ evq' = evq
             \/ \E e \in {"READY", "RECEIVED", "SENT", "ERROR"} : evq' = Append(evq, e)
             \/ evq # <<>> /\ evq' = Tail(evq)
             \/ evq # <<>> /\ \E e \in {"READY", "RECEIVED", "SENT", "ERROR"} : evq' = Append(Tail(evq), e)
      PROVE  Goal
  <2>1. Executes' => Executes
    BY <1>1, <1>3 DEF Executes, PollEvents
  <2>2. One(evq) => One(evq')
    <3>1. evq \in Seq(PollEvents) /\ (evq # <<>> => Tail(evq) \in Seq(PollEvents))
      BY QueueIs DEF Types, QueueTypes
    <3>2. \A e \in {"READY", "RECEIVED", "SENT", "ERROR"} : e \in PollEvents /\ e # "EXECUTE"
      BY DEF PollEvents
    <3>3. One(evq) => \A e \in {"READY", "RECEIVED", "SENT", "ERROR"} : One(Append(evq, e))
      BY <3>1, <3>2, OneIs
    <3>4. One(evq) /\ evq # <<>> => One(Tail(evq))
      <4> DEFINE q == evq
                 e == "READY"
      <4>1. q \in Seq(PollEvents) /\ e \in PollEvents
        BY <3>1 DEF PollEvents
      <4> HIDE DEF q, e
      <4>2. q # <<>> /\ One(q) => /\ One(Tail(q))
                                  /\ Head(q) = "EXECUTE" => ~Has(Tail(q), "EXECUTE")
        BY <4>1, OneIs
      <4> QED
        BY <4>2 DEF q
    <3>5. One(evq) /\ evq # <<>> =>
            \A e \in {"READY", "RECEIVED", "SENT", "ERROR"} : One(Append(Tail(evq), e))
      <4> DEFINE q == Tail(evq)
      <4> HIDE DEF q
      <4>1. q \in Seq(PollEvents) /\ One(q) =>
              \A e \in {"READY", "RECEIVED", "SENT", "ERROR"} : One(Append(q, e))
        BY <3>2, OneIs
      <4> QED
        BY <3>1, <3>4, <4>1 DEF q
    <3> QED
      BY <1>3, <3>3, <3>4, <3>5
  <2> QED
    BY <1>3, <2>1, <2>2
<1>4. ASSUME NEW n \in Nodes, OnError(n) \/ OnTimeout(n) PROVE Goal
  BY <1>2, <1>4 DEF OnError, OnTimeout, fsm, history
<1>5. ASSUME NEW n \in Nodes, RecvStart(n) \/ RecvPostpone(n) \/ RecvOngoing(n) PROVE Goal
  BY <1>3, <1>5 DEF RecvStart, RecvPostpone, RecvOngoing, fsm, history
<1>6. ASSUME NEW n \in Nodes, \/ SendWrite(n) \/ SendLate(n) \/ SendNothing(n) \/ OnConnect(n)
                              \/ Read(n) \/ ReadGone(n)
                              \/ \E e \in {"CONNECT", "RECV_DATA", "SEND_DATA", "ERROR"} : HandleGone(e, n)
      PROVE  Goal
  BY <1>2, <1>6 DEF SendWrite, SendLate, SendNothing, OnConnect, Read, ReadGone, HandleGone, fsm, history
<1>7. ASSUME NEW n \in Nodes, ReadBad(n) PROVE Goal
  BY <1>3, <1>7 DEF ReadBad, history
<1>8. ASSUME NEW k \in Conns, Accept(k) \/ Refuse(k) \/ PeerGone(k) PROVE Goal
  BY <1>2, <1>8 DEF Accept, Refuse, PeerGone, fsm, history
<1>9. ASSUME NEW i \in DOMAIN trans, Expire(i) PROVE Goal
  BY <1>2, <1>9 DEF Expire, fsm, history
<1>10. CASE OnReady \/ OnClose \/ RecvAcknowledge
  BY <1>3, <1>10 DEF OnReady, OnClose, RecvAcknowledge, fsm, history
<1>11. CASE PollReady \/ PollNoReceive \/ PollSend \/ PollNoSend \/ PollPostSent \/ PollSent \/ PollError
  BY <1>3, <1>11 DEF PollReady, PollNoReceive, PollSend, PollNoSend, PollPostSent, PollSent, PollError,
                     PollGets, history
<1>12. CASE TimerExpires \/ Start \/ Stop \/ Stopped \/ UNCHANGED vars
  BY <1>3, <1>12 DEF TimerExpires, Start, Stop, Stopped, vars, fsm, history
<1> QED
  BY <1>4, <1>5, <1>6, <1>7, <1>8, <1>9, <1>10, <1>11, <1>12 DEF Next, Clients, Driver, Idle, Poll

RanAnswers ==
    /\ Executes \/ pollPc = "send" => buf \in Frames
    /\ pollPc = "send" => Has(ran[buf.conn], buf.tid)
    /\ \A n \in Nodes : Up(n) => \A f : Has(node[n].tx, f) => Has(ran[f.conn], f.tid)
    /\ \A k \in Conns : \A f : Has(sent[k], f) => Has(ran[f.conn], f.tid)

LEMMA TxIs ==
  ASSUME Types
  PROVE  /\ \A n \in Nodes : Up(n) => node[n].tx \in Seq(Frames) /\ node[n].conn \in Conns
         /\ \A n \in Nodes : Up(n) => \A f : Has(node[n].tx, f) => f \in Frames
         /\ \A n \in Nodes : Up(n) /\ node[n].tx # <<>> => /\ Head(node[n].tx) \in Frames
                                                           /\ Has(node[n].tx, Head(node[n].tx))
         /\ \A k \in Conns : sent[k] \in Seq(Frames)
         /\ \A k \in Conns : \A f : Has(sent[k], f) => f \in Frames
<1>1. ASSUME NEW n \in Nodes, Up(n) PROVE node[n].tx \in Seq(Frames) /\ node[n].conn \in Conns
  BY <1>1, SlotIs, NodeIs DEF Types
<1>2. ASSUME NEW q \in Seq(Frames), NEW f, Has(q, f) PROVE f \in Frames
  BY <1>2 DEF Has
<1>3. \A k \in Conns : sent[k] \in Seq(Frames)
  BY DEF Types, HistoryTypes
<1>4. ASSUME NEW q \in Seq(Frames), q # <<>> PROVE Head(q) \in Frames /\ Has(q, Head(q))
  BY <1>4, TailIs
<1> QED
  BY <1>1, <1>2, <1>3, <1>4

\* The writing of a response.
LEMMA WriteIs ==
  ASSUME Types, NEW n \in Nodes, SendWrite(n)
  PROVE  LET f == Head(node[n].tx)
         IN  /\ Up(n) /\ node[n].tx # <<>> /\ node[n].conn \in Conns /\ f \in Frames
             /\ trans # <<>> /\ trans[1].node = n /\ trans[1].frame.tid = f.tid
             /\ sent' = sent \/ sent' = [sent EXCEPT ![node[n].conn] = Append(@, f)]
             /\ UNCHANGED <<client, orphaned, ran>>
             /\ \A i \in DOMAIN trans' : \E j \in DOMAIN trans : j # 1 /\ trans'[i] = trans[j]
<1>1. Up(n) /\ node[n].tx # <<>>
  BY DEF SendWrite, SendBegin
<1>2. node[n].conn \in Conns /\ Head(node[n].tx) \in Frames
  BY <1>1, TxIs
<1>3. /\ trans # <<>> /\ trans[1].node = n /\ trans[1].frame.tid = Head(node[n].tx).tid
      /\ sent' = sent \/ sent' = [sent EXCEPT ![node[n].conn] = Append(@, Head(node[n].tx))]
      /\ UNCHANGED <<client, orphaned, ran>>
  BY DEF SendWrite, Current
<1>4. \E g : LeftAt(trans', trans, g) /\ \A m \in DOMAIN trans' : g[m] # 1
  <2> DEFINE tid == Head(node[n].tx).tid
             p == DeleteItem(SetState(trans, tid, "TRANSMITTED"), trans[1])
  <2>1. trans' = p /\ trans[1].frame.tid = tid /\ trans \in Seq(ItemSet) /\ trans # <<>>
    BY <1>3 DEF SendWrite, Types, ListTypes
  <2> HIDE DEF tid
  <2>2. \E g : LeftAt(p, trans, g) /\ \A m \in DOMAIN p : g[m] # 1
    BY <2>1, AnsweredIs
  <2> HIDE DEF p
  <2> QED
    BY <2>1, <2>2
<1>5. \A i \in DOMAIN trans' : \E j \in DOMAIN trans : j # 1 /\ trans'[i] = trans[j]
  BY <1>4 DEF LeftAt
<1> QED
  BY <1>1, <1>2, <1>3, <1>5

\* What a write adds to the responses of one client.
LEMMA WriteAdds ==
  ASSUME Types, NEW n \in Nodes, SendWrite(n), NEW k \in Conns
  PROVE  \/ sent'[k] = sent[k]
         \/ k = node[n].conn /\ sent'[k] = Append(sent[k], Head(node[n].tx))
BY WriteIs DEF Types, HistoryTypes

LEMMA RanNext ==
  ASSUME Placed, HeadOf(trans, acking, buf), RanAnswers, [Next]_vars
  PROVE  RanAnswers'
<1> USE DEF Placed
<1>1. Types' /\ ran \in [Conns -> Seq(Nat)]
  BY TypesNext DEF Types, HistoryTypes
<1>2. \A k \in Conns : \A x : Has(ran[k], x) => Has(ran'[k], x)
  <2>1. CASE PollReceive
    BY <2>1 DEF PollReceive, history
  <2>2. CASE PollExecute
    <3>1. Executes
      <4>1. evq # <<>> /\ Head(evq) = "EXECUTE"
        BY <2>2 DEF PollExecute, PollGets
      <4> QED
        BY <4>1, EvqIs DEF Executes
    <3>2. buf \in Frames /\ ran' = [ran EXCEPT ![buf.conn] = Append(@, buf.tid)]
      BY <2>2, <3>1 DEF RanAnswers, PollExecute
    <3>3. buf.conn \in Conns /\ buf.tid \in Nat /\ ran[buf.conn] \in Seq(Nat)
      BY <1>1, <3>2, FrameIs
    <3>4. \A x : Has(ran[buf.conn], x) => Has(Append(ran[buf.conn], buf.tid), x)
      BY <3>3, AppendIs
    <3> QED
      BY <1>1, <3>2, <3>3, <3>4
  <2>3. CASE ran' = ran
    BY <2>3
  <2> QED
    BY <2>1, <2>2, <2>3, PollKinds
<1>3. \A f \in Frames : Has(ran[f.conn], f.tid) => Has(ran'[f.conn], f.tid)
  BY <1>2, FrameIs
<1>4. (Executes \/ pollPc = "send" => buf \in Frames)' /\ (pollPc = "send" => Has(ran[buf.conn], buf.tid))'
  <2>1. CASE PollReceive
    <3>1. Head(trans) \in ItemSet /\ buf' = Head(trans).frame /\ pollPc' = "get"
      BY <2>1, ListIs DEF PollReceive, Readable, FirstIs, PollGets, Types
    <3> QED
      BY <3>1, ItemIs
  <2>2. CASE PollExecute
    <3>1. Executes
      <4>1. evq # <<>> /\ Head(evq) = "EXECUTE"
        BY <2>2 DEF PollExecute, PollGets
      <4> QED
        BY <4>1, EvqIs DEF Executes
    <3>2. buf \in Frames /\ ran' = [ran EXCEPT ![buf.conn] = Append(@, buf.tid)] /\ buf' = buf
      BY <2>2, <3>1 DEF RanAnswers, PollExecute
    <3>3. buf.conn \in Conns /\ buf.tid \in Nat /\ ran[buf.conn] \in Seq(Nat)
      BY <1>1, <3>2, FrameIs
    <3>4. Has(Append(ran[buf.conn], buf.tid), buf.tid)
      BY <3>3, AppendIs
    <3>5. ran'[buf.conn] = Append(ran[buf.conn], buf.tid)
      BY <1>1, <3>2, <3>3
    <3> QED
      BY <3>2, <3>4, <3>5
  <2>3. CASE /\ UNCHANGED <<buf, ran>>
             /\ pollPc' = "send" => pollPc = "send"
             /\ Executes' => Executes
    BY <2>3 DEF RanAnswers
  <2> QED
    BY <2>1, <2>2, <2>3, PollKinds
<1>5. \A n \in Nodes : Up(n) => \A f : Has(node[n].tx, f) => f \in Frames /\ Has(ran'[f.conn], f.tid)
  BY <1>3, TxIs DEF RanAnswers
<1>6. \A k \in Conns : \A f : Has(sent[k], f) => f \in Frames /\ Has(ran'[f.conn], f.tid)
  BY <1>3, TxIs DEF RanAnswers
<1>7. \A n \in Nodes : node'[n] # NoNode => \A f : Has(node'[n].tx, f) => Has(ran'[f.conn], f.tid)
  <2>1. CASE TxFewer(node, node')
    BY <1>5, <2>1 DEF TxFewer, Up
  <2>2. CASE PollSend
    <3> DEFINE n == Head(trans).node
    <3>1. /\ pollPc = "send" /\ ran' = ran /\ Up(n)
          /\ Head(trans) \in ItemSet /\ n \in Nodes
          /\ UNCHANGED node \/ node' = [node EXCEPT ![n].tx = Append(@, buf)]
      BY <2>2, ListIs, ItemIs DEF PollSend, Sendable, FirstIs, Types, history
    <3>2. buf \in Frames /\ Has(ran'[buf.conn], buf.tid)
      BY <3>1 DEF RanAnswers
    <3>3. CASE UNCHANGED node
      BY <1>5, <3>3 DEF Up
    <3>4. CASE node' = [node EXCEPT ![n].tx = Append(@, buf)]
      <4>1. node[n].tx \in Seq(Frames) /\ node[n] \in NodeOf(node[n].conn)
        BY <3>1, TxIs, SlotIs DEF Types
      <4> HIDE DEF n
      <4>2. node' = [node EXCEPT ![n] = [node[n] EXCEPT !.tx = Append(@, buf)]]
        BY <3>4
      <4>3. /\ \A m \in Nodes : m # n => node'[m] = node[m]
            /\ node'[n] = [node[n] EXCEPT !.tx = Append(@, buf)]
        BY <3>1, <4>2 DEF Types, NodeTypes
      <4>4. node'[n].tx = Append(node[n].tx, buf)
        BY <4>1, <4>3 DEF NodeOf
      <4>5. \A f : Has(Append(node[n].tx, buf), f) => Has(node[n].tx, f) \/ f = buf
        BY <3>2, <4>1, AppendIs
      <4> QED
        <5> SUFFICES ASSUME NEW m \in Nodes, node'[m] # NoNode, NEW f, Has(node'[m].tx, f)
                     PROVE  Has(ran'[f.conn], f.tid)
          OBVIOUS
        <5>1. CASE m = n
          <6>1. Has(node[n].tx, f) \/ f = buf
            BY <4>4, <4>5, <5>1
          <6> QED
            BY <1>5, <3>1, <3>2, <6>1
        <5>2. CASE m # n
          BY <1>5, <4>3, <5>2 DEF Up
        <5> QED
          BY <5>1, <5>2
    <3> QED
      BY <3>1, <3>3, <3>4
  <2> QED
    BY <2>1, <2>2, TxKinds
<1>8. \A k \in Conns : \A f : Has(sent'[k], f) => Has(ran'[f.conn], f.tid)
  <2>1. CASE sent' = sent
    BY <1>6, <2>1
  <2>2. ASSUME NEW n \in Nodes, SendWrite(n), NEW k \in Conns, NEW f, Has(sent'[k], f)
        PROVE  Has(ran'[f.conn], f.tid)
    <3>1. sent[k] \in Seq(Frames) /\ Head(node[n].tx) \in Frames /\ Up(n) /\ Has(node[n].tx, Head(node[n].tx))
      BY <2>2, TxIs, WriteIs
    <3>2. Has(sent[k], f) \/ f = Head(node[n].tx)
      <4>1. \A x : Has(Append(sent[k], Head(node[n].tx)), x) => Has(sent[k], x) \/ x = Head(node[n].tx)
        BY <3>1, AppendIs
      <4> QED
        BY <2>2, <4>1, WriteAdds
    <3> QED
      BY <1>5, <1>6, <3>1, <3>2
  <2> QED
    BY <2>1, <2>2, TxKinds
<1> QED
  BY <1>4, <1>7, <1>8 DEF RanAnswers, Up

-------------------------------------------------------------------------------
(* Responses go to the clients that have asked for them, once.             *)

\* The responses in the slots, and those written.
TxOwn(nd) == \A n \in Nodes : nd[n] # NoNode => \A f : Has(nd[n].tx, f) => f.conn = nd[n].conn
SentOwn(se) == \A k \in Conns : \A f : Has(se[k], f) => f.conn = k

\* A client has no request left that is not younger than one answered.
SentAhead(se, list, nd, cl) == \A k \in Conns : \A f : Has(se[k], f) =>
    /\ f.tid =< cl[k].asked
    /\ \A j \in DOMAIN list : list[j].frame.conn = k => f.tid < list[j].frame.tid
    /\ \A n \in Nodes : nd[n] # NoNode /\ nd[n].conn = k =>
          \A j \in DOMAIN nd[n].rx : f.tid < nd[n].rx[j].tid
SentInOrder(se) == \A k \in Conns : \A i, j \in DOMAIN se[k] : i < j => se[k][i].tid < se[k][j].tid

\* Client k has asked as far as x at least, and no request x or older waits in its slot.
Beyond(x, k, nd, cl) ==
    /\ x =< cl[k].asked
    /\ \A n \in Nodes : nd[n] # NoNode /\ nd[n].conn = k => \A j \in DOMAIN nd[n].rx : x < nd[n].rx[j].tid

LEMMA BeyondNext ==
  ASSUME Types, NEW k \in Conns, NEW x \in Nat, Beyond(x, k, node, client), [Next]_vars
  PROVE  Beyond(x, k, node', client')
<1>1. CASE Thins
  <2>1. x =< client'[k].asked
    BY <1>1 DEF Beyond, Thins, Steady
  <2>2. \A n \in Nodes : node'[n] # NoNode /\ node'[n].conn = k =>
          \A j \in DOMAIN node'[n].rx : x < node'[n].rx[j].tid
    BY <1>1 DEF Beyond, Thins, Fewer
  <2> QED
    BY <2>1, <2>2 DEF Beyond
<1>2. ASSUME NEW c \in Conns, Accept(c) PROVE Beyond(x, k, node', client')
  <2>1. PICK n \in Nodes : node' = [node EXCEPT ![n] = Opened(c)]
    BY <1>2 DEF Accept
  <2>2. node'[n].rx = <<>> /\ \A m \in Nodes : m # n => node'[m] = node[m]
    BY <2>1 DEF Types, NodeTypes, Opened
  <2>3. client'[k].asked = client[k].asked
    BY <1>2 DEF Accept, Types, ClientTypes
  <2>4. DOMAIN <<>> = {}
    OBVIOUS
  <2> QED
    BY <2>2, <2>3, <2>4 DEF Beyond
<1>3. ASSUME NEW n \in Nodes, Read(n) PROVE Beyond(x, k, node', client')
  <2> DEFINE c == node[n].conn
             f == [conn |-> c, tid |-> client[c].asked + 1]
             r == [node[n] EXCEPT !.rx = Append(@, f)]
  <2>1. /\ Up(n) /\ node' = [node EXCEPT ![n] = r]
        /\ client' = [client EXCEPT ![c].asked = f.tid]
        /\ f.tid =< Asks[c]
    BY <1>3 DEF Read, Connected
  <2>2. c \in Conns /\ node[n] \in NodeOf(c) /\ node[n].rx \in Seq(Frames)
    BY <2>1, SlotIs, NodeIs DEF Types
  <2>3. client[c].asked \in Nat /\ f.tid = client[c].asked + 1 /\ Asks[c] \in Nat
    BY <2>2, FrameIs DEF Types, ClientTypes
  <2>4. f \in Frames
    <3>1. client[c].asked + 1 \in 1..Asks[c]
      BY <2>1, <2>3
    <3> QED
      BY <2>2, <3>1, FrameIs
  <2>5. r.conn = c /\ r.rx = Append(node[n].rx, f)
    BY <2>2 DEF NodeOf
  <2>6. node'[n] = r /\ \A m \in Nodes : m # n => node'[m] = node[m]
    BY <2>1 DEF Types, NodeTypes
  <2>7. client'[c].asked = f.tid /\ \A j \in Conns : j # c => client'[j] = client[j]
    BY <2>1, <2>2 DEF Types, ClientTypes
  <2>8. \A i \in DOMAIN Append(node[n].rx, f) :
          \/ i \in DOMAIN node[n].rx /\ Append(node[n].rx, f)[i] = node[n].rx[i]
          \/ Append(node[n].rx, f)[i] = f
    BY <2>2, <2>4, AppendIs
  <2>9. k = c => x < f.tid /\ x =< f.tid
    <3>1. k = c => x =< client[c].asked
      BY DEF Beyond
    <3> HIDE DEF c, f
    <3> QED
      BY <2>3, <3>1
  <2> HIDE DEF c, f, r
  <2>10. x =< client'[k].asked
    BY <2>7, <2>9 DEF Beyond
  <2>11. ASSUME NEW m \in Nodes, node'[m] # NoNode, node'[m].conn = k, NEW j \in DOMAIN node'[m].rx
         PROVE  x < node'[m].rx[j].tid
    <3>1. CASE m # n
      BY <2>6, <2>11, <3>1 DEF Beyond
    <3>2. CASE m = n
      <4>1. k = c /\ j \in DOMAIN Append(node[n].rx, f) /\ node'[m].rx[j] = Append(node[n].rx, f)[j]
        BY <2>5, <2>6, <2>11, <3>2
      <4>2. \A i \in DOMAIN node[n].rx : x < node[n].rx[i].tid
        BY <2>1, <4>1 DEF Beyond, Up, c
      <4> QED
        BY <2>8, <2>9, <4>1, <4>2
    <3> QED
      BY <3>1, <3>2
  <2> QED
    BY <2>10, <2>11 DEF Beyond
<1>4. ASSUME NEW n \in Nodes, Takes(n) PROVE Beyond(x, k, node', client')
  <2> DEFINE nd == Popped(n)
  <2>1. Up(n) /\ node' = nd /\ client' = client
    BY <1>4 DEF Takes, RecvBegin
  <2>2. CASE node[n].rx = <<>>
    BY <2>1, <2>2 DEF Popped
  <2>3. CASE node[n].rx # <<>>
    <3>1. /\ \A m \in Nodes : m # n => nd[m] = node[m]
          /\ nd[n].conn = node[n].conn /\ nd[n].rx = Tail(node[n].rx)
          /\ \A i \in DOMAIN Tail(node[n].rx) :
               i + 1 \in DOMAIN node[n].rx /\ Tail(node[n].rx)[i] = node[n].rx[i + 1]
      BY <2>1, <2>3, PopIs
    <3> HIDE DEF nd
    <3>2. node[n].conn = k => \A j \in DOMAIN node[n].rx : x < node[n].rx[j].tid
      BY <2>1 DEF Beyond, Up
    <3>3. ASSUME NEW m \in Nodes, m # n, nd[m] # NoNode, nd[m].conn = k
          PROVE  \A j \in DOMAIN nd[m].rx : x < nd[m].rx[j].tid
      BY <3>1, <3>3 DEF Beyond
    <3>4. nd[n].conn = k => \A j \in DOMAIN nd[n].rx : x < nd[n].rx[j].tid
      BY <3>1, <3>2
    <3> QED
      BY <2>1, <3>3, <3>4 DEF Beyond
  <2> QED
    BY <2>2, <2>3
<1> QED
  BY <1>1, <1>2, <1>3, <1>4, StepKinds

\* A new transaction is one that has waited in the slot.
LEMMA EnqueuedBeyond ==
  ASSUME Types, NEW n \in Nodes, Up(n), NEW i \in DOMAIN Enqueued(n)
  PROVE  \/ i \in DOMAIN trans /\ Enqueued(n)[i] = trans[i]
         \/ /\ Enqueued(n)[i].frame.conn = node[n].conn
            /\ ~Enqueued(n)[i].old /\ Enqueued(n)[i].state = "QUEUED"
            /\ \A x \in Nat : Beyond(x, node[n].conn, node, client) => x < Enqueued(n)[i].frame.tid
<1>1. CASE node[n].rx = <<>>
  BY <1>1 DEF Enqueued
<1>2. CASE node[n].rx # <<>>
  <2> DEFINE q == Enqueued(n)
             f == Head(node[n].rx)
             e == [frame |-> f, node |-> n, state |-> "QUEUED", old |-> FALSE]
  <2>1. /\ \A j \in DOMAIN trans : q[j] = trans[j]
        /\ q[Len(trans) + 1] = e
        /\ i \in DOMAIN trans \/ i = Len(trans) + 1
        /\ f = node[n].rx[1] /\ 1 \in DOMAIN node[n].rx /\ f.conn = node[n].conn
    BY <1>2, PopIs
  <2>2. e.frame = f /\ ~e.old /\ e.state = "QUEUED"
    OBVIOUS
  <2>3. ASSUME NEW x \in Nat, Beyond(x, node[n].conn, node, client) PROVE x < f.tid
    BY <2>1, <2>3 DEF Beyond, Up
  <2> HIDE DEF q, f, e
  <2> QED
    BY <2>1, <2>2, <2>3 DEF q
<1> QED
  BY <1>1, <1>2

LEMMA AheadNext ==
  ASSUME Types, SentAhead(sent, trans, node, client), [Next]_vars
  PROVE  SentAhead(sent, trans', node', client')
<1> SUFFICES ASSUME NEW k \in Conns, NEW f, Has(sent[k], f)
             PROVE  /\ Beyond(f.tid, k, node', client')
                    /\ \A j \in DOMAIN trans' : trans'[j].frame.conn = k => f.tid < trans'[j].frame.tid
  BY DEF SentAhead, Beyond
<1>1. f.tid \in Nat /\ Beyond(f.tid, k, node, client)
  BY TxIs, FrameIs DEF SentAhead, Beyond
<1>2. Beyond(f.tid, k, node', client')
  BY <1>1, BeyondNext
<1>3. \A j \in DOMAIN trans : trans[j].frame.conn = k => f.tid < trans[j].frame.tid
  BY DEF SentAhead
<1>4. CASE Thins
  <2>1. PICK g : ThinAt(trans', trans, g)
    BY <1>4 DEF Thins, Thin
  <2>2. \A m \in DOMAIN trans' : g[m] \in DOMAIN trans /\ trans'[m].frame = trans[g[m]].frame
    BY <2>1 DEF ThinAt
  <2> QED
    BY <1>2, <1>3, <2>2
<1>5. ASSUME NEW n \in Nodes, Takes(n)
      PROVE  \A j \in DOMAIN trans' : trans'[j].frame.conn = k => f.tid < trans'[j].frame.tid
  <2> DEFINE q == Enqueued(n)
  <2>1. Up(n) /\ Thin(trans', q)
    BY <1>5 DEF Takes, RecvBegin
  <2>2. \A j \in DOMAIN q : q[j].frame.conn = k => f.tid < q[j].frame.tid
    BY <1>1, <1>3, <2>1, EnqueuedBeyond
  <2>3. PICK g : ThinAt(trans', q, g)
    BY <2>1 DEF Thin
  <2> HIDE DEF q
  <2>4. \A m \in DOMAIN trans' : g[m] \in DOMAIN q /\ trans'[m].frame = q[g[m]].frame
    BY <2>3 DEF ThinAt
  <2> QED
    BY <2>2, <2>4
<1>6. /\ \A c \in Conns : Accept(c) => trans' = trans
      /\ \A n \in Nodes : Read(n) => trans' = trans
  BY DEF Accept, Read
<1> QED
  BY <1>2, <1>3, <1>4, <1>5, <1>6, StepKinds

AnswersOwned == ~orphaned =>
    /\ TxOwn(node) /\ SentOwn(sent)
    /\ SentAhead(sent, trans, node, client) /\ SentInOrder(sent)

LEMMA TxOwnNext ==
  ASSUME Placed, HeadOf(trans, acking, buf), TxOwn(node), ~orphaned, [Next]_vars
  PROVE  TxOwn(node')
<1> USE DEF Placed
<1>1. CASE TxFewer(node, node')
  BY <1>1 DEF TxFewer, TxOwn
<1>2. CASE PollSend
  <2> DEFINE n == Head(trans).node
  <2>1. /\ Up(n) /\ Head(trans) \in ItemSet /\ n \in Nodes /\ Head(trans) = trans[1] /\ 1 \in DOMAIN trans
        /\ trans[1].state = "CONFIRMED"
        /\ UNCHANGED node \/ node' = [node EXCEPT ![n].tx = Append(@, buf)]
    BY <1>2, ListIs, ItemIs DEF PollSend, Sendable, FirstIs, Types, history
  <2>2. buf = trans[1].frame /\ buf \in Frames
    BY <2>1, ItemIs DEF HeadOf, HeadInBuf
  <2>3. buf.conn = node[n].conn
    BY <2>1, <2>2 DEF Owned, OwnSlot
  <2>4. CASE UNCHANGED node
    BY <2>4
  <2>5. CASE node' = [node EXCEPT ![n].tx = Append(@, buf)]
    <3>1. node[n].tx \in Seq(Frames) /\ node[n] \in NodeOf(node[n].conn)
      BY <2>1, TxIs, SlotIs DEF Types
    <3> HIDE DEF n
    <3>2. node' = [node EXCEPT ![n] = [node[n] EXCEPT !.tx = Append(@, buf)]]
      BY <2>5
    <3>3. /\ \A m \in Nodes : m # n => node'[m] = node[m]
          /\ node'[n] = [node[n] EXCEPT !.tx = Append(@, buf)]
      BY <2>1, <3>2 DEF Types, NodeTypes
    <3>4. node'[n].tx = Append(node[n].tx, buf) /\ node'[n].conn = node[n].conn
      BY <3>1, <3>3 DEF NodeOf
    <3>5. \A f : Has(Append(node[n].tx, buf), f) => Has(node[n].tx, f) \/ f = buf
      BY <2>2, <3>1, AppendIs
    <3> SUFFICES ASSUME NEW m \in Nodes, node'[m] # NoNode, NEW f, Has(node'[m].tx, f)
                 PROVE  f.conn = node'[m].conn
      BY DEF TxOwn
    <3>6. CASE m = n
      BY <2>1, <2>3, <3>4, <3>5, <3>6 DEF TxOwn, Up
    <3>7. CASE m # n
      BY <3>3, <3>7 DEF TxOwn
    <3> QED
      BY <3>6, <3>7
  <2> QED
    BY <2>1, <2>4, <2>5
<1> QED
  BY <1>1, <1>2, TxKinds

\* The response is that to the oldest transaction, whoever else has used its identifier.
LEMMA WritesFirst ==
  ASSUME Placed, TxOwn(node), ~orphaned, NEW n \in Nodes, SendWrite(n)
  PROVE  LET f == Head(node[n].tx)
         IN  f = trans[1].frame /\ f.conn = node[n].conn /\ 1 \in DOMAIN trans
<1> DEFINE f == Head(node[n].tx)
<1>1. /\ Up(n) /\ f \in Frames /\ Has(node[n].tx, f)
      /\ trans # <<>> /\ trans[1].node = n /\ trans[1].frame.tid = f.tid
  BY WriteIs, TxIs DEF Placed
<1>2. f.conn = node[n].conn
  BY <1>1 DEF TxOwn, Up
<1>3. 1 \in DOMAIN trans /\ trans[1].frame \in Frames
  BY <1>1, ListIs, ItemIs DEF Placed, Types
<1>4. trans[1].frame.conn = node[n].conn
  BY <1>1, <1>3 DEF Placed, Owned, OwnSlot
<1> QED
  BY <1>1, <1>2, <1>3, <1>4, FrameIs

LEMMA AnswersNext ==
  ASSUME Placed, HeadOf(trans, acking, buf), AnswersOwned, [Next]_vars
  PROVE  AnswersOwned'
<1> SUFFICES ASSUME ~orphaned'
             PROVE  /\ TxOwn(node') /\ SentOwn(sent')
                    /\ SentAhead(sent', trans', node', client') /\ SentInOrder(sent')
  BY DEF AnswersOwned
<1>1. /\ ~orphaned
      /\ TxOwn(node) /\ SentOwn(sent)
      /\ SentAhead(sent, trans, node, client) /\ SentInOrder(sent)
  BY OrphanedStays DEF AnswersOwned
<1>2. TxOwn(node')
  BY <1>1, TxOwnNext
<1>3. SentAhead(sent, trans', node', client')
  BY <1>1, AheadNext DEF Placed
<1>4. CASE sent' = sent
  BY <1>1, <1>2, <1>3, <1>4
<1>5. ASSUME NEW n \in Nodes, SendWrite(n)
      PROVE  SentOwn(sent') /\ SentAhead(sent', trans', node', client') /\ SentInOrder(sent')
  <2> DEFINE f == Head(node[n].tx)
             c == node[n].conn
  <2>1. f = trans[1].frame /\ f.conn = c /\ 1 \in DOMAIN trans
    BY <1>1, <1>5, WritesFirst
  <2>2. /\ Up(n) /\ f \in Frames /\ c \in Conns
        /\ UNCHANGED client
        /\ \A i \in DOMAIN trans' : \E j \in DOMAIN trans : j # 1 /\ trans'[i] = trans[j]
    BY <1>5, WriteIs DEF Placed
  <2>3. \A k \in Conns : sent'[k] = sent[k] \/ (k = c /\ sent'[k] = Append(sent[k], f))
    BY <1>5, WriteAdds DEF Placed
  <2>4. \A k \in Conns : sent[k] \in Seq(Frames)
    BY TxIs DEF Placed
  <2> HIDE DEF f, c
  <2>5. ASSUME NEW k \in Conns
        PROVE  \A h : Has(sent'[k], h) => Has(sent[k], h) \/ (k = c /\ h = f)
    <3>1. \A h : Has(Append(sent[k], f), h) => Has(sent[k], h) \/ h = f
      BY <2>2, <2>4, AppendIs
    <3> QED
      BY <2>3, <3>1
  <2>6. SentOwn(sent')
    BY <1>1, <2>1, <2>5 DEF SentOwn
  <2>7. /\ f.tid =< client'[c].asked
        /\ \A j \in DOMAIN trans' : trans'[j].frame.conn = c => f.tid < trans'[j].frame.tid
        /\ \A m \in Nodes : node'[m] # NoNode /\ node'[m].conn = c =>
              \A j \in DOMAIN node'[m].rx : f.tid < node'[m].rx[j].tid
    <3>1. f.tid =< client'[c].asked
      BY <2>1, <2>2 DEF Placed, InOrder, Asked
    <3>2. ASSUME NEW j \in DOMAIN trans', trans'[j].frame.conn = c PROVE f.tid < trans'[j].frame.tid
      <4>1. PICK i \in DOMAIN trans : i # 1 /\ trans'[j] = trans[i]
        BY <2>2
      <4>2. 1 < i
        BY <4>1 DEF Placed, Types, ListTypes
      <4>3. trans[1].frame.tid < trans[i].frame.tid
        BY <2>1, <3>2, <4>1, <4>2 DEF Placed, InOrder, Ordered
      <4> QED
        BY <2>1, <4>1, <4>3
    <3>3. ASSUME NEW m \in Nodes, node'[m] # NoNode, node'[m].conn = c, NEW j \in DOMAIN node'[m].rx
          PROVE  f.tid < node'[m].rx[j].tid
      <4>1. node' = [node EXCEPT ![n] = [node[n] EXCEPT !.tx = Tail(@)]]
        BY <1>5 DEF SendWrite, SendBegin
      <4>2. node[n] \in NodeOf(node[n].conn)
        BY <2>2, SlotIs DEF Placed, Types
      <4>3. node[m] # NoNode /\ node'[m].conn = node[m].conn /\ node'[m].rx = node[m].rx
        <5>1. CASE m = n
          <6>1. node'[m] = [node[n] EXCEPT !.tx = Tail(@)]
            BY <4>1, <5>1 DEF Placed, Types, NodeTypes
          <6> QED
            BY <2>2, <4>2, <5>1, <6>1 DEF NodeOf, Up
        <5>2. CASE m # n
          <6>1. node'[m] = node[m]
            BY <4>1, <5>2 DEF Placed, Types, NodeTypes
          <6> QED
            BY <3>3, <6>1
        <5> QED
          BY <5>1, <5>2
      <4> QED
        BY <2>1, <3>3, <4>3 DEF Placed, InOrder, Behind
    <3> QED
      BY <3>1, <3>2, <3>3
  <2>8. SentAhead(sent', trans', node', client')
    <3> SUFFICES ASSUME NEW k \in Conns, NEW h, Has(sent'[k], h)
                 PROVE  /\ h.tid =< client'[k].asked
                        /\ \A j \in DOMAIN trans' : trans'[j].frame.conn = k => h.tid < trans'[j].frame.tid
                        /\ \A m \in Nodes : node'[m] # NoNode /\ node'[m].conn = k =>
                              \A j \in DOMAIN node'[m].rx : h.tid < node'[m].rx[j].tid
      BY DEF SentAhead
    <3>1. CASE Has(sent[k], h)
      BY <1>3, <3>1 DEF SentAhead
    <3>2. CASE k = c /\ h = f
      BY <2>7, <3>2
    <3> QED
      BY <2>5, <3>1, <3>2
  <2>9. SentInOrder(sent')
    <3> SUFFICES ASSUME NEW k \in Conns, NEW i \in DOMAIN sent'[k], NEW j \in DOMAIN sent'[k], i < j
                 PROVE  sent'[k][i].tid < sent'[k][j].tid
      BY DEF SentInOrder
    <3>1. CASE sent'[k] = sent[k]
      BY <1>1, <3>1 DEF SentInOrder
    <3>2. CASE k = c /\ sent'[k] = Append(sent[k], f)
      <4> DEFINE q == sent[k]
                 last == Len(q) + 1
      <4>1. /\ \A x \in DOMAIN q : Append(q, f)[x] = q[x] /\ x \in Nat /\ x < last
            /\ Append(q, f)[last] = f
            /\ \A x \in DOMAIN Append(q, f) : x \in DOMAIN q \/ x = last
            /\ ~(last < last)
        <5>1. q \in Seq(Frames)
          BY <2>4
        <5> HIDE DEF q
        <5>2. /\ \A x \in DOMAIN q : Append(q, f)[x] = q[x]
              /\ Append(q, f)[last] = f
              /\ \A x \in DOMAIN Append(q, f) : x \in DOMAIN q \/ x = last
          BY <2>2, <5>1, AppendIs
        <5>3. DOMAIN q = 1..Len(q) /\ Len(q) \in Nat
          BY <5>1
        <5>4. \A x \in DOMAIN q : x \in Nat /\ x < last
          BY <5>3
        <5>5. ~(last < last)
          BY <5>3
        <5> QED
          BY <5>2, <5>4, <5>5
      <4>2. last \in Nat /\ \A x \in DOMAIN q : ~(last < x)
        <5>1. DOMAIN q = 1..Len(q) /\ Len(q) \in Nat
          BY <2>4
        <5> HIDE DEF q
        <5> QED
          BY <5>1
      <4>3. i \in DOMAIN q
        BY <3>2, <4>1, <4>2
      <4>4. CASE j = last
        <5>1. Has(q, q[i])
          BY <4>3 DEF Has
        <5>2. q[i].tid < trans[1].frame.tid
          BY <1>1, <2>1, <3>2, <5>1 DEF SentAhead
        <5> QED
          BY <2>1, <3>2, <4>1, <4>3, <4>4, <5>2
      <4>5. CASE j \in DOMAIN q
        BY <1>1, <3>2, <4>1, <4>3, <4>5 DEF SentInOrder
      <4> QED
        BY <3>2, <4>1, <4>4, <4>5
    <3> QED
      BY <2>3, <3>1, <3>2
  <2> QED
    BY <2>6, <2>8, <2>9
<1> QED
  BY <1>2, <1>4, <1>5, TxKinds DEF Placed

Answering == Placed /\ HeadOf(trans, acking, buf) /\ RanAnswers /\ AnswersOwned

LEMMA AnsweringInit == Init => Answering
<1> SUFFICES ASSUME Init PROVE Answering
  OBVIOUS
<1>1. DOMAIN <<>> = {} /\ \A f : ~Has(<<>>, f)
  BY DEF Has
<1>2. /\ trans = <<>> /\ evq = <<>> /\ pollPc = "get" /\ acking = NoItem
      /\ \A n \in Nodes : node[n] = NoNode
      /\ \A k \in Conns : sent[k] = <<>>
  BY DEF Init
<1>3. HeadOf(trans, acking, buf)
  BY <1>1, <1>2 DEF HeadOf, HeadOnly, HeadAcked, HeadInBuf
<1>4. RanAnswers
  BY <1>1, <1>2 DEF RanAnswers, Executes, Up
<1>5. AnswersOwned
  BY <1>1, <1>2 DEF AnswersOwned, TxOwn, SentOwn, SentAhead, SentInOrder
<1> QED
  BY <1>3, <1>4, <1>5, PlacedInit DEF Answering

LEMMA AnsweringNext == Answering /\ [Next]_vars => Answering'
<1> SUFFICES ASSUME Answering, [Next]_vars PROVE Answering'
  OBVIOUS
<1>1. Placed'
  BY PlacedNext DEF Answering
<1>2. HeadOf(trans, acking, buf)'
  BY HeadNext DEF Answering
<1>3. RanAnswers'
  BY RanNext DEF Answering
<1>4. AnswersOwned'
  BY AnswersNext DEF Answering
<1> QED
  BY <1>1, <1>2, <1>3, <1>4 DEF Answering

LEMMA AnsweringHolds == Spec => []Answering
BY AnsweringInit, AnsweringNext, PTL DEF Spec

\* A response goes to the client that has asked for it, although the identifiers of
\* different clients coincide and slots are used again.
THEOREM AnswersAlwaysOwn == Spec => []AnswersOwn
<1>1. Answering => AnswersOwn
  BY DEF Answering, AnswersOwned, SentOwn, AnswersOwn, ToItsOwner, Has
<1> QED
  BY <1>1, AnsweringHolds, PTL

\* No request is answered twice, a client gets its responses in order, and what is
\* answered has been executed.
THEOREM AnsweredAlwaysInOrder == Spec => []AnsweredInOrder
<1>1. Answering => AnsweredInOrder
  <2> SUFFICES ASSUME Answering, ~orphaned, NEW k \in Conns
               PROVE  /\ Increasing([i \in DOMAIN sent[k] |-> sent[k][i].tid])
                      /\ \A i \in DOMAIN sent[k] : \E j \in DOMAIN ran[k] : ran[k][j] = sent[k][i].tid
    BY DEF AnsweredInOrder
  <2>1. \A i, j \in DOMAIN sent[k] : i < j => sent[k][i].tid < sent[k][j].tid
    BY DEF Answering, AnswersOwned, SentInOrder
  <2>2. Increasing([i \in DOMAIN sent[k] |-> sent[k][i].tid])
    BY <2>1 DEF Increasing
  <2>3. ASSUME NEW i \in DOMAIN sent[k] PROVE Has(ran[k], sent[k][i].tid)
    <3>1. Has(sent[k], sent[k][i])
      BY DEF Has
    <3>2. sent[k][i].conn = k
      BY <3>1 DEF Answering, AnswersOwned, SentOwn
    <3> QED
      BY <3>1, <3>2 DEF Answering, RanAnswers
  <2> QED
    BY <2>2, <2>3 DEF Has
<1> QED
  BY <1>1, AnsweringHolds, PTL

-------------------------------------------------------------------------------
(* While all is calm, requests are executed in their order.                *)

LEMMA CalmBefore ==
  ASSUME [Next]_vars, calm'
  PROVE  calm /\ (UNCHANGED user \/ user' = "running" \/ user = "stopping")
<1>1. ASSUME NEW n \in Nodes, OnError(n) \/ OnTimeout(n) PROVE calm /\ UNCHANGED user
  BY <1>1 DEF OnError, OnTimeout, Drop
<1>2. ASSUME NEW n \in Nodes, RecvStart(n) \/ RecvPostpone(n) \/ RecvOngoing(n) PROVE UNCHANGED <<calm, user>>
  BY <1>2 DEF RecvStart, RecvPostpone, RecvOngoing, control
<1>3. ASSUME NEW n \in Nodes, \/ SendWrite(n) \/ SendLate(n) \/ SendNothing(n) \/ OnConnect(n)
                              \/ Read(n) \/ ReadBad(n) \/ ReadGone(n)
                              \/ \E e \in {"CONNECT", "RECV_DATA", "SEND_DATA", "ERROR"} : HandleGone(e, n)
      PROVE UNCHANGED <<calm, user>>
  BY <1>3 DEF SendWrite, SendLate, SendNothing, OnConnect, Read, ReadBad, ReadGone, HandleGone, control
<1>4. ASSUME NEW k \in Conns, Accept(k) \/ Refuse(k) \/ PeerGone(k) PROVE UNCHANGED <<calm, user>>
  BY <1>4 DEF Accept, Refuse, PeerGone, control
<1>5. ASSUME NEW i \in DOMAIN trans PROVE ~Expire(i)
  BY DEF Expire
<1>6. CASE OnReady \/ OnClose \/ RecvAcknowledge
  BY <1>6 DEF OnReady, OnClose, RecvAcknowledge, control
<1>7. CASE Poll
  BY <1>7 DEF Poll, PollReady, PollReceive, PollNoReceive, PollExecute, PollSend, PollNoSend,
              PollPostSent, PollSent, PollError, control
<1>8. CASE TimerExpires \/ Start \/ UNCHANGED vars
  BY <1>8 DEF TimerExpires, Start, vars, control
<1>9. ~Stop
  BY DEF Stop
<1>10. CASE Stopped
  BY <1>10 DEF Stopped
<1> QED
  BY <1>1, <1>2, <1>3, <1>4, <1>5, <1>6, <1>7, <1>8, <1>9, <1>10 DEF Next, Clients, Driver, Idle

\* A slave that was never started has no connection and nothing to do.
NotStarted == user # "running" => /\ user = "stopped" /\ ~listening /\ drvq = <<>>
                                  /\ \A n \in Nodes : ~Up(n)

LEMMA NotStartedNext ==
  ASSUME Types, NotStarted, calm', [Next]_vars
  PROVE  NotStarted'
<1> SUFFICES ASSUME user' # "running"
             PROVE  /\ user' = "stopped" /\ ~listening' /\ drvq' = <<>>
                    /\ \A n \in Nodes : node'[n] = NoNode
  BY DEF NotStarted, Up
<1>1. /\ user' = user /\ user = "stopped" /\ ~listening /\ drvq = <<>> /\ \A n \in Nodes : ~Up(n)
  BY CalmBefore DEF NotStarted
<1>2. ASSUME UNCHANGED <<listening, drvq, node>> PROVE ~listening' /\ drvq' = <<>> /\ \A n \in Nodes : node'[n] = NoNode
  BY <1>1, <1>2 DEF Up
<1>3. ASSUME NEW n \in Nodes
      PROVE  /\ ~OnError(n) /\ ~OnTimeout(n) /\ ~RecvStart(n) /\ ~RecvPostpone(n) /\ ~RecvOngoing(n)
             /\ ~SendWrite(n) /\ ~SendLate(n) /\ ~SendNothing(n) /\ ~OnConnect(n)
             /\ ~Read(n) /\ ~ReadBad(n) /\ ~ReadGone(n)
             /\ \A e \in {"CONNECT", "RECV_DATA", "SEND_DATA", "ERROR"} : ~HandleGone(e, n)
  BY <1>1 DEF OnError, OnTimeout, RecvStart, RecvPostpone, RecvOngoing, RecvBegin, SendWrite, SendLate, SendBegin,
              SendNothing, OnConnect, Read, ReadBad, ReadGone, HandleGone, Handle, Connected
<1>4. ~OnReady /\ ~OnClose /\ ~Start
  BY <1>1 DEF OnReady, OnClose, Handle, Start
<1>5. ASSUME NEW k \in Conns PROVE ~Accept(k) /\ ~Refuse(k)
  BY <1>1 DEF Accept, Refuse, Arrives
<1>6. ASSUME NEW k \in Conns, PeerGone(k) PROVE UNCHANGED <<listening, drvq, node>>
  BY <1>6 DEF PeerGone
<1>7. ASSUME NEW i \in DOMAIN trans PROVE ~Expire(i)
  BY DEF Expire
<1>8. ASSUME \/ RecvAcknowledge \/ PollReady \/ PollReceive \/ PollNoReceive \/ PollExecute \/ PollNoSend
             \/ PollPostSent \/ PollSent \/ PollError \/ TimerExpires \/ Stop \/ Stopped \/ UNCHANGED vars
      PROVE  UNCHANGED <<listening, drvq, node>>
  BY <1>8 DEF RecvAcknowledge, PollReady, PollReceive, PollNoReceive, PollExecute, PollNoSend, PollPostSent,
              PollSent, PollError, TimerExpires, Stop, Stopped, vars, slots, control
<1>9. ~PollSend
  <2> SUFFICES ASSUME PollSend PROVE FALSE
    OBVIOUS
  <2>1. trans # <<>> /\ Up(Head(trans).node) /\ Head(trans) \in ItemSet
    BY ListIs DEF PollSend, Sendable, FirstIs, Types
  <2> QED
    BY <1>1, <2>1, ItemIs
<1> QED
  BY <1>1, <1>2, <1>3, <1>4, <1>5, <1>6, <1>7, <1>8, <1>9 DEF Next, Clients, Driver, Idle, Poll

NoneOld(list) == \A i \in DOMAIN list : ~list[i].old

\* What becomes of the transactions, as long as none is too old.
LEMMA ListSteps ==
  ASSUME Types, NoneOld(trans), calm', [Next]_vars
  PROVE  \/ trans' = trans
         \/ \E n \in Nodes : Up(n) /\ acking = NoItem /\ node' = Popped(n) /\ trans' = Enqueued(n)
         \/ RecvAcknowledge
         \/ PollReceive
         \/ PollSend
         \/ PollNoSend
         \/ \E n \in Nodes : SendWrite(n) \/ SendLate(n)
         \/ \E m \in Nodes : Connected(m) /\ Drop(m)
<1>1. ASSUME NEW n \in Nodes, OnError(n) \/ OnTimeout(n)
      PROVE  trans' = trans \/ \E m \in Nodes : Connected(m) /\ Drop(m)
  BY <1>1 DEF OnError, OnTimeout, CheckedFrom
<1>2. ASSUME NEW n \in Nodes, RecvStart(n) \/ RecvPostpone(n) \/ RecvOngoing(n)
      PROVE  Up(n) /\ acking = NoItem /\ node' = Popped(n) /\ trans' = Enqueued(n)
  <2>1. RecvBegin(n)
    BY <1>2 DEF RecvStart, RecvPostpone, RecvOngoing
  <2>2. Up(n) /\ acking = NoItem /\ node' = Popped(n) /\ Enqueued(n) \in Seq(ItemSet)
    BY <2>1, RecvIs DEF RecvBegin, Handle
  <2>3. \A i \in DOMAIN Enqueued(n) : ~Enqueued(n)[i].old
    BY <2>2, EnqueuedBeyond DEF NoneOld
  <2>4. DeleteExpired(Enqueued(n)) = Enqueued(n)
    BY <2>2, <2>3, DeletesLeft
  <2> QED
    BY <1>2, <2>2, <2>4 DEF RecvStart, RecvPostpone, RecvOngoing
<1>3. ASSUME NEW n \in Nodes, \/ SendNothing(n) \/ OnConnect(n) \/ Read(n) \/ ReadBad(n) \/ ReadGone(n)
                              \/ \E e \in {"CONNECT", "RECV_DATA", "SEND_DATA", "ERROR"} : HandleGone(e, n)
      PROVE  trans' = trans
  BY <1>3 DEF SendNothing, OnConnect, Read, ReadBad, ReadGone, HandleGone
<1>4. ASSUME NEW k \in Conns, Accept(k) \/ Refuse(k) \/ PeerGone(k) PROVE trans' = trans
  BY <1>4 DEF Accept, Refuse, PeerGone
<1>5. ASSUME NEW i \in DOMAIN trans PROVE ~Expire(i)
  BY DEF Expire
<1>6. ASSUME \/ OnReady \/ OnClose \/ PollReady \/ PollExecute \/ PollPostSent \/ PollSent
             \/ PollError \/ TimerExpires \/ Start \/ Stop \/ Stopped \/ UNCHANGED vars
      PROVE  trans' = trans
  BY <1>6 DEF OnReady, OnClose, PollReady, PollExecute, PollPostSent, PollSent, PollError,
              TimerExpires, Start, Stop, Stopped, vars
<1>7. CASE PollNoReceive
  <2>1. DeleteExpired(trans) = trans
    BY DeletesLeft DEF Types, ListTypes, NoneOld
  <2> QED
    BY <1>7, <2>1 DEF PollNoReceive
<1> QED
  BY <1>1, <1>2, <1>3, <1>4, <1>5, <1>6, <1>7 DEF Next, Clients, Driver, Idle, Poll

\* Steps that take transactions out of the list.
LEMMA LeavesIs ==
  ASSUME Types,
         \/ PollNoSend
         \/ \E n \in Nodes : SendWrite(n) \/ SendLate(n)
         \/ \E m \in Nodes : Drop(m)
  PROVE  Left(trans', trans)
<1>0. trans \in Seq(ItemSet)
  BY DEF Types, ListTypes
<1>1. CASE PollNoSend
  BY <1>0, <1>1, LeftSelf, LeftTail DEF PollNoSend, FirstIs
<1>2. ASSUME NEW n \in Nodes, SendWrite(n) PROVE Left(trans', trans)
  BY <1>0, <1>2, AnsweredIs DEF SendWrite, Current, Left
<1>3. ASSUME NEW n \in Nodes, SendLate(n) PROVE Left(trans', trans)
  BY <1>0, <1>3, DeletesLeft DEF SendLate
<1>4. ASSUME NEW m \in Nodes, Drop(m) PROVE Left(trans', trans)
  BY <1>0, <1>4, DeletesLeft DEF Drop
<1> QED
  BY <1>1, <1>2, <1>3, <1>4

\* What is left of a list in which none is old.
LEMMA LeftOld ==
  ASSUME NEW p, NEW q, Left(p, q), NoneOld(q)
  PROVE  NoneOld(p)
BY DEF Left, LeftAt, NoneOld

LEMMA NoneOldNext ==
  ASSUME Types, NoneOld(trans), calm', [Next]_vars
  PROVE  NoneOld(trans')
<1>0. trans \in Seq(ItemSet) /\ \A i \in DOMAIN trans : trans[i] \in ItemSet
  BY DEF Types, ListTypes
<1>1. ASSUME NEW n \in Nodes, Up(n), trans' = Enqueued(n) PROVE NoneOld(trans')
  BY <1>1, EnqueuedBeyond DEF NoneOld
<1>2. CASE RecvAcknowledge
  <2>1. DOMAIN trans' = DOMAIN trans /\ \A i \in DOMAIN trans : trans'[i].old = trans[i].old
    BY <1>0, <1>2 DEF RecvAcknowledge, ItemSetState, ItemSet
  <2> QED
    BY <2>1 DEF NoneOld
<1>3. CASE PollReceive \/ PollSend
  <2>1. PICK s \in States : trans # <<>> /\ trans' = [trans EXCEPT ![1].state = s]
    BY <1>3 DEF PollReceive, PollSend, Readable, Sendable, FirstIs, States
  <2>2. DOMAIN trans' = DOMAIN trans /\ \A i \in DOMAIN trans : trans'[i].old = trans[i].old
    BY <1>0, <2>1 DEF ItemSet
  <2> QED
    BY <2>2 DEF NoneOld
<1>4. ASSUME \/ PollNoSend \/ \E n \in Nodes : SendWrite(n) \/ SendLate(n)
             \/ \E m \in Nodes : Connected(m) /\ Drop(m)
      PROVE  Left(trans', trans)
  BY <1>0, <1>4, LeavesIs
<1> QED
  BY <1>1, <1>2, <1>3, <1>4, LeftOld, ListSteps

\* A request waits for its execution at the head of the list.
ExecHead == Executes => /\ pollPc = "get"
                        /\ trans # <<>> /\ trans[1].state = "CONFIRMED"

\* Only the oldest transaction has a response, which waits in the slot of its connection.
TxHead(list, nd) == \A n \in Nodes : nd[n] # NoNode /\ nd[n].tx # <<>> =>
    /\ list # <<>> /\ list[1].state = "REPLIED" /\ list[1].node = n
    /\ nd[n].tx = <<list[1].frame>>

\* The oldest transaction stays while it is executed or its response waits.
LEMMA FirstStays ==
  ASSUME Types, HeadOf(trans, acking, buf), NotStarted, NoneOld(trans), calm', [Next]_vars,
         trans # <<>>, trans[1].state \in {"CONFIRMED", "REPLIED"}
  PROVE  \/ trans' # <<>> /\ trans'[1] = trans[1]
         \/ PollSend /\ trans[1].state = "CONFIRMED"
         \/ PollNoSend /\ trans[1].state = "CONFIRMED"
         \/ \E n \in Nodes : SendWrite(n) \/ SendLate(n)
         \/ \E m \in Nodes : Connected(m) /\ Drop(m) /\ user = "running" /\ (trans[1].node # m => trans' # <<>> /\ trans'[1] = trans[1])
<1>0. trans \in Seq(ItemSet) /\ 1 \in DOMAIN trans /\ Head(trans) = trans[1]
  BY ListIs DEF Types, ListTypes
<1>1. ASSUME NEW n \in Nodes, Up(n), trans' = Enqueued(n) PROVE trans' # <<>> /\ trans'[1] = trans[1]
  <2>1. CASE node[n].rx = <<>>
    BY <1>1, <2>1 DEF Enqueued
  <2>2. CASE node[n].rx # <<>>
    <3> DEFINE q == Enqueued(n)
    <3>1. q \in Seq(ItemSet) /\ q[1] = trans[1] /\ 1 \in DOMAIN q
      BY <1>0, <1>1, <2>2, PopIs
    <3> HIDE DEF q
    <3>2. q # <<>>
      BY <3>1
    <3> QED
      BY <1>1, <3>1, <3>2 DEF q
  <2> QED
    BY <2>1, <2>2
<1>2. ~RecvAcknowledge
  BY <1>0 DEF RecvAcknowledge, HeadOf, HeadAcked
<1>3. ~PollReceive
  BY <1>0 DEF PollReceive, Readable, FirstIs
<1>4. PollSend \/ PollNoSend => trans[1].state = "CONFIRMED" \/ trans' = trans
  BY <1>0 DEF PollSend, PollNoSend, Sendable, FirstIs
<1>5. ASSUME NEW m \in Nodes, Connected(m), Drop(m)
      PROVE  user = "running" /\ (trans[1].node # m => trans' # <<>> /\ trans'[1] = trans[1])
  <2>1. user = "running"
    BY <1>5 DEF NotStarted, Connected
  <2>2. ASSUME trans[1].node # m PROVE trans' # <<>> /\ trans'[1] = trans[1]
    <3> DEFINE S == {i \in DOMAIN trans : trans[i].node # m}
    <3>1. trans' = Kept(trans, S) /\ S \subseteq DOMAIN trans /\ 1 \in S
      BY <1>0, <1>5, <2>2 DEF Drop, DeleteByNode
    <3> HIDE DEF S
    <3>2. Kept(trans, S) # <<>> /\ Kept(trans, S)[1] = trans[1]
      BY <1>0, <3>1, KeptFirst
    <3> QED
      BY <3>1, <3>2
  <2> QED
    BY <2>1, <2>2
<1> QED
  BY <1>1, <1>2, <1>3, <1>4, <1>5, ListSteps

LEMMA ExecHeadNext ==
  ASSUME Types, HeadOf(trans, acking, buf), NotStarted, NoneOld(trans), TxHead(trans, node),
         ExecHead, One(evq), calm', [Next]_vars
  PROVE  ExecHead' /\ One(evq')
<1>0. evq \in Seq(PollEvents)
  BY DEF Types, QueueTypes
<1>1. CASE PollReceive
  <2>1. /\ trans # <<>> /\ trans' = [trans EXCEPT ![1].state = "CONFIRMED"] /\ trans[1].state = "ACKNOWLEDGED"
        /\ pollPc' = "get" /\ evq # <<>>
        /\ evq' = Tail(evq) \/ evq' = Append(Tail(evq), "EXECUTE")
    BY <1>1, ListIs DEF PollReceive, PollGets, Readable, FirstIs, Types
  <2>2. DOMAIN trans' = DOMAIN trans /\ 1 \in DOMAIN trans /\ trans'[1].state = "CONFIRMED"
    BY <2>1, FirstChanged DEF Types
  <2>3. trans' # <<>>
    BY <2>2
  <2>4. ~Has(evq, "EXECUTE")
    BY <2>1 DEF ExecHead, Executes
  <2>5. ~Has(Tail(evq), "EXECUTE")
    BY <2>1, <2>4, EvqIs
  <2>6. One(Tail(evq)) /\ One(Append(Tail(evq), "EXECUTE"))
    <3> DEFINE q == Tail(evq)
               e == "EXECUTE"
    <3>1. q \in Seq(PollEvents) /\ e \in PollEvents
      BY <1>0, <2>1 DEF PollEvents
    <3>2. One(q)
      BY <2>5 DEF One, Has
    <3>3. ~Has(q, "EXECUTE")
      BY <2>5
    <3> HIDE DEF q, e
    <3>4. One(Append(q, e))
      BY <3>1, <3>3, OneIs
    <3> QED
      BY <3>2, <3>4 DEF q, e
  <2> QED
    BY <2>1, <2>2, <2>3, <2>6 DEF ExecHead
<1>2. CASE PollExecute
  <2>1. evq # <<>> /\ Head(evq) = "EXECUTE" /\ evq' = Tail(evq)
    BY <1>2 DEF PollExecute, PollGets
  <2>2. One(Tail(evq)) /\ ~Has(Tail(evq), "EXECUTE")
    <3> DEFINE q == evq
               e == "EXECUTE"
    <3>1. q \in Seq(PollEvents) /\ e \in PollEvents /\ q # <<>> /\ Head(q) = "EXECUTE" /\ One(q)
      BY <1>0, <2>1 DEF PollEvents
    <3> HIDE DEF q, e
    <3>2. One(Tail(q)) /\ ~Has(Tail(q), "EXECUTE")
      BY <3>1, OneIs
    <3> QED
      BY <3>2 DEF q
  <2> QED
    BY <2>1, <2>2 DEF ExecHead, Executes
<1>3. CASE /\ pollPc = "get" => pollPc' = "get"
           /\ Executes' => Executes
           /\ One(evq) => One(evq')
  <2> SUFFICES ASSUME Executes'
               PROVE  pollPc' = "get" /\ trans' # <<>> /\ trans'[1].state = "CONFIRMED"
    BY <1>3 DEF ExecHead
  <2>1. Executes /\ pollPc = "get" /\ trans # <<>> /\ trans[1].state = "CONFIRMED" /\ pollPc' = "get"
    BY <1>3 DEF ExecHead
  <2>2. ~PollSend /\ ~PollNoSend
    BY <2>1 DEF PollSend, PollNoSend
  <2>3. ASSUME NEW n \in Nodes PROVE ~SendWrite(n) /\ ~SendLate(n)
    BY <2>1 DEF TxHead, SendWrite, SendLate, SendBegin, Up
  <2>4. ASSUME NEW m \in Nodes, Connected(m), Drop(m), user = "running" PROVE trans[1].node # m
    <3>1. ~Interrupts(m)
      BY <2>4 DEF Drop
    <3>2. 1 \in DOMAIN trans
      BY <2>1 DEF Types, ListTypes
    <3> QED
      BY <2>1, <3>1, <3>2 DEF Interrupts, Executes, Has
  <2> QED
    BY <2>1, <2>2, <2>3, <2>4, FirstStays
<1> QED
  BY <1>1, <1>2, <1>3, PollKinds

LEMMA TxHeadNext ==
  ASSUME Types, HeadOf(trans, acking, buf), NotStarted, NoneOld(trans), TxHead(trans, node),
         calm', [Next]_vars
  PROVE  TxHead(trans', node')
<1>0. \A m \in Nodes : node[m] # NoNode => node[m].tx \in Seq(Frames) /\ node[m] \in NodeOf(node[m].conn)
  BY TxIs, SlotIs DEF Types, Up
<1>1. ASSUME NEW n \in Nodes, SendWrite(n) \/ SendLate(n) PROVE TxHead(trans', node')
  <2> DEFINE r == [node[n] EXCEPT !.tx = Tail(@)]
  <2>1. Up(n) /\ node[n].tx # <<>> /\ node' = [node EXCEPT ![n] = r]
    BY <1>1 DEF SendWrite, SendLate, SendBegin
  <2>2. node[n].tx = <<trans[1].frame>> /\ trans[1].node = n
    BY <2>1 DEF TxHead, Up
  <2>3. r.tx = <<>>
    <3>1. Tail(<<trans[1].frame>>) = <<>>
      OBVIOUS
    <3> QED
      BY <1>0, <2>1, <2>2, <3>1 DEF NodeOf, Up
  <2>4. node'[n] = r /\ \A m \in Nodes : m # n => node'[m] = node[m]
    BY <2>1 DEF Types, NodeTypes
  <2> HIDE DEF r
  <2>5. \A m \in Nodes : m # n /\ node[m] # NoNode => node[m].tx = <<>>
    BY <2>2 DEF TxHead
  <2> QED
    BY <2>3, <2>4, <2>5 DEF TxHead
<1>2. CASE PollSend
  <2> DEFINE n == Head(trans).node
             r == [node[n] EXCEPT !.tx = Append(@, buf)]
  <2>1. /\ trans # <<>> /\ Head(trans) = trans[1] /\ trans[1].state = "CONFIRMED"
        /\ Up(n) /\ n \in Nodes /\ 1 \in DOMAIN trans
        /\ trans' = [trans EXCEPT ![1].state = "REPLIED"]
        /\ UNCHANGED node \/ node' = [node EXCEPT ![n] = r]
    BY <1>2, ListIs, ItemIs DEF PollSend, Sendable, FirstIs, Types
  <2>2. /\ DOMAIN trans' = DOMAIN trans /\ trans'[1].state = "REPLIED"
        /\ trans'[1].frame = trans[1].frame /\ trans'[1].node = trans[1].node
    BY <2>1, FirstChanged DEF Types
  <2>3. trans' # <<>>
    BY <2>1, <2>2
  <2>4. \A m \in Nodes : node[m] # NoNode => node[m].tx = <<>>
    BY <2>1 DEF TxHead
  <2>5. buf = trans[1].frame
    BY <2>1 DEF HeadOf, HeadInBuf
  <2>6. CASE UNCHANGED node
    BY <2>4, <2>6 DEF TxHead
  <2>7. CASE node' = [node EXCEPT ![n] = r]
    <3>1. r.tx = <<buf>>
      <4>1. Append(<<>>, buf) = <<buf>>
        OBVIOUS
      <4> QED
        BY <1>0, <2>1, <2>4, <4>1 DEF NodeOf, Up
    <3>2. n = trans[1].node
      BY <2>1
    <3> HIDE DEF r, n
    <3>3. node'[n] = r /\ \A m \in Nodes : m # n => node'[m] = node[m]
      BY <2>1, <2>7 DEF Types, NodeTypes
    <3> SUFFICES ASSUME NEW m \in Nodes, node'[m] # NoNode, node'[m].tx # <<>>
                 PROVE  /\ trans' # <<>> /\ trans'[1].state = "REPLIED" /\ trans'[1].node = m
                        /\ node'[m].tx = <<trans'[1].frame>>
      BY DEF TxHead
    <3>4. m = n
      BY <2>4, <3>3
    <3>5. node'[m].tx = <<trans'[1].frame>>
      BY <2>2, <2>5, <3>1, <3>3, <3>4
    <3> QED
      BY <2>2, <2>3, <3>2, <3>4, <3>5
  <2> QED
    BY <2>1, <2>6, <2>7
<1>3. ASSUME TxKept(node, node'), ~PollSend, \A n \in Nodes : ~SendWrite(n) /\ ~SendLate(n)
      PROVE  TxHead(trans', node')
  <2> SUFFICES ASSUME NEW m \in Nodes, node'[m] # NoNode, node'[m].tx # <<>>
               PROVE  /\ trans' # <<>> /\ trans'[1].state = "REPLIED" /\ trans'[1].node = m
                      /\ node'[m].tx = <<trans'[1].frame>>
    BY DEF TxHead
  <2>1. node[m] # NoNode /\ node'[m].tx = node[m].tx
    BY <1>3 DEF TxKept
  <2>2. /\ trans # <<>> /\ trans[1].state = "REPLIED" /\ trans[1].node = m
        /\ node[m].tx = <<trans[1].frame>>
    BY <2>1 DEF TxHead
  <2>3. trans' # <<>> /\ trans'[1] = trans[1]
    <3>1. ASSUME NEW n \in Nodes, Drop(n) PROVE trans[1].node # n
      BY <2>2, <3>1 DEF Drop, Types, NodeTypes
    <3> QED
      BY <1>3, <2>2, <3>1, FirstStays
  <2> QED
    BY <2>1, <2>2, <2>3
<1> QED
  BY <1>1, <1>2, <1>3, TxSteps

\* What a client had executed is older than all that waits, and than all of its
\* transactions while one is to be executed.
Waits(e) == e.state \in {"QUEUED", "ACKNOWLEDGED"} \/ Executes

RanBehind == \A k \in Conns : \A x : Has(ran[k], x) =>
    /\ Beyond(x, k, node, client)
    /\ \A i \in DOMAIN trans : trans[i].frame.conn = k /\ Waits(trans[i]) => x < trans[i].frame.tid

RanIncreases == \A k \in Conns : Increasing(ran[k])

LEMMA RanIs ==
  ASSUME Types
  PROVE  \A k \in Conns : ran[k] \in Seq(Nat) /\ \A x : Has(ran[k], x) => x \in Nat
BY DEF Types, HistoryTypes, Has

\* Nothing is executed.
LEMMA BehindKept ==
  ASSUME Types, HeadOf(trans, acking, buf), NoneOld(trans), RanBehind, calm', [Next]_vars,
         ran' = ran, PollReceive \/ (Executes' => Executes), pollPc = "get" \/ ~Executes
  PROVE  RanBehind'
<1>0. trans \in Seq(ItemSet) /\ \A i \in DOMAIN trans : trans[i] \in ItemSet
  BY DEF Types, ListTypes
<1> SUFFICES ASSUME NEW k \in Conns, NEW x, Has(ran[k], x)
             PROVE  /\ Beyond(x, k, node', client')
                    /\ \A i \in DOMAIN trans' :
                          trans'[i].frame.conn = k /\ Waits(trans[i])' => x < trans'[i].frame.tid
  BY DEF RanBehind
<1>1. x \in Nat /\ Beyond(x, k, node, client)
  BY RanIs DEF RanBehind
<1>2. Beyond(x, k, node', client')
  BY <1>1, BeyondNext
<1>3. \A i \in DOMAIN trans : trans[i].frame.conn = k /\ Waits(trans[i]) => x < trans[i].frame.tid
  BY DEF RanBehind
<1> SUFFICES ASSUME NEW i \in DOMAIN trans', trans'[i].frame.conn = k, Waits(trans[i])'
             PROVE  x < trans'[i].frame.tid
  BY <1>2
<1>4. CASE PollReceive
  <2>1. trans # <<>> /\ trans[1].state = "ACKNOWLEDGED" /\ trans' = [trans EXCEPT ![1].state = "CONFIRMED"]
    BY <1>4, ListIs DEF PollReceive, Readable, FirstIs, Types
  <2>2. /\ DOMAIN trans' = DOMAIN trans /\ trans'[1].frame = trans[1].frame
        /\ \A j \in DOMAIN trans : j # 1 => trans'[j] = trans[j]
    BY <2>1, FirstChanged DEF Types
  <2>3. \A j \in DOMAIN trans : Waits(trans[j])
    BY <2>1 DEF HeadOf, HeadOnly, Waits
  <2> QED
    BY <1>3, <2>2, <2>3
<1>5. ASSUME Executes' => Executes, NEW j \in DOMAIN trans, trans'[i] = trans[j]
      PROVE  x < trans'[i].frame.tid
  BY <1>3, <1>5 DEF Waits
<1>6. ASSUME Executes' => Executes, Left(trans', trans) PROVE x < trans'[i].frame.tid
  BY <1>5, <1>6 DEF Left, LeftAt
<1>7. ASSUME Executes' => Executes, NEW n \in Nodes, Up(n), trans' = Enqueued(n) PROVE x < trans'[i].frame.tid
  <2>1. CASE i \in DOMAIN trans /\ trans'[i] = trans[i]
    BY <1>5, <1>7, <2>1
  <2>2. CASE /\ trans'[i].frame.conn = node[n].conn
             /\ Beyond(x, node[n].conn, node, client) => x < trans'[i].frame.tid
    BY <1>1, <2>2
  <2> QED
    BY <1>1, <1>7, <2>1, <2>2, EnqueuedBeyond
<1>8. CASE RecvAcknowledge
  <2>1. DOMAIN trans' = DOMAIN trans /\ \A j \in DOMAIN trans : trans'[j].frame = trans[j].frame
    BY <1>0, <1>8 DEF RecvAcknowledge, ItemSetState, ItemSet
  <2>2. \A j \in DOMAIN trans : Waits(trans[j])
    BY <1>8 DEF RecvAcknowledge, HeadOf, HeadAcked, Waits
  <2> QED
    BY <1>3, <2>1, <2>2
<1>9. ASSUME Executes' => Executes, PollSend PROVE x < trans'[i].frame.tid
  <2>1. trans # <<>> /\ trans' = [trans EXCEPT ![1].state = "REPLIED"]
    BY <1>9 DEF PollSend, Sendable, FirstIs
  <2>2. /\ DOMAIN trans' = DOMAIN trans /\ trans'[1].state = "REPLIED"
        /\ \A j \in DOMAIN trans : j # 1 => trans'[j] = trans[j]
    BY <2>1, FirstChanged DEF Types
  <2>3. ~Executes'
    BY <1>9 DEF PollSend
  <2>4. i # 1
    BY <2>2, <2>3 DEF Waits
  <2> QED
    BY <1>5, <1>9, <2>2, <2>4
<1>10. ASSUME \/ PollNoSend \/ \E n \in Nodes : SendWrite(n) \/ SendLate(n)
              \/ \E m \in Nodes : Connected(m) /\ Drop(m)
       PROVE  Left(trans', trans)
  BY <1>10, LeavesIs
<1>11. CASE Executes' => Executes
  <2>1. ASSUME trans' = trans PROVE x < trans'[i].frame.tid
    BY <1>5, <1>11, <2>1
  <2> QED
    BY <1>4, <1>6, <1>7, <1>8, <1>9, <1>10, <1>11, <2>1, ListSteps
<1> QED
  BY <1>4, <1>11

\* A request is executed.
LEMMA BehindRuns ==
  ASSUME Placed, HeadOf(trans, acking, buf), ExecHead, One(evq), RanBehind, RanIncreases, PollExecute
  PROVE  RanBehind' /\ RanIncreases'
<1> USE DEF Placed
<1> DEFINE c == buf.conn
           t == buf.tid
           q == ran[c]
<1>1. /\ evq # <<>> /\ Head(evq) = "EXECUTE" /\ evq' = Tail(evq) /\ evq \in Seq(PollEvents)
      /\ UNCHANGED <<client, node, trans>>
      /\ ran' = [ran EXCEPT ![c] = Append(@, t)]
  BY DEF PollExecute, PollGets, slots, Types, QueueTypes
<1>2. Executes
  BY <1>1, EvqIs DEF Executes
<1>3. ~Executes'
  <2> DEFINE p == evq
             e == "EXECUTE"
  <2>1. p \in Seq(PollEvents) /\ e \in PollEvents /\ p # <<>> /\ Head(p) = "EXECUTE" /\ One(p)
    BY <1>1 DEF PollEvents
  <2> HIDE DEF p, e
  <2>2. ~Has(Tail(p), "EXECUTE")
    BY <2>1, OneIs
  <2> QED
    BY <1>1, <2>2 DEF p, Executes
<1>4. /\ 1 \in DOMAIN trans /\ trans[1] \in ItemSet /\ trans[1].state = "CONFIRMED" /\ buf = trans[1].frame
  BY <1>2, ListIs DEF ExecHead, HeadOf, HeadInBuf, Types
<1>5. c \in Conns /\ t \in Nat /\ q \in Seq(Nat) /\ buf \in Frames
  BY <1>4, ItemIs, RanIs
<1>6. ran'[c] = Append(q, t) /\ \A k \in Conns : k # c => ran'[k] = ran[k]
  BY <1>1, <1>5 DEF Types, HistoryTypes
<1>7. \A x : Has(q, x) => x < t
  BY <1>2, <1>4, <1>5 DEF RanBehind, Waits
<1>8. /\ Beyond(t, c, node, client)
      /\ \A i \in DOMAIN trans : i # 1 /\ trans[i].frame.conn = c => t < trans[i].frame.tid
  <2>1. t =< client[c].asked
    BY <1>4 DEF InOrder, Asked
  <2>2. \A n \in Nodes : node[n] # NoNode /\ node[n].conn = c => \A j \in DOMAIN node[n].rx : t < node[n].rx[j].tid
    BY <1>4 DEF InOrder, Behind
  <2>3. \A i \in DOMAIN trans : i # 1 => 1 < i
    BY DEF Types, ListTypes
  <2>4. \A i \in DOMAIN trans : i # 1 /\ trans[i].frame.conn = c => t < trans[i].frame.tid
    BY <1>4, <2>3 DEF InOrder, Ordered
  <2> QED
    BY <2>1, <2>2, <2>4 DEF Beyond
<1>9. \A x : Has(Append(q, t), x) <=> Has(q, x) \/ x = t
  BY <1>5, AppendIs
<1> HIDE DEF c, t
<1>10. RanBehind'
  <2> SUFFICES ASSUME NEW k \in Conns, NEW x, Has(ran'[k], x)
               PROVE  /\ Beyond(x, k, node, client)
                      /\ \A i \in DOMAIN trans :
                           trans[i].frame.conn = k /\ trans[i].state \in {"QUEUED", "ACKNOWLEDGED"} => x < trans[i].frame.tid
    BY <1>1, <1>3 DEF RanBehind, Waits
  <2>1. CASE Has(ran[k], x)
    BY <2>1 DEF RanBehind, Waits
  <2>2. CASE k = c /\ x = t
    <3>1. trans[1].state \notin {"QUEUED", "ACKNOWLEDGED"}
      BY <1>4
    <3> QED
      BY <1>8, <2>2, <3>1
  <2> QED
    BY <1>6, <1>9, <2>1, <2>2
<1>11. RanIncreases'
  <2>1. Increasing(Append(q, t))
    <3> DEFINE last == Len(q) + 1
    <3>1. /\ \A i \in DOMAIN q : Append(q, t)[i] = q[i] /\ Has(q, q[i])
          /\ Append(q, t)[last] = t
          /\ \A i \in DOMAIN Append(q, t) : i \in DOMAIN q \/ i = last
      BY <1>5, AppendIs DEF Has
    <3>2. Increasing(q)
      BY <1>5 DEF RanIncreases
    <3>3. ~(last < last) /\ \A i \in DOMAIN q : ~(last < i)
      <4>1. DOMAIN q = 1..Len(q) /\ Len(q) \in Nat
        BY <1>5
      <4> HIDE DEF q
      <4> QED
        BY <4>1
    <3> HIDE DEF q, last
    <3> SUFFICES ASSUME NEW i \in DOMAIN Append(q, t), NEW j \in DOMAIN Append(q, t), i < j
                 PROVE  Append(q, t)[i] < Append(q, t)[j]
      BY DEF Increasing
    <3>4. i \in DOMAIN q
      BY <3>1, <3>3
    <3>5. CASE j = last
      BY <1>7, <3>1, <3>4, <3>5 DEF q
    <3>6. CASE j \in DOMAIN q
      BY <3>1, <3>2, <3>4, <3>6 DEF Increasing
    <3> QED
      BY <3>1, <3>5, <3>6
  <2> QED
    BY <1>6, <2>1 DEF RanIncreases
<1> QED
  BY <1>10, <1>11

Calm == calm => /\ NotStarted /\ NoneOld(trans)
                /\ One(evq) /\ ExecHead /\ TxHead(trans, node)
                /\ RanBehind /\ RanIncreases

LEMMA CalmInit == Init => Calm
<1> SUFFICES ASSUME Init PROVE Calm
  OBVIOUS
<1>1. /\ user = "stopped" /\ ~listening /\ drvq = <<>> /\ trans = <<>> /\ evq = <<>>
      /\ \A n \in Nodes : node[n] = NoNode
      /\ \A k \in Conns : ran[k] = <<>>
  BY DEF Init
<1>2. DOMAIN <<>> = {} /\ \A x : ~Has(<<>>, x)
  BY DEF Has
<1> QED
  BY <1>1, <1>2 DEF Calm, NotStarted, NoneOld, One, ExecHead, Executes, TxHead, RanBehind, RanIncreases,
                    Increasing, Up

LEMMA CalmNext ==
  ASSUME Answering, Calm, [Next]_vars
  PROVE  Calm'
<1> SUFFICES ASSUME calm'
             PROVE  /\ NotStarted' /\ NoneOld(trans')
                    /\ One(evq') /\ ExecHead' /\ TxHead(trans', node')
                    /\ RanBehind' /\ RanIncreases'
  BY DEF Calm
<1>1. /\ Placed /\ Types /\ HeadOf(trans, acking, buf)
      /\ NotStarted /\ NoneOld(trans)
      /\ One(evq) /\ ExecHead /\ TxHead(trans, node)
      /\ RanBehind /\ RanIncreases
  BY CalmBefore DEF Calm, Answering, Placed
<1>2. NotStarted' /\ NoneOld(trans') /\ One(evq') /\ ExecHead' /\ TxHead(trans', node')
  BY <1>1, NotStartedNext, NoneOldNext, ExecHeadNext, TxHeadNext
<1>3. CASE PollExecute
  BY <1>1, <1>2, <1>3, BehindRuns
<1>4. CASE ran' = ran /\ (PollReceive \/ (Executes' => Executes))
  <2>1. RanBehind'
    BY <1>1, <1>4, BehindKept DEF ExecHead
  <2> QED
    BY <1>1, <1>2, <1>4, <2>1 DEF RanIncreases
<1>5. PollReceive => ran' = ran
  BY DEF PollReceive, history
<1> QED
  BY <1>1, <1>3, <1>4, <1>5, PollKinds

\* No request is executed twice, and none before an earlier one of its client, as long
\* as no transaction gets too old and the slave is not stopped.
THEOREM ExecutesAlwaysInOrder == Spec => []ExecutedInOrder
<1>1. Answering /\ Calm => ExecutedInOrder
  BY DEF Calm, RanIncreases, ExecutedInOrder
<1>2. Init => Answering /\ Calm
  BY AnsweringInit, CalmInit
<1>3. Answering /\ Calm /\ [Next]_vars => Answering' /\ Calm'
  BY AnsweringNext, CalmNext
<1> QED
  BY <1>1, <1>2, <1>3, PTL DEF Spec

-------------------------------------------------------------------------------
(* Whoever holds the resource is on the way to giving it back.             *)

\* An error is dealt with by the event that was posted with it.
ErrOnWay == errType # "INIT" => Has(evq, "ERROR")

LEMMA DrivenNext ==
  ASSUME ~UidEnabled, Types, ErrOnWay, HeldIsDriven, [Next]_vars
  PROVE  ErrOnWay' /\ HeldIsDriven'
<1> DEFINE Goal == ErrOnWay' /\ HeldIsDriven'
<1>1. /\ \A e \in PollEvents : \A x : Has(Append(evq, e), x) <=> Has(evq, x) \/ x = e
      /\ evq # <<>> => /\ \A x : Has(evq, x) <=> Has(Tail(evq), x) \/ x = Head(evq)
                       /\ \A e \in PollEvents : \A x : Has(Append(Tail(evq), e), x) <=> Has(Tail(evq), x) \/ x = e
  BY EvqIs
<1>2. ASSUME UNCHANGED <<res, evq, errType, pollPc>>, user' = user \/ user' # "running" PROVE Goal
  BY <1>2 DEF ErrOnWay, HeldIsDriven
\* An event is posted.
<1>3. ASSUME NEW e \in PollEvents, evq' = Append(evq, e),
             errType' = errType \/ errType' = "INIT" \/ e = "ERROR"
      PROVE  Goal
  <2>1. Has(evq', e) /\ (Has(evq, "ERROR") => Has(evq', "ERROR"))
    BY <1>1, <1>3
  <2>2. evq' # <<>>
    BY <2>1 DEF Has
  <2> QED
    BY <1>3, <2>1, <2>2 DEF ErrOnWay, HeldIsDriven
\* An event is taken, and another one posted.
<1>4. ASSUME evq # <<>>, NEW e \in PollEvents, evq' = Append(Tail(evq), e), Head(evq) # "ERROR",
             errType' = errType \/ e = "ERROR"
      PROVE  Goal
  <2>1. Has(evq', e) /\ (Has(evq, "ERROR") => Has(evq', "ERROR"))
    BY <1>1, <1>4
  <2>2. evq' # <<>>
    BY <2>1 DEF Has
  <2> QED
    BY <1>4, <2>1, <2>2 DEF ErrOnWay, HeldIsDriven
\* An event is taken.
<1>5. ASSUME evq # <<>>, evq' = Tail(evq), Head(evq) # "ERROR", UNCHANGED errType,
             \/ res' = TRUE
             \/ pollPc' # "get"
             \/ errType # "INIT"
      PROVE  Goal
  <2>1. Has(evq, "ERROR") => Has(evq', "ERROR")
    BY <1>1, <1>5
  <2>2. Has(evq', "ERROR") => evq' # <<>>
    BY DEF Has
  <2> QED
    BY <1>5, <2>1, <2>2 DEF ErrOnWay, HeldIsDriven
<1>6. ASSUME NEW n \in Nodes, OnError(n) \/ OnTimeout(n) PROVE Goal
  BY <1>2, <1>6 DEF OnError, OnTimeout, fsm
<1>7. ASSUME NEW n \in Nodes, RecvStart(n) PROVE Goal
  BY <1>3, <1>7 DEF RecvStart, PollEvents
<1>8. ASSUME NEW n \in Nodes, RecvPostpone(n) \/ RecvOngoing(n) PROVE Goal
  BY <1>2, <1>8 DEF RecvPostpone, RecvOngoing, fsm, control
<1>9. ASSUME NEW n \in Nodes, \/ SendWrite(n) \/ SendLate(n) \/ SendNothing(n) \/ OnConnect(n)
                              \/ Read(n) \/ ReadGone(n)
                              \/ \E e \in {"CONNECT", "RECV_DATA", "SEND_DATA", "ERROR"} : HandleGone(e, n)
      PROVE  Goal
  BY <1>2, <1>9 DEF SendWrite, SendLate, SendNothing, OnConnect, Read, ReadGone, HandleGone, fsm, control
<1>10. ASSUME NEW n \in Nodes, ReadBad(n) PROVE Goal
  BY <1>3, <1>10 DEF ReadBad, PollEvents
<1>11. ASSUME NEW k \in Conns, Accept(k) \/ Refuse(k) \/ PeerGone(k) PROVE Goal
  BY <1>2, <1>11 DEF Accept, Refuse, PeerGone, fsm, control
<1>12. ASSUME NEW i \in DOMAIN trans, Expire(i) PROVE Goal
  BY <1>2, <1>12 DEF Expire, fsm
<1>13. CASE OnReady
  <2>1. UNCHANGED <<res, errType, pollPc, user>> /\ (UNCHANGED evq \/ evq' = Append(evq, "READY"))
    BY <1>13 DEF OnReady
  <2> QED
    BY <1>2, <1>3, <2>1 DEF PollEvents
<1>14. CASE OnClose \/ RecvAcknowledge \/ Stop \/ UNCHANGED vars
  BY <1>2, <1>14 DEF OnClose, RecvAcknowledge, Stop, vars, fsm, control
<1>15. CASE Stopped
  BY <1>2, <1>15 DEF Stopped
<1>16. CASE TimerExpires \/ Start \/ PollPostSent \/ PollNoSend
  BY <1>3, <1>16 DEF TimerExpires, Start, PollPostSent, PollNoSend, PollEvents
<1>17. CASE PollReady \/ PollExecute
  BY <1>5, <1>17 DEF PollReady, PollExecute, PollGets
<1>18. CASE PollReceive \/ PollNoReceive
  BY <1>4, <1>18 DEF PollReceive, PollNoReceive, PollGets, PollEvents
<1>19. CASE PollSend
  <2>1. UNCHANGED <<evq, errType>> /\ pollPc' = "sent"
    BY <1>19 DEF PollSend
  <2> QED
    BY <2>1 DEF ErrOnWay, HeldIsDriven
<1>20. CASE PollSent
  BY <1>4, <1>5, <1>20 DEF PollSent, PollGets, PollEvents
<1>21. CASE PollError
  BY <1>21 DEF PollError, ErrOnWay, HeldIsDriven
<1> QED
  BY <1>6, <1>7, <1>8, <1>9, <1>10, <1>11, <1>12, <1>13, <1>14, <1>15, <1>16, <1>17, <1>18, <1>19,
     <1>20, <1>21
  DEF Next, Clients, Driver, Idle, Poll

\* While the resource is taken, an event is on its way or a handler is running: unless
\* the slave looks at unit identifiers, where a request for another unit keeps it.
THEOREM HeldAlwaysDriven ==
  ASSUME ~UidEnabled
  PROVE  Spec => []HeldIsDriven
<1> DEFINE I == Types /\ ErrOnWay /\ HeldIsDriven
<1>1. Init => I
  BY InitTypes DEF Init, ErrOnWay, HeldIsDriven
<1>2. I /\ [Next]_vars => I'
  BY TypesNext, DrivenNext
<1> QED
  BY <1>1, <1>2, PTL DEF Spec

================================================================================
