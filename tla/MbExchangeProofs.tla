--------------------------- MODULE MbExchangeProofs ---------------------------
(***************************************************************************)
(* What MbExchange promises, for every list of areas, data dictionary,     *)
(* set of frames of other masters, and every bound on requests, faults and *)
(* the queue.                                                              *)
(*                                                                         *)
(* The first half are facts about the operators.  The areas of a slave,    *)
(* which a registration puts in front of a list and a callback searches    *)
(* for the first that holds a range, are one map from registers to values, *)
(* MapOf, and a callback reads or changes the entries of its range and no  *)
(* others; a handler of the protocol leads to the callbacks its request    *)
(* names; and the byte orders are their own inverses, so that a value is   *)
(* laid out by the setters as the getters read it.                         *)
(*                                                                         *)
(* The second half are the invariants of the steps.  Control says where a  *)
(* request, a call and the slave can be, Laid that areas stay apart,       *)
(* AllRegular that no request is one the slave mistakes, Noticed where the *)
(* notice of a write is until the application takes it, Numbered and Asked *)
(* whose request the slave is at and what it carries, and HeldIs what the  *)
(* registers held when it was done.                                        *)
(***************************************************************************)
EXTENDS MbExchange, SequenceTheorems, TLAPS

-------------------------------------------------------------------------------
(* What the theorems leave out, by the number of the divergence in the     *)
(* README.                                                                 *)

\* No read-and-write that is too short, which is answered by itself (15), ...
Complete(rq) == rq.fn = "RwHoldings" => rq.fits

\* ... and no request for 256 registers or more, whose count a slave misreads (2)
Regular(rq) ==
  /\ rq.fn = "ReadHolding" => rq.cnt < ByteTop
  /\ Complete(rq)

-------------------------------------------------------------------------------
(* The callbacks a request leads to.                                       *)

\* cb writes what rq has to write, or reads what it has to read.
WritesFor(cb, rq) ==
  /\ rq.fn \in Writers
  /\ cb = Callback(TypeOf(rq), "WRITE", rq.waddr, rq.wcnt, rq.data)
  /\ rq.wcnt \in Nat \ {0} /\ rq.waddr \in Nat
  /\ rq.data \in [1..rq.wcnt -> CellOf(TypeOf(rq))]

ReadsFor(cb, rq) ==
  /\ rq.fn \in Readers
  /\ cb = Callback(TypeOf(rq), "READ", rq.addr, cb.n, <<>>)
  /\ cb.n \in Nat \ {0} /\ rq.addr \in Nat
  /\ Regular(rq) => cb.n = rq.cnt

\* What a handler leaves to do: to write, to write and then to read, or to read.
Plan(calls, rq) ==
  \/ \E w : calls = <<w>> /\ WritesFor(w, rq) /\ rq.fn \notin Readers
  \/ \E w, r : calls = <<w, r>> /\ WritesFor(w, rq) /\ ReadsFor(r, rq)
  \/ \E r : calls = <<r>> /\ ReadsFor(r, rq) /\ rq.fn \notin Writers

\* A handler refuses a request, or it makes the callbacks the request names.
LEMMA HandlerPlans ==
  ASSUME NEW rq, IsFrame(rq)
  PROVE  LET h == SlaveHandler(rq)
         IN  \/ h.calls = <<>> /\ (Complete(rq) => h.ex # "NONE")
             \/ Plan(h.calls, rq)
<1> DEFINE h == SlaveHandler(rq)
<1>1. /\ rq.fn \in Readers \cup Writers \cup {"Unknown"} /\ rq.addr \in Nat /\ rq.cnt \in Nat
      /\ rq.waddr \in Nat /\ rq.wcnt \in Nat /\ rq.fits \in BOOLEAN
      /\ rq.fn # "RwHoldings" => rq.waddr = rq.addr /\ rq.wcnt = rq.cnt
      /\ rq.fn \in {"WriteCoil", "WriteHolding"} => rq.wcnt = 1
      /\ rq.fn \in Writers =>
          rq.data \in [1..rq.wcnt -> IF rq.fn = "WriteCoil" THEN {<<b>> : b \in Byte}
                                     ELSE CellOf(TypeOf(rq))]
  BY DEF IsFrame
<1>2. CASE rq.fn \in {"ReadCoils", "ReadDiscrete", "ReadInput"}
  <2> DEFINE r == Callback(TypeOf(rq), "READ", rq.addr, rq.cnt, <<>>)
  <2>1. h = Refuse("ILLEGAL_DATA_VALUE") \/ (h = Perform(<<r>>) /\ rq.cnt \in Nat \ {0})
    BY <1>1, <1>2 DEF SlaveHandler, SlaveReadCoils, SlaveReadDiscrete, SlaveReadInput, TypeOf
  <2>2. r.n = rq.cnt
    BY DEF Callback
  <2>3. rq.cnt \in Nat \ {0} => ReadsFor(r, rq)
    BY <1>1, <1>2, <2>2 DEF ReadsFor, Readers
  <2>4. rq.fn \notin Writers
    BY <1>2 DEF Writers
  <2> HIDE DEF h, r
  <2> QED
    BY <2>1, <2>3, <2>4 DEF Plan, Refuse, Perform, h
<1>3. CASE rq.fn = "ReadHolding"
  <2> DEFINE c == rq.cnt % ByteTop
             r == Callback(TypeOf(rq), "READ", rq.addr, c, <<>>)
  <2>1. h = Refuse("ILLEGAL_DATA_VALUE") \/ (h = Perform(<<r>>) /\ c \in Nat \ {0})
    BY <1>1, <1>3 DEF SlaveHandler, SlaveReadHolding, TypeOf
  <2>2. r.n = c /\ (rq.cnt < ByteTop => c = rq.cnt)
    BY <1>1 DEF Callback, ByteTop
  <2>3. c \in Nat \ {0} => ReadsFor(r, rq)
    BY <1>1, <1>3, <2>2 DEF ReadsFor, Readers, Regular
  <2>4. rq.fn \notin Writers
    BY <1>3 DEF Writers
  <2> HIDE DEF h, r
  <2> QED
    BY <2>1, <2>3, <2>4 DEF Plan, Refuse, Perform, h
<1>4. CASE rq.fn \in {"WriteCoil", "WriteCoils", "WriteHolding", "WriteHoldings"}
  <2> DEFINE w == Callback(TypeOf(rq), "WRITE", rq.waddr, rq.wcnt, rq.data)
  <2>1. \/ h = Refuse("ILLEGAL_DATA_VALUE")
        \/ h = Perform(<<w>>) /\ rq.wcnt \in Nat \ {0} /\ (rq.fn = "WriteCoil" => rq.data[1] \in Bits)
    BY <1>1, <1>4 DEF SlaveHandler, SlaveWriteCoil, SlaveWriteCoils, SlaveWriteHolding,
                      SlaveWriteHoldings, TypeOf
  <2>2. (rq.fn = "WriteCoil" => rq.data[1] \in Bits) => rq.data \in [1..rq.wcnt -> CellOf(TypeOf(rq))]
    <3>1. CASE rq.fn = "WriteCoil"
      <4>1. CellOf(TypeOf(rq)) = Bits
        BY <3>1 DEF CellOf, TypeOf, RegisterTypes
      <4>2. rq.data \in [1..1 -> {<<b>> : b \in Byte}] /\ rq.wcnt = 1
        BY <1>1, <3>1 DEF Writers
      <4>3. rq.data[1] \in Bits => rq.data \in [1..1 -> Bits]
        BY <4>2
      <4> QED
        BY <4>1, <4>2, <4>3, <3>1
    <3>2. CASE rq.fn # "WriteCoil"
      BY <1>1, <1>4, <3>2 DEF Writers
    <3> QED
      BY <3>1, <3>2
  <2>3. rq.wcnt \in Nat \ {0} /\ (rq.fn = "WriteCoil" => rq.data[1] \in Bits) => WritesFor(w, rq)
    BY <1>1, <1>4, <2>2 DEF WritesFor, Writers
  <2>4. rq.fn \notin Readers
    BY <1>4 DEF Readers
  <2> HIDE DEF h, w
  <2> QED
    BY <2>1, <2>3, <2>4 DEF Plan, Refuse, Perform, h
<1>5. CASE rq.fn = "RwHoldings"
  <2> DEFINE w == Callback(TypeOf(rq), "WRITE", rq.waddr, rq.wcnt, rq.data)
             r == Callback(TypeOf(rq), "READ", rq.addr, rq.cnt, <<>>)
  <2>1. \/ h = Refuse("ILLEGAL_DATA_VALUE")
        \/ h = Perform(<<>>) /\ ~rq.fits
        \/ h = Perform(<<w, r>>) /\ rq.wcnt \in Nat \ {0} /\ rq.cnt \in Nat \ {0}
    BY <1>1, <1>5 DEF SlaveHandler, SlaveRwHoldings, TypeOf
  <2>2. r.n = rq.cnt
    BY DEF Callback
  <2>3. rq.cnt \in Nat \ {0} => ReadsFor(r, rq)
    BY <1>1, <1>5, <2>2 DEF ReadsFor, Readers
  <2>4. rq.wcnt \in Nat \ {0} => WritesFor(w, rq)
    BY <1>1, <1>5 DEF WritesFor, Writers
  <2>5. ~rq.fits => ~Complete(rq)
    BY <1>5 DEF Complete
  <2> HIDE DEF h, w, r
  <2> QED
    BY <2>1, <2>3, <2>4, <2>5 DEF Plan, Refuse, Perform, h
<1>6. CASE rq.fn = "Unknown"
  <2>1. h = Refuse("ILLEGAL_FUNCTION")
    BY <1>6 DEF SlaveHandler
  <2> HIDE DEF h
  <2> QED
    BY <2>1 DEF Refuse, h
<1> QED
  BY <1>1, <1>2, <1>3, <1>4, <1>5, <1>6 DEF Readers, Writers

LEMMA Literals ==
  ASSUME NEW a, NEW b
  PROVE  /\ <<a>> # <<>> /\ Head(<<a>>) = a /\ Len(<<a>>) = 1
         /\ <<a, b>> # <<>> /\ Head(<<a, b>>) = a /\ Len(<<a, b>>) = 2 /\ Tail(<<a, b>>) = <<b>>
  OBVIOUS

-------------------------------------------------------------------------------
(* The areas of the slave as a map.                                        *)

\* What an area's memory holds of cell number k, as an entry of the map
Entry(type, area, k) == << <<type, area.start + k>>, OnWire(type, area.data[k]) >>

MapOf(ar) == UNION {UNION {Contents(type, ar[type][i]) : i \in DOMAIN ar[type]} : type \in AreaTypes}

\* The areas of a type
AreaSet(type) == {area \in [start : Nat, size : Nat, access : {"RO", "WO", "RW"},
                            data : UNION {[0..n - 1 -> CellOf(type)] : n \in Nat}] : IsArea(type, area)}

AreasOK(ar) == DOMAIN ar = AreaTypes /\ \A type \in AreaTypes : ar[type] \in Seq(AreaSet(type))

\* No two areas of a type have a register in common.
Before(type, a, b) == a.start + RegSize(type, a.size) =< b.start

Apart(ar) ==
  \A type \in AreaTypes : \A i, j \in DOMAIN ar[type] :
    i # j => Before(type, ar[type][i], ar[type][j]) \/ Before(type, ar[type][j], ar[type][i])

LEMMA RegSizeIs ==
  ASSUME NEW type, NEW size \in Nat
  PROVE  RegSize(type, size) \in Nat /\ RegSize(type, size) < WordTop
<1>1. \A n \in Nat : n % WordTop \in Nat /\ n % WordTop < WordTop
  BY WordTopAssumption
<1>2. size \div 2 \in Nat /\ 8 * size \in Nat
  OBVIOUS
<1> QED
  BY <1>1, <1>2 DEF RegSize

LEMMA AreaIs ==
  ASSUME NEW type, NEW area
  PROVE  /\ IsArea(type, area) <=> area \in AreaSet(type)
         /\ IsArea(type, area) =>
              /\ area.start \in Nat /\ area.size \in Nat /\ area.access \in {"RO", "WO", "RW"}
              /\ area = [start |-> area.start, size |-> area.size, access |-> area.access,
                         data |-> area.data]
              /\ area.data \in [0..RegSize(type, area.size) - 1 -> CellOf(type)]
              /\ RegSize(type, area.size) \in Nat
<1>1. IsArea(type, area) => area.size \in Nat /\ RegSize(type, area.size) \in Nat
  BY RegSizeIs DEF IsArea
<1>2. IsArea(type, area) => area \in AreaSet(type)
  BY <1>1 DEF IsArea, AreaSet
<1>3. area \in AreaSet(type) => IsArea(type, area)
  BY DEF AreaSet
<1> QED
  BY <1>1, <1>2, <1>3 DEF IsArea

LEMMA AreasAre ==
  ASSUME NEW ar, AreasOK(ar), NEW type \in AreaTypes, NEW i \in DOMAIN ar[type]
  PROVE  /\ IsArea(type, ar[type][i]) /\ i \in Nat /\ DOMAIN ar[type] = 1..Len(ar[type])
         /\ Len(ar[type]) \in Nat
         /\ DOMAIN ar[type][i].data = 0..RegSize(type, ar[type][i].size) - 1
<1>1. ar[type] \in Seq(AreaSet(type))
  BY DEF AreasOK
<1>2. ar[type][i] \in AreaSet(type) /\ i \in Nat /\ DOMAIN ar[type] = 1..Len(ar[type])
      /\ Len(ar[type]) \in Nat
  BY <1>1
<1>3. IsArea(type, ar[type][i])
  BY <1>2, AreaIs
<1> QED
  BY <1>2, <1>3, AreaIs

LEMMA InMap ==
  ASSUME NEW ar, AreasOK(ar)
  PROVE  \A e : e \in MapOf(ar) <=>
            \E type \in AreaTypes : \E i \in DOMAIN ar[type] :
               \E k \in 0..RegSize(type, ar[type][i].size) - 1 : e = Entry(type, ar[type][i], k)
<1>1. \A type \in AreaTypes : \A i \in DOMAIN ar[type] :
         DOMAIN ar[type][i].data = 0..RegSize(type, ar[type][i].size) - 1
  BY AreasAre
<1>2. \A e : e \in MapOf(ar) <=>
         \E type \in AreaTypes : \E i \in DOMAIN ar[type] : e \in Contents(type, ar[type][i])
  BY DEF MapOf
<1>3. \A e, type, area :
         e \in Contents(type, area) <=> \E k \in DOMAIN area.data : e = Entry(type, area, k)
  BY DEF Contents, Entry
<1>4. ASSUME NEW e, NEW type \in AreaTypes, NEW i \in DOMAIN ar[type]
      PROVE  e \in Contents(type, ar[type][i]) <=>
               \E k \in 0..RegSize(type, ar[type][i].size) - 1 : e = Entry(type, ar[type][i], k)
  <2> DEFINE area == ar[type][i]
             D == 0..RegSize(type, area.size) - 1
  <2>1. DOMAIN area.data = D
    BY <1>1
  <2>2. e \in Contents(type, area) <=> \E k \in DOMAIN area.data : e = Entry(type, area, k)
    BY <1>3
  <2> HIDE DEF area, D
  <2>3. e \in Contents(type, area) <=> \E k \in D : e = Entry(type, area, k)
    BY <2>1, <2>2
  <2> QED
    BY <2>3 DEF area, D
<1> QED
  BY <1>2, <1>4

\* A cell lies in one area only.
LEMMA CellIsOne ==
  ASSUME NEW ar, AreasOK(ar), Apart(ar), NEW type \in AreaTypes, NEW addr \in Nat,
         NEW n \in Nat \ {0}, NEW m \in Nat \ {0},
         NEW i \in DOMAIN ar[type], Holds(type, ar[type][i], addr, n),
         NEW j \in DOMAIN ar[type], Holds(type, ar[type][j], addr, m)
  PROVE  i = j
<1> DEFINE a == ar[type][i]
           b == ar[type][j]
           x == RegSize(type, a.size)
           y == RegSize(type, b.size)
<1>1. a.start \in Nat /\ x \in Nat
  BY AreasAre, AreaIs
<1>2. b.start \in Nat /\ y \in Nat
  BY AreasAre, AreaIs
<1>3. addr >= a.start /\ addr + n =< a.start + x /\ addr >= b.start /\ addr + m =< b.start + y
  BY DEF Holds
<1>4. i # j => a.start + x =< b.start \/ b.start + y =< a.start
  BY DEF Apart, Before
<1> HIDE DEF a, b, x, y
<1> QED
  BY <1>1, <1>2, <1>3, <1>4

LEMMA Found ==
  ASSUME NEW ar, AreasOK(ar), Apart(ar), NEW type \in AreaTypes, NEW addr \in Nat,
         NEW n \in Nat \ {0}, Holding(ar, type, addr, n) # {}
  PROVE  /\ Find(ar, type, addr, n) \in DOMAIN ar[type]
         /\ Holds(type, ar[type][Find(ar, type, addr, n)], addr, n)
<1>1. PICK i \in DOMAIN ar[type] : Holds(type, ar[type][i], addr, n)
  BY DEF Holding
<1>2. \A j \in Holding(ar, type, addr, n) : j = i
  BY <1>1, CellIsOne DEF Holding
<1>3. i \in Holding(ar, type, addr, n) /\ i \in Nat
  BY <1>1, AreasAre DEF Holding
<1>4. Find(ar, type, addr, n) = i
  BY <1>2, <1>3 DEF Find
<1> QED
  BY <1>1, <1>4

\* Which is the one that is found for any part of a range it holds.
LEMMA FoundIs ==
  ASSUME NEW ar, AreasOK(ar), Apart(ar), NEW type \in AreaTypes, NEW addr \in Nat,
         NEW i \in DOMAIN ar[type], Holds(type, ar[type][i], addr, 1)
  PROVE  Find(ar, type, addr, 1) = i
<1>1. Holding(ar, type, addr, 1) # {}
  BY DEF Holding
<1>2. /\ Find(ar, type, addr, 1) \in DOMAIN ar[type]
      /\ Holds(type, ar[type][Find(ar, type, addr, 1)], addr, 1)
  BY <1>1, Found
<1> QED
  BY <1>2, CellIsOne

\* In an area that is not too wide, the place of a range is where its memory begins.
LEMMA PlaceIs ==
  ASSUME NEW type \in RegisterTypes, NEW area, IsArea(type, area), area.size =< WordTop,
         NEW addr \in Nat, NEW n \in Nat \ {0}, Holds(type, area, addr, n)
  PROVE  RegisterPlace(area, addr) = addr - area.start
<1> DEFINE x == addr - area.start
           s == area.size
<1>1. s \in Nat /\ s =< WordTop /\ area.start \in Nat
  BY AreaIs
<1>2. RegSize(type, s) = (s \div 2) % WordTop /\ (s \div 2) \in Nat /\ 2 * (s \div 2) =< s
  BY <1>1 DEF RegSize
<1>3. s \div 2 < WordTop
  BY <1>1, <1>2, WordTopAssumption
<1>4. \A m \in Nat : m < WordTop => m % WordTop = m
  BY WordTopAssumption
<1>5. RegSize(type, s) = s \div 2
  BY <1>2, <1>3, <1>4
<1>6. x \in Nat /\ x + n =< s \div 2
  BY <1>1, <1>2, <1>5 DEF Holds
<1> HIDE DEF x
<1>7. 2 * x \in Nat /\ 2 * x < WordTop
  <2> DEFINE q == s \div 2
  <2>1. q \in Nat /\ 2 * q =< s /\ x \in Nat /\ x + n =< q /\ s =< WordTop /\ s \in Nat
    BY <1>1, <1>2, <1>6
  <2> HIDE DEF q, s
  <2> QED
    BY <2>1, WordTopAssumption
<1>8. ((2 * x) % WordTop) \div 2 = x
  BY <1>4, <1>6, <1>7
<1> QED
  BY <1>8 DEF RegisterPlace, x

SameLayout(ar, ar2) ==
  \A t \in AreaTypes : /\ DOMAIN ar2[t] = DOMAIN ar[t]
                       /\ \A j \in DOMAIN ar[t] : /\ ar2[t][j].start = ar[t][j].start
                                                  /\ ar2[t][j].size = ar[t][j].size

\* ar2 is ar with the area new in the place of area i of a type.
Swaps(ar, ar2, type, i, new) == ar2 = [ar EXCEPT ![type][i] = new]

\* In ar2 the area new is in the place of area i of a type.
Replaces(ar, ar2, type, i, new) ==
  /\ AreasOK(ar2) /\ Apart(ar2) /\ SameLayout(ar, ar2)
  /\ ar2[type][i] = new
  /\ \A t \in AreaTypes : \A j \in DOMAIN ar[t] : t # type \/ j # i => ar2[t][j] = ar[t][j]

\* The memory of new is the old one but for n cells.
Puts(type, old, new, place, n, cells) ==
  /\ IsArea(type, new) /\ new.start = old.start /\ new.size = old.size
  /\ place \in Nat /\ place + n =< RegSize(type, old.size)
  /\ \A k \in 0..RegSize(type, old.size) - 1 :
        new.data[k] = IF k \in place..place + n - 1 THEN cells[k - place + 1] ELSE old.data[k]

\* The map with the entries given in the place of those of the same cells
Updated(map, entries) == {e \in map : \A x \in entries : x[1] # e[1]} \cup entries
Has(map, cell) == \E e \in map : e[1] = cell
HasAll(map, type, first, n) == \A m \in 1..n : Has(map, <<type, first + m - 1>>)

\* What n cells of memory are as entries of the map
EntriesOf(type, first, n, cells) ==
  {<< <<type, first + m - 1>>, OnWire(type, cells[m]) >> : m \in 1..n}

\* An area is replaced by one in the same place.
LEMMA Overwritten ==
  ASSUME NEW ar, AreasOK(ar), Apart(ar), NEW type \in AreaTypes, NEW i \in DOMAIN ar[type],
         NEW new, IsArea(type, new), new.start = ar[type][i].start, new.size = ar[type][i].size,
         NEW ar2, Swaps(ar, ar2, type, i, new)
  PROVE  Replaces(ar, ar2, type, i, new)
<1> DEFINE list == [ar[type] EXCEPT ![i] = new]
<1>1. DOMAIN ar = AreaTypes /\ ar[type] \in Seq(AreaSet(type)) /\ new \in AreaSet(type)
  BY AreaIs DEF AreasOK
<1>2. /\ list \in Seq(AreaSet(type)) /\ DOMAIN list = DOMAIN ar[type] /\ list[i] = new
      /\ \A j \in DOMAIN ar[type] : j # i => list[j] = ar[type][j]
  BY <1>1
<1>3. ar2 = [ar EXCEPT ![type] = list]
  BY DEF Swaps
<1> HIDE DEF list
<1>4. DOMAIN ar2 = AreaTypes /\ ar2[type] = list /\ \A t \in AreaTypes : t # type => ar2[t] = ar[t]
  BY <1>1, <1>3
<1>5. AreasOK(ar2)
  BY <1>2, <1>4 DEF AreasOK
<1>6. \A t \in AreaTypes : /\ DOMAIN ar2[t] = DOMAIN ar[t]
                           /\ \A j \in DOMAIN ar[t] :
                                /\ t # type \/ j # i => ar2[t][j] = ar[t][j]
                                /\ ar2[t][j].start = ar[t][j].start
                                /\ ar2[t][j].size = ar[t][j].size
  BY <1>2, <1>4
<1>7. Apart(ar2)
  BY <1>6 DEF Apart, Before
<1> QED
  BY <1>2, <1>4, <1>5, <1>6, <1>7 DEF Replaces, SameLayout

\* Then the map has the new cells in the place of the old ones.
LEMMA Rewritten ==
  ASSUME NEW ar, AreasOK(ar), Apart(ar), NEW type \in AreaTypes, NEW i \in DOMAIN ar[type],
         NEW place, NEW n \in Nat \ {0}, NEW cells, NEW new, Puts(type, ar[type][i], new, place, n, cells),
         NEW ar2, Swaps(ar, ar2, type, i, new)
  PROVE  /\ Replaces(ar, ar2, type, i, new)
         /\ MapOf(ar2) = Updated(MapOf(ar), EntriesOf(type, new.start + place, n, cells))
         /\ HasAll(MapOf(ar), type, new.start + place, n)
<1> DEFINE addr(m) == new.start + place + m - 1
           fresh == EntriesOf(type, new.start + place, n, cells)
           size  == RegSize(type, new.size)
           old   == ar[type][i]
<1>0. /\ IsArea(type, new) /\ new.start = old.start /\ new.size = old.size
      /\ place \in Nat /\ place + n =< size
      /\ \A k \in 0..size - 1 :
            new.data[k] = IF k \in place..place + n - 1 THEN cells[k - place + 1] ELSE old.data[k]
      /\ fresh = {<< <<type, addr(m)>>, OnWire(type, cells[m]) >> : m \in 1..n}
  BY DEF Puts, EntriesOf
<1> HIDE DEF fresh
<1>0a. Replaces(ar, ar2, type, i, new)
  BY <1>0, Overwritten
<1>1. /\ AreasOK(ar2) /\ Apart(ar2) /\ ar2[type][i] = new
      /\ \A t \in AreaTypes : /\ DOMAIN ar2[t] = DOMAIN ar[t]
                              /\ \A j \in DOMAIN ar[t] :
                                   /\ t # type \/ j # i => ar2[t][j] = ar[t][j]
                                   /\ ar2[t][j].start = ar[t][j].start
                                   /\ ar2[t][j].size = ar[t][j].size
  BY <1>0a DEF Replaces, SameLayout
<1>2. size \in Nat /\ new.start \in Nat
  BY <1>0, AreaIs
<1>3. \A m \in 1..n : /\ place + m - 1 \in 0..size - 1 /\ addr(m) = new.start + (place + m - 1)
                      /\ place + m - 1 \in place..place + n - 1
                      /\ new.data[place + m - 1] = cells[m]
  <2> SUFFICES ASSUME NEW m \in 1..n
               PROVE  /\ place + m - 1 \in 0..size - 1 /\ addr(m) = new.start + (place + m - 1)
                      /\ place + m - 1 \in place..place + n - 1
                      /\ new.data[place + m - 1] = cells[m]
    OBVIOUS
  <2>1. place + m - 1 \in 0..size - 1 /\ place + m - 1 \in place..place + n - 1
    BY <1>0, <1>2
  <2>2. (place + m - 1) - place + 1 = m /\ addr(m) = new.start + (place + m - 1)
    BY <1>0, <1>2
  <2> QED
    BY <1>0, <2>1, <2>2
<1>4. \A k \in 0..size - 1 : k \notin place..place + n - 1 => new.data[k] = old.data[k]
  BY <1>0
<1>5. \A e : e \in MapOf(ar) <=>
            \E t \in AreaTypes : \E j \in DOMAIN ar[t] :
               \E k \in 0..RegSize(t, ar[t][j].size) - 1 : e = Entry(t, ar[t][j], k)
  BY InMap
<1>6. \A e : e \in MapOf(ar2) <=>
            \E t \in AreaTypes : \E j \in DOMAIN ar2[t] :
               \E k \in 0..RegSize(t, ar2[t][j].size) - 1 : e = Entry(t, ar2[t][j], k)
  BY <1>1, InMap
<1> HIDE DEF old, size
\* What the old map and the new one say of a cell
<1>7. ASSUME NEW t \in AreaTypes, NEW j \in DOMAIN ar[t],
             NEW k \in 0..RegSize(t, ar[t][j].size) - 1
      PROVE  /\ Entry(t, ar2[t][j], k)[1] = Entry(t, ar[t][j], k)[1]
             /\ Entry(t, ar[t][j], k)[1] = <<t, ar[t][j].start + k>>
             /\ \/ /\ t = type /\ j = i /\ k \in place..place + n - 1
                   /\ Entry(t, ar2[t][j], k) \in fresh
                \/ /\ Entry(t, ar2[t][j], k) = Entry(t, ar[t][j], k)
                   /\ \A x \in fresh : x[1] # Entry(t, ar[t][j], k)[1]
  <2>1. ar2[t][j].start = ar[t][j].start
    BY <1>1
  <2>2. CASE t = type /\ j = i /\ k \in place..place + n - 1
    <3> DEFINE m == k - place + 1
    <3>1. m \in 1..n /\ k = place + m - 1
      BY <1>0, <2>2
    <3> HIDE DEF m
    <3>2. new.data[k] = cells[m] /\ new.start + k = addr(m)
      BY <3>1, <1>3
    <3>3. Entry(t, ar2[t][j], k) = << <<type, addr(m)>>, OnWire(type, cells[m]) >>
      BY <1>1, <2>2, <3>2 DEF Entry
    <3> QED
      BY <1>0, <2>1, <2>2, <3>1, <3>3 DEF Entry
  <2>3. CASE t = type /\ j = i /\ k \notin place..place + n - 1
    <3>0. k \in 0..size - 1
      BY <1>0, <2>3 DEF size, old
    <3>1. new.data[k] = old.data[k]
      BY <1>4, <2>3, <3>0
    <3>2. Entry(t, ar2[t][j], k) = Entry(t, ar[t][j], k)
      BY <1>0, <1>1, <2>3, <3>1 DEF Entry, old
    <3>3. \A m \in 1..n : addr(m) # new.start + k
      BY <1>0, <1>2, <1>3, <2>3, <3>0
    <3> QED
      BY <1>0, <1>1, <2>1, <2>3, <3>2, <3>3 DEF Entry, old
  <2>4. CASE t # type \/ j # i
    <3>1. ar2[t][j] = ar[t][j]
      BY <1>1, <2>4
    <3>2. ASSUME NEW m \in 1..n, t = type, j # i PROVE addr(m) # ar[t][j].start + k
      <4> DEFINE b == ar[t][j]
                 y == RegSize(t, b.size)
      <4>1. b.start \in Nat /\ y \in Nat
        BY AreasAre, AreaIs
      <4>2. b.start + y =< old.start \/ old.start + size =< b.start
        BY <1>0, <3>2 DEF Apart, Before, old, size
      <4>3. addr(m) = old.start + (place + m - 1) /\ place + m - 1 \in 0..size - 1 /\ k \in 0..y - 1
            /\ old.start \in Nat
        BY <1>0, <1>2, <1>3 DEF old
      <4> DEFINE z == place + m - 1
      <4> HIDE DEF b, y, z, addr
      <4>4. addr(m) = old.start + z /\ z \in 0..size - 1 /\ k \in 0..y - 1 /\ old.start \in Nat
        BY <4>3 DEF z
      <4>5. addr(m) # b.start + k
        BY <1>2, <4>1, <4>2, <4>4
      <4> QED
        BY <4>5 DEF b
    <3>3. \A m \in 1..n : <<type, addr(m)>> # <<t, ar[t][j].start + k>>
      BY <2>4, <3>2
    <3> QED
      BY <1>0, <3>1, <3>3 DEF Entry
  <2> QED
    BY <2>2, <2>3, <2>4
<1>8. ASSUME NEW m \in 1..n
      PROVE  /\ << <<type, addr(m)>>, OnWire(type, cells[m]) >> \in MapOf(ar2)
             /\ Entry(type, old, place + m - 1) \in MapOf(ar)
             /\ Entry(type, old, place + m - 1)[1] = <<type, addr(m)>>
  <2>1. /\ place + m - 1 \in 0..size - 1 /\ addr(m) = new.start + (place + m - 1)
        /\ new.data[place + m - 1] = cells[m]
    BY <1>3
  <2>2. Entry(type, new, place + m - 1) = << <<type, addr(m)>>, OnWire(type, cells[m]) >>
    BY <2>1 DEF Entry
  <2>3. Entry(type, new, place + m - 1) \in MapOf(ar2)
    BY <1>0, <1>1, <1>6, <2>1 DEF size
  <2>4. Entry(type, old, place + m - 1) \in MapOf(ar)
    BY <1>0, <1>5, <2>1 DEF size, old
  <2>5. Entry(type, old, place + m - 1)[1] = <<type, addr(m)>>
    BY <1>0, <2>1 DEF Entry, old
  <2> QED
    BY <1>0, <2>2, <2>3, <2>4, <2>5
<1>9. ASSUME NEW e \in MapOf(ar2)
      PROVE  e \in fresh \/ (e \in MapOf(ar) /\ \A x \in fresh : x[1] # e[1])
  <2>0. PICK t \in AreaTypes : \E j \in DOMAIN ar2[t] :
          \E k \in 0..RegSize(t, ar2[t][j].size) - 1 : e = Entry(t, ar2[t][j], k)
    BY <1>6
  <2>0a. PICK j \in DOMAIN ar2[t] :
          \E k \in 0..RegSize(t, ar2[t][j].size) - 1 : e = Entry(t, ar2[t][j], k)
    BY <2>0
  <2>1. PICK k \in 0..RegSize(t, ar2[t][j].size) - 1 : e = Entry(t, ar2[t][j], k)
    BY <2>0a
  <2>2. j \in DOMAIN ar[t] /\ k \in 0..RegSize(t, ar[t][j].size) - 1
    BY <1>1
  <2>3. Entry(t, ar[t][j], k) \in MapOf(ar)
    BY <1>5, <2>2
  <2> QED
    BY <1>7, <2>1, <2>2, <2>3
<1>10. ASSUME NEW e \in MapOf(ar), \A x \in fresh : x[1] # e[1]
       PROVE  e \in MapOf(ar2)
  <2>0. PICK t \in AreaTypes : \E j \in DOMAIN ar[t] :
          \E k \in 0..RegSize(t, ar[t][j].size) - 1 : e = Entry(t, ar[t][j], k)
    BY <1>5
  <2>0a. PICK j \in DOMAIN ar[t] :
          \E k \in 0..RegSize(t, ar[t][j].size) - 1 : e = Entry(t, ar[t][j], k)
    BY <2>0
  <2>1. PICK k \in 0..RegSize(t, ar[t][j].size) - 1 : e = Entry(t, ar[t][j], k)
    BY <2>0a
  <2>2. j \in DOMAIN ar2[t] /\ k \in 0..RegSize(t, ar2[t][j].size) - 1
    BY <1>1
  <2>3. Entry(t, ar2[t][j], k) \in MapOf(ar2)
    BY <1>6, <2>2
  <2> QED
    BY <1>7, <1>10, <2>1, <2>3
<1>11. MapOf(ar2) = Updated(MapOf(ar), fresh)
  BY <1>0, <1>8, <1>9, <1>10 DEF Updated
<1>12. \A m \in 1..n : Has(MapOf(ar), <<type, addr(m)>>)
  BY <1>8 DEF Has
<1> QED
  BY <1>0a, <1>11, <1>12 DEF HasAll, fresh

\* A new area apart from the others adds cells of its own.
LEMMA Grown ==
  ASSUME NEW ar, AreasOK(ar), Apart(ar), NEW type \in AreaTypes, NEW area, IsArea(type, area),
         \A j \in DOMAIN ar[type] : Before(type, ar[type][j], area) \/ Before(type, area, ar[type][j])
  PROVE  LET ar2 == SetDescriptor(ar, type, area)
         IN  /\ AreasOK(ar2) /\ Apart(ar2) /\ MapOf(ar) \subseteq MapOf(ar2)
             /\ \A new \in MapOf(ar2) \ MapOf(ar) : \A e \in MapOf(ar) : e[1] # new[1]
             /\ \A t \in AreaTypes : \A j \in DOMAIN ar2[t] :
                   \/ t = type /\ ar2[t][j] = area
                   \/ \E k \in DOMAIN ar[t] : ar2[t][j] = ar[t][k]
<1> DEFINE ar2  == SetDescriptor(ar, type, area)
           list == <<area>> \o ar[type]
           one  == <<area>>
<1>1. DOMAIN ar = AreaTypes /\ ar[type] \in Seq(AreaSet(type)) /\ area \in AreaSet(type)
  BY AreaIs DEF AreasOK
<1>2. one \in Seq(AreaSet(type)) /\ Len(one) = 1 /\ one[1] = area
  BY <1>1
<1> HIDE DEF one
<1>3. /\ list \in Seq(AreaSet(type)) /\ Len(list) = 1 + Len(ar[type])
      /\ \A j \in 1..Len(list) : list[j] = IF j =< 1 THEN one[j] ELSE ar[type][j - 1]
  <2>1. list = one \o ar[type]
    BY DEF one
  <2> QED
    BY <1>1, <1>2, <2>1, ConcatProperties
<1>4. /\ DOMAIN list = 1..Len(ar[type]) + 1 /\ DOMAIN ar[type] = 1..Len(ar[type])
      /\ Len(ar[type]) \in Nat
  BY <1>1, <1>3
<1> HIDE DEF list
<1>5. /\ list[1] = area /\ 1 \in DOMAIN list
      /\ \A j \in DOMAIN ar[type] : j + 1 \in DOMAIN list /\ list[j + 1] = ar[type][j] /\ j \in Nat
      /\ \A j \in DOMAIN list : j = 1 \/ (j - 1 \in DOMAIN ar[type] /\ list[j] = ar[type][j - 1] /\ j \in Nat)
  BY <1>2, <1>3, <1>4
<1>6. /\ DOMAIN ar2 = AreaTypes /\ ar2[type] = list
      /\ \A t \in AreaTypes : t # type => ar2[t] = ar[t]
  BY <1>1 DEF SetDescriptor, list
<1> HIDE DEF ar2
<1>7. AreasOK(ar2)
  BY <1>3, <1>6 DEF AreasOK
<1>8. Apart(ar2)
  <2> SUFFICES ASSUME NEW t \in AreaTypes, NEW i \in DOMAIN ar2[t], NEW j \in DOMAIN ar2[t], i # j
               PROVE  Before(t, ar2[t][i], ar2[t][j]) \/ Before(t, ar2[t][j], ar2[t][i])
    BY DEF Apart
  <2>1. CASE t # type
    BY <1>6, <2>1 DEF Apart
  <2>2. CASE t = type
    <3>1. i \in DOMAIN list /\ j \in DOMAIN list /\ ar2[t] = list
      BY <1>6, <2>2
    <3>2. CASE i = 1
      BY <1>5, <2>2, <3>1, <3>2
    <3>3. CASE j = 1
      BY <1>5, <2>2, <3>1, <3>3
    <3>4. CASE i # 1 /\ j # 1
      <4>1. /\ i - 1 \in DOMAIN ar[type] /\ list[i] = ar[type][i - 1] /\ i \in Nat
            /\ j - 1 \in DOMAIN ar[type] /\ list[j] = ar[type][j - 1] /\ j \in Nat
        BY <1>5, <3>1, <3>4
      <4>2. i - 1 # j - 1
        BY <4>1
      <4> QED
        BY <2>2, <3>1, <4>1, <4>2 DEF Apart
    <3> QED
      BY <3>2, <3>3, <3>4
  <2> QED
    BY <2>1, <2>2
<1>9. \A t \in AreaTypes : \A j \in DOMAIN ar2[t] :
         \/ t = type /\ ar2[t][j] = area
         \/ \E k \in DOMAIN ar[t] : ar2[t][j] = ar[t][k]
  BY <1>5, <1>6
<1>10. \A t \in AreaTypes : \A k \in DOMAIN ar[t] : \E j \in DOMAIN ar2[t] : ar2[t][j] = ar[t][k]
  BY <1>5, <1>6
<1>11. \A e : e \in MapOf(ar) <=>
            \E t \in AreaTypes : \E j \in DOMAIN ar[t] :
               \E k \in 0..RegSize(t, ar[t][j].size) - 1 : e = Entry(t, ar[t][j], k)
  BY InMap
<1>12. \A e : e \in MapOf(ar2) <=>
            \E t \in AreaTypes : \E j \in DOMAIN ar2[t] :
               \E k \in 0..RegSize(t, ar2[t][j].size) - 1 : e = Entry(t, ar2[t][j], k)
  BY <1>7, InMap
<1>13. ASSUME NEW e \in MapOf(ar) PROVE e \in MapOf(ar2)
  <2>1. PICK t \in AreaTypes : \E j \in DOMAIN ar[t] :
          \E k \in 0..RegSize(t, ar[t][j].size) - 1 : e = Entry(t, ar[t][j], k)
    BY <1>11
  <2>2. PICK j \in DOMAIN ar[t] :
          \E k \in 0..RegSize(t, ar[t][j].size) - 1 : e = Entry(t, ar[t][j], k)
    BY <2>1
  <2>3. PICK i \in DOMAIN ar2[t] : ar2[t][i] = ar[t][j]
    BY <1>10
  <2> QED
    BY <1>12, <2>2, <2>3
<1>14. ASSUME NEW new \in MapOf(ar2), new \notin MapOf(ar), NEW e \in MapOf(ar)
       PROVE  e[1] # new[1]
  <2>1. PICK t \in AreaTypes : \E j \in DOMAIN ar2[t] :
          \E k \in 0..RegSize(t, ar2[t][j].size) - 1 : new = Entry(t, ar2[t][j], k)
    BY <1>12
  <2>2. PICK j \in DOMAIN ar2[t] :
          \E k \in 0..RegSize(t, ar2[t][j].size) - 1 : new = Entry(t, ar2[t][j], k)
    BY <2>1
  <2>3. PICK k \in 0..RegSize(t, ar2[t][j].size) - 1 : new = Entry(t, ar2[t][j], k)
    BY <2>2
  <2>4. t = type /\ ar2[t][j] = area
    BY <1>9, <1>11, <1>14, <2>3
  <2>5. PICK u \in AreaTypes : \E i \in DOMAIN ar[u] :
          \E m \in 0..RegSize(u, ar[u][i].size) - 1 : e = Entry(u, ar[u][i], m)
    BY <1>11
  <2>6. PICK i \in DOMAIN ar[u] :
          \E m \in 0..RegSize(u, ar[u][i].size) - 1 : e = Entry(u, ar[u][i], m)
    BY <2>5
  <2>7. PICK m \in 0..RegSize(u, ar[u][i].size) - 1 : e = Entry(u, ar[u][i], m)
    BY <2>6
  <2>8. e[1] = <<u, ar[u][i].start + m>> /\ new[1] = <<type, area.start + k>>
    BY <2>3, <2>4, <2>7 DEF Entry
  <2>9. CASE u = type
    <3> DEFINE b == ar[u][i]
               x == RegSize(type, area.size)
               y == RegSize(u, b.size)
    <3>1. b.start \in Nat /\ y \in Nat
      BY AreasAre, AreaIs
    <3>2. area.start \in Nat /\ x \in Nat
      BY AreaIs
    <3>3. b.start + y =< area.start \/ area.start + x =< b.start
      BY <2>9 DEF Before
    <3>4. k \in 0..x - 1 /\ m \in 0..y - 1
      BY <2>4
    <3> HIDE DEF b, x, y
    <3>5. b.start + m # area.start + k
      BY <3>1, <3>2, <3>3, <3>4
    <3> QED
      BY <2>8, <3>5 DEF b
  <2> QED
    BY <2>8, <2>9
<1> QED
  BY <1>7, <1>8, <1>9, <1>13, <1>14 DEF ar2

-------------------------------------------------------------------------------
(* The callbacks.                                                          *)

LEMMA StoredIs ==
  ASSUME NEW type, NEW area, IsArea(type, area), NEW place \in Nat, NEW n \in Nat \ {0},
         NEW cells \in [1..n -> CellOf(type)], place + n =< RegSize(type, area.size)
  PROVE  Puts(type, area, Stored(area, place, cells), place, n, cells)
<1> DEFINE size == RegSize(type, area.size)
           data == [k \in 0..size - 1 |-> IF k \in place..place + n - 1 THEN cells[k - place + 1]
                                          ELSE area.data[k]]
           new  == Stored(area, place, cells)
<1>1. /\ area.start \in Nat /\ area.size \in Nat /\ area.access \in {"RO", "WO", "RW"}
      /\ area = [start |-> area.start, size |-> area.size, access |-> area.access,
                 data |-> area.data]
      /\ area.data \in [0..size - 1 -> CellOf(type)] /\ size \in Nat
  BY AreaIs
<1>2. Len(cells) = n
  OBVIOUS
<1>3. DOMAIN area.data = 0..size - 1
  BY <1>1
<1>4. new = [area EXCEPT !.data = data]
  BY <1>2, <1>3 DEF Stored
<1>5. data \in [0..size - 1 -> CellOf(type)]
  <2>1. \A k \in place..place + n - 1 : cells[k - place + 1] \in CellOf(type)
    OBVIOUS
  <2> QED
    BY <1>1, <2>1
<1> HIDE DEF data, new
<1>6. new = [start |-> area.start, size |-> area.size, access |-> area.access, data |-> data]
  BY <1>1, <1>4
<1>7. IsArea(type, new)
  BY <1>1, <1>5, <1>6 DEF IsArea
<1>8. \A k \in 0..size - 1 :
         new.data[k] = IF k \in place..place + n - 1 THEN cells[k - place + 1] ELSE area.data[k]
  BY <1>6 DEF data
<1> QED
  BY <1>6, <1>7, <1>8 DEF Puts, new

LEMMA SwappedIs ==
  ASSUME NEW n \in Nat, NEW regs \in [1..n -> Byte \X Byte]
  PROVE  /\ Swapped(regs) \in [1..n -> Byte \X Byte]
         /\ \A m \in 1..n : <<Swapped(regs)[m][2], Swapped(regs)[m][1]>> = regs[m]
         /\ Swapped(Swapped(regs)) = regs
<1>1. \A m \in 1..n : regs[m][1] \in Byte /\ regs[m][2] \in Byte /\ regs[m] = <<regs[m][1], regs[m][2]>>
  OBVIOUS
<1>2. Swapped(regs) = [m \in 1..n |-> <<regs[m][2], regs[m][1]>>]
  BY DEF Swapped
<1> DEFINE s == Swapped(regs)
<1> HIDE DEF s
<1>3. s \in [1..n -> Byte \X Byte] /\ \A m \in 1..n : s[m][1] = regs[m][2] /\ s[m][2] = regs[m][1]
  BY <1>1, <1>2 DEF s
<1>4. Swapped(s) = [m \in 1..n |-> <<s[m][2], s[m][1]>>]
  BY <1>3 DEF Swapped
<1>5. \A m \in 1..n : <<s[m][2], s[m][1]>> = regs[m]
  BY <1>1, <1>3
<1>6. regs = [m \in 1..n |-> regs[m]]
  OBVIOUS
<1>7. Swapped(s) = regs
  BY <1>4, <1>5, <1>6
<1> QED
  BY <1>3, <1>5, <1>7 DEF s

-------------------------------------------------------------------------------
(* The bytes of a value.                                                   *)

AllTypes == DOMAIN PlainTypes \cup ByteTypes \cup Types16 \cup Types32 \cup Types64

\* An order of n bytes that is its own inverse
IsOrder(order, n) ==
  /\ order \in [1..n -> 0..n - 1]
  /\ \A j \in 1..n : order[order[j] + 1] + 1 = j

\* The types that are set and got in an order
Ordered == Types16 \cup Types32 \cup Types64

\* Every byte order of the library is its own inverse.
LEMMA OrdersInvert ==
  ASSUME NEW type \in Ordered
  PROVE  ElemSize(type) \in {2, 4, 8} /\ IsOrder(OrderOf(type), ElemSize(type))
<1>1. type \notin DOMAIN PlainTypes /\ type \notin ByteTypes
  BY DEF Ordered, Types16, Types32, Types64, PlainTypes, ByteTypes
<1>2. ElemSize(type) = Len(OrderOf(type))
  BY <1>1 DEF ElemSize
<1>3. CASE type \in Types16
  <2>1. OrderOf(type) \in {<<0, 1>>, <<1, 0>>}
    BY <1>3 DEF OrderOf, Order16, Orders16, Types16
  <2>2. Len(<<0, 1>>) = 2 /\ IsOrder(<<0, 1>>, 2)
    BY DEF IsOrder
  <2>3. Len(<<1, 0>>) = 2 /\ IsOrder(<<1, 0>>, 2)
    BY DEF IsOrder
  <2> QED
    BY <1>2, <2>1, <2>2, <2>3
<1>4. CASE type \in Types32
  <2>0. type \notin Types16
    BY <1>4 DEF Types16, Types32
  <2>1. OrderOf(type) \in {<<0, 1, 2, 3>>, <<1, 0, 3, 2>>, <<2, 3, 0, 1>>, <<3, 2, 1, 0>>}
    BY <1>4, <2>0 DEF OrderOf, Order32, Orders32, Types32
  <2>2. Len(<<0, 1, 2, 3>>) = 4 /\ IsOrder(<<0, 1, 2, 3>>, 4)
    BY DEF IsOrder
  <2>3. Len(<<1, 0, 3, 2>>) = 4 /\ IsOrder(<<1, 0, 3, 2>>, 4)
    BY DEF IsOrder
  <2>4. Len(<<2, 3, 0, 1>>) = 4 /\ IsOrder(<<2, 3, 0, 1>>, 4)
    BY DEF IsOrder
  <2>5. Len(<<3, 2, 1, 0>>) = 4 /\ IsOrder(<<3, 2, 1, 0>>, 4)
    BY DEF IsOrder
  <2> QED
    BY <1>2, <2>1, <2>2, <2>3, <2>4, <2>5
<1>5. CASE type \in Types64
  <2>0. type \notin Types16 /\ type \notin Types32
    BY <1>5 DEF Types16, Types32, Types64
  <2>1. OrderOf(type) \in {<<0, 1, 2, 3, 4, 5, 6, 7>>, <<7, 6, 5, 4, 3, 2, 1, 0>>,
                           <<6, 7, 4, 5, 2, 3, 0, 1>>, <<1, 0, 3, 2, 5, 4, 7, 6>>}
    BY <1>5, <2>0 DEF OrderOf, Order64, Orders64, Types64
  <2>2. Len(<<0, 1, 2, 3, 4, 5, 6, 7>>) = 8 /\ IsOrder(<<0, 1, 2, 3, 4, 5, 6, 7>>, 8)
    BY DEF IsOrder
  <2>3. Len(<<7, 6, 5, 4, 3, 2, 1, 0>>) = 8 /\ IsOrder(<<7, 6, 5, 4, 3, 2, 1, 0>>, 8)
    BY DEF IsOrder
  <2>4. Len(<<6, 7, 4, 5, 2, 3, 0, 1>>) = 8 /\ IsOrder(<<6, 7, 4, 5, 2, 3, 0, 1>>, 8)
    BY DEF IsOrder
  <2>5. Len(<<1, 0, 3, 2, 5, 4, 7, 6>>) = 8 /\ IsOrder(<<1, 0, 3, 2, 5, 4, 7, 6>>, 8)
    BY DEF IsOrder
  <2> QED
    BY <1>2, <2>1, <2>2, <2>3, <2>4, <2>5
<1> QED
  BY <1>3, <1>4, <1>5 DEF Ordered

LEMMA ElemSizes ==
  ASSUME NEW type \in AllTypes
  PROVE  ElemSize(type) \in {1, 2, 4, 8}
<1>1. CASE type \in DOMAIN PlainTypes
  BY <1>1 DEF ElemSize, PlainTypes
<1>2. CASE type \in ByteTypes
  BY <1>2 DEF ElemSize, ByteTypes, PlainTypes
<1>3. CASE type \in Ordered
  BY <1>3, OrdersInvert
<1> QED
  BY <1>1, <1>2, <1>3 DEF AllTypes, Ordered

\* So an element is the same bytes whether it is set or got.
LEMMA GetIsSet ==
  ASSUME NEW type \in AllTypes, NEW bytes \in Seq(Byte), Len(bytes) = ElemSize(type)
  PROVE  \A p \in 1..ElemSize(type) : /\ GetElem(type, bytes)[p] = SetElem(type, bytes)[p]
                                      /\ SetElem(type, bytes)[p] \in Byte
<1>1. CASE type \in DOMAIN PlainTypes
  <2>1. ElemSize(type) \in Nat
    BY ElemSizes
  <2>2. \A p \in 1..ElemSize(type) : bytes[p] \in Byte
    BY <2>1
  <2>3. type \notin {"I8_A", "U8_A"} /\ type \notin {"I8_B", "U8_B"}
    BY <1>1 DEF PlainTypes
  <2> QED
    BY <1>1, <2>2, <2>3 DEF GetElem, SetElem
<1>2. CASE type \in ByteTypes
  <2>1. type \notin DOMAIN PlainTypes /\ ElemSize(type) = 2
    BY <1>2 DEF PlainTypes, ByteTypes, ElemSize
  <2>2. bytes[1] \in Byte /\ bytes[2] \in Byte
    BY <2>1
  <2>2a. 0 \in Byte
    BY DEF Byte, ByteTop
  <2>3. CASE type \in {"I8_A", "U8_A"}
    BY <2>1, <2>2, <2>2a, <2>3 DEF GetElem, SetElem, SetByteA
  <2>4. CASE type \in {"I8_B", "U8_B"}
    BY <2>1, <2>2, <2>2a, <2>4 DEF GetElem, SetElem, SetByteB
  <2> QED
    BY <1>2, <2>3, <2>4 DEF ByteTypes
<1>3. CASE type \in Ordered
  <2> DEFINE order == OrderOf(type)
             n == ElemSize(type)
  <2>1. n \in Nat /\ IsOrder(order, n)
    BY <1>3, OrdersInvert
  <2>2. type \notin DOMAIN PlainTypes /\ type \notin {"I8_A", "U8_A"} /\ type \notin {"I8_B", "U8_B"}
    BY <1>3 DEF Ordered, Types16, Types32, Types64, PlainTypes
  <2>3. SetElem(type, bytes) = SetGeneric(order, bytes) /\ GetElem(type, bytes) = GetGeneric(order, bytes)
    BY <2>2 DEF SetElem, GetElem
  <2> HIDE DEF order, n
  <2>4. DOMAIN order = 1..n
    BY <2>1 DEF IsOrder
  <2>5. ASSUME NEW p \in 1..n
        PROVE  (CHOOSE i \in DOMAIN order : order[i] + 1 = p) = order[p] + 1
    <3>1. order[p] \in 0..n - 1 /\ order[p] + 1 \in 1..n /\ order[order[p] + 1] + 1 = p
      BY <2>1 DEF IsOrder
    <3>2. ASSUME NEW i \in 1..n, order[i] + 1 = p PROVE i = order[p] + 1
      BY <2>1, <3>2 DEF IsOrder
    <3> QED
      BY <2>4, <3>1, <3>2
  <2>6. ASSUME NEW p \in 1..n
        PROVE  /\ GetGeneric(order, bytes)[p] = bytes[order[p] + 1]
               /\ SetGeneric(order, bytes)[p] = bytes[order[p] + 1]
               /\ bytes[order[p] + 1] \in Byte
    <3>1. order[p] \in 0..n - 1 /\ order[p] + 1 \in 1..n
      BY <2>1 DEF IsOrder
    <3>2. Len(bytes) = n /\ n \in Nat
      BY <2>1 DEF n
    <3>3. bytes[order[p] + 1] \in Byte
      BY <3>1, <3>2
    <3>4. SetGeneric(order, bytes)[p] = bytes[order[p] + 1]
      BY <2>4 DEF SetGeneric
    <3>5. GetGeneric(order, bytes)[p] = bytes[CHOOSE i \in DOMAIN order : order[i] + 1 = p]
      BY <2>4 DEF GetGeneric
    <3> QED
      BY <2>5, <3>3, <3>4, <3>5
  <2> QED
    BY <2>3, <2>6 DEF n
<1> QED
  BY <1>1, <1>2, <1>3 DEF AllTypes, Ordered

\* The element a byte belongs to lies within the whole elements.
LEMMA ElemPlace ==
  ASSUME NEW elem \in {1, 2, 4, 8}, NEW size \in Nat, NEW k \in Whole(size, elem)
  PROVE  /\ Place(k, elem) \in 1..elem /\ k - Place(k, elem) \in Nat
         /\ (k - Place(k, elem)) + elem =< (size \div elem) * elem
<1>1. CASE elem = 1
  BY <1>1 DEF Whole, Place
<1>2. CASE elem = 2
  BY <1>2 DEF Whole, Place
<1>3. CASE elem = 4
  BY <1>3 DEF Whole, Place
<1>4. CASE elem = 8
  BY <1>4 DEF Whole, Place
<1> QED
  BY <1>1, <1>2, <1>3, <1>4

LEMMA WholeFits ==
  ASSUME NEW elem \in {1, 2, 4, 8}, NEW size \in Nat
  PROVE  /\ (size \div elem) * elem \in Nat /\ (size \div elem) * elem =< size
         /\ Whole(size, elem) = 1..(size \div elem) * elem
<1>1. CASE elem = 1
  BY <1>1 DEF Whole, Place
<1>2. CASE elem = 2
  BY <1>2 DEF Whole, Place
<1>3. CASE elem = 4
  BY <1>3 DEF Whole, Place
<1>4. CASE elem = 8
  BY <1>4 DEF Whole, Place
<1> QED
  BY <1>1, <1>2, <1>3, <1>4

LEMMA ElemIs ==
  ASSUME NEW elem \in {1, 2, 4, 8}, NEW size \in Nat, NEW k \in Whole(size, elem),
         NEW bytes \in Seq(Byte), (size \div elem) * elem =< Len(bytes)
  PROVE  /\ Elem(k, elem, bytes) \in Seq(Byte) /\ Len(Elem(k, elem, bytes)) = elem
         /\ \A p \in 1..elem : /\ Elem(k, elem, bytes)[p] = bytes[k - Place(k, elem) + p]
                               /\ k - Place(k, elem) + p \in Whole(size, elem)
<1> DEFINE first == k - Place(k, elem)
           last  == (size \div elem) * elem
           s == Elem(k, elem, bytes)
<1>1. first \in Nat /\ first + elem =< last /\ last \in Nat /\ Whole(size, elem) = 1..last
      /\ last =< Len(bytes) /\ elem \in Nat \ {0}
  <2>1. first \in Nat /\ first + elem =< last
    BY ElemPlace
  <2>2. last \in Nat /\ Whole(size, elem) = 1..last
    BY WholeFits
  <2> QED
    BY <2>1, <2>2
<1>2. s = SubSeq(bytes, first + 1, first + elem)
  BY DEF Elem
<1>2a. Len(bytes) \in Nat
  OBVIOUS
<1> HIDE DEF first, last, s
<1>3. first + 1 \in 1..Len(bytes) + 1 /\ first + elem \in (first + 1) - 1..Len(bytes)
      /\ (first + elem) - (first + 1) + 1 = elem
  BY <1>1, <1>2a
<1>4. s \in Seq(Byte)
  BY <1>2, <1>3, SubSeqProperties
<1>5. Len(s) = elem
  BY <1>2, <1>3, <1>1, SubSeqProperties
<1>6. \A p \in 1..elem : s[p] = bytes[first + 1 + p - 1]
  BY <1>2, <1>3, <1>1, SubSeqProperties
<1>7. \A p \in 1..elem : s[p] = bytes[first + p] /\ first + p \in 1..last
  BY <1>1, <1>6
<1> QED
  BY <1>1, <1>4, <1>5, <1>7 DEF first, s

\* The bytes of the whole elements of a parameter
Last(type, size) == (size \div ElemSize(type)) * ElemSize(type)

\* A conversion keeps to the whole elements.
LEMMA ConvertedIs ==
  ASSUME NEW type \in AllTypes, NEW size \in Nat, NEW bytes \in Seq(Byte),
         Last(type, size) =< Len(bytes)
  PROVE  /\ Last(type, size) \in Nat /\ Last(type, size) =< size
         /\ Converted(type, size, bytes) \in [1..Last(type, size) -> Byte]
         /\ SlaveView(type, size, bytes) = Converted(type, size, bytes)
<1> DEFINE elem == ElemSize(type)
<1>1. elem \in {1, 2, 4, 8}
  BY ElemSizes
<1>2. /\ Last(type, size) \in Nat /\ Last(type, size) =< size
      /\ Whole(size, elem) = 1..Last(type, size)
  BY <1>1, WholeFits DEF Last
<1>3. ASSUME NEW k \in Whole(size, elem)
      PROVE  LET e == Elem(k, elem, bytes)
                 p == Place(k, elem)
             IN  SetElem(type, e)[p] \in Byte /\ GetElem(type, e)[p] = SetElem(type, e)[p]
  <2>1. Place(k, elem) \in 1..elem
    BY <1>1, ElemPlace
  <2>2. Elem(k, elem, bytes) \in Seq(Byte) /\ Len(Elem(k, elem, bytes)) = elem
    BY <1>1, ElemIs DEF Last
  <2> QED
    BY <2>1, <2>2, GetIsSet
<1>4. Converted(type, size, bytes) =
        [k \in Whole(size, elem) |-> SetElem(type, Elem(k, elem, bytes))[Place(k, elem)]]
  BY DEF Converted
<1>5. SlaveView(type, size, bytes) =
        [k \in Whole(size, elem) |-> GetElem(type, Elem(k, elem, bytes))[Place(k, elem)]]
  BY DEF SlaveView
<1> HIDE DEF elem
<1> QED
  BY <1>2, <1>3, <1>4, <1>5

\* It depends on these bytes only.
LEMMA ConvertedSame ==
  ASSUME NEW type \in AllTypes, NEW size \in Nat, NEW b \in Seq(Byte), NEW c \in Seq(Byte),
         Last(type, size) =< Len(b), Last(type, size) =< Len(c),
         \A k \in 1..Last(type, size) : b[k] = c[k]
  PROVE  Converted(type, size, b) = Converted(type, size, c)
<1> DEFINE elem == ElemSize(type)
<1>1. elem \in {1, 2, 4, 8}
  BY ElemSizes
<1>2. Whole(size, elem) = 1..Last(type, size)
  BY <1>1, WholeFits DEF Last
<1>3. ASSUME NEW k \in Whole(size, elem)
      PROVE  Elem(k, elem, b) = Elem(k, elem, c)
  <2> DEFINE x == Elem(k, elem, b)
             y == Elem(k, elem, c)
  <2>1. /\ x \in Seq(Byte) /\ Len(x) = elem
        /\ \A p \in 1..elem : /\ x[p] = b[k - Place(k, elem) + p]
                              /\ k - Place(k, elem) + p \in Whole(size, elem)
    BY <1>1, ElemIs DEF Last
  <2>2. /\ y \in Seq(Byte) /\ Len(y) = elem
        /\ \A p \in 1..elem : y[p] = c[k - Place(k, elem) + p]
    BY <1>1, ElemIs DEF Last
  <2> HIDE DEF x, y
  <2>3. \A p \in 1..Len(x) : x[p] = y[p]
    BY <1>2, <2>1, <2>2
  <2>4. x = y
    BY <2>1, <2>2, <2>3, SeqEqual
  <2> QED
    BY <2>4 DEF x, y
<1> HIDE DEF elem
<1> QED
  BY <1>3 DEF Converted, elem

\* The bytes of a buffer of registers
LEMMA BytesAre ==
  ASSUME NEW n \in Nat, NEW pairs \in [1..n -> Byte \X Byte]
  PROVE  /\ Bytes(pairs) \in Seq(Byte) /\ Len(Bytes(pairs)) = 2 * n
         /\ \A k \in 1..2 * n :
              /\ (k + 1) \div 2 \in 1..n
              /\ \/ k = 2 * ((k + 1) \div 2) - 1 /\ Bytes(pairs)[k] = pairs[(k + 1) \div 2][1]
                 \/ k = 2 * ((k + 1) \div 2) /\ Bytes(pairs)[k] = pairs[(k + 1) \div 2][2]
<1>1. Len(pairs) = n /\ pairs \in Seq(Byte \X Byte)
  OBVIOUS
<1>2. ASSUME NEW k \in 1..2 * n
      PROVE  LET q == (k + 1) \div 2
                 r == ((k + 1) % 2) + 1
             IN  /\ q \in 1..n
                 /\ (k = 2 * q - 1 /\ r = 1) \/ (k = 2 * q /\ r = 2)
                 /\ pairs[q][1] \in Byte /\ pairs[q][2] \in Byte
  <2>1. (k + 1) \div 2 \in 1..n
    OBVIOUS
  <2>2. \/ k = 2 * ((k + 1) \div 2) - 1 /\ ((k + 1) % 2) + 1 = 1
        \/ k = 2 * ((k + 1) \div 2) /\ ((k + 1) % 2) + 1 = 2
    OBVIOUS
  <2>3. pairs[(k + 1) \div 2] \in Byte \X Byte
    BY <2>1
  <2> QED
    BY <2>1, <2>2, <2>3
<1>3. Bytes(pairs) = [k \in 1..2 * n |-> pairs[(k + 1) \div 2][((k + 1) % 2) + 1]]
  BY <1>1 DEF Bytes
<1>4. Bytes(pairs) \in [1..2 * n -> Byte]
  BY <1>2, <1>3
<1>5. Bytes(pairs) \in Seq(Byte) /\ Len(Bytes(pairs)) = 2 * n
  BY <1>4
<1> QED
  BY <1>2, <1>3, <1>5

\* The registers of a buffer hold its bytes.
LEMMA PairsHold ==
  ASSUME NEW bytes \in Seq(Byte), NEW n \in Nat
  PROVE  /\ Pairs(bytes, n) \in [1..n -> Byte \X Byte]
         /\ \A k \in 1..2 * n : k \in DOMAIN bytes => Bytes(Pairs(bytes, n))[k] = bytes[k]
<1> DEFINE At(k) == IF k \in DOMAIN bytes THEN bytes[k] ELSE 0
           pairs == Pairs(bytes, n)
<1>1. 0 \in Byte
  BY DEF Byte, ByteTop
<1>2. \A k : At(k) \in Byte
  BY <1>1
<1>3. pairs = [i \in 1..n |-> <<At(2 * i - 1), At(2 * i)>>]
  BY DEF Pairs
<1> HIDE DEF At, pairs
<1>4. pairs \in [1..n -> Byte \X Byte]
  BY <1>2, <1>3
<1>5. ASSUME NEW k \in 1..2 * n PROVE Bytes(pairs)[k] = At(k)
  <2> DEFINE q == (k + 1) \div 2
  <2>1. /\ q \in 1..n
        /\ \/ k = 2 * q - 1 /\ Bytes(pairs)[k] = pairs[q][1]
           \/ k = 2 * q /\ Bytes(pairs)[k] = pairs[q][2]
    BY <1>4, BytesAre
  <2> HIDE DEF q
  <2>2. pairs[q] = <<At(2 * q - 1), At(2 * q)>>
    BY <1>3, <2>1
  <2> QED
    BY <2>1, <2>2
<1> QED
  BY <1>4, <1>5 DEF At, pairs

-------------------------------------------------------------------------------
(* What the callbacks of the slave do with its areas.                      *)

\* No area of registers of more than 64 KiB, in which the place of a register wraps (16).
Narrow(ar) == \A type \in RegisterTypes : \A i \in DOMAIN ar[type] : ar[type][i].size =< WordTop

LEMMA AddressPlace ==
  ASSUME NEW type, NEW area, IsArea(type, area), NEW addr \in Nat, NEW n \in Nat \ {0},
         Holds(type, area, addr, n)
  PROVE  /\ addr - area.start \in Nat /\ area.start + (addr - area.start) = addr
         /\ (addr - area.start) + n =< RegSize(type, area.size)
<1>1. area.start \in Nat /\ RegSize(type, area.size) \in Nat
  BY AreaIs
<1> QED
  BY <1>1 DEF Holds

\* The area new is old with what rq writes.
Rewrites(rq, old, new, cells) ==
  /\ Puts(TypeOf(rq), old, new, rq.waddr - old.start, rq.wcnt, cells)
  /\ \A m \in 1..rq.wcnt : OnWire(TypeOf(rq), cells[m]) = rq.data[m]

WriteDone(r, rq) ==
  \E i \in DOMAIN areas[TypeOf(rq)] : \E new, cells :
     /\ r.areas = [areas EXCEPT ![TypeOf(rq)][i] = new]
     /\ Rewrites(rq, areas[TypeOf(rq)][i], new, cells)

\* A write refuses, or it puts the cells of the request into one area.
LEMMA RunWrites ==
  ASSUME AreasOK(areas), Apart(areas), Narrow(areas), NEW rq, NEW cb, WritesFor(cb, rq)
  PROVE  /\ Run(cb).err \in {"ENOERR", "ENOREG", "EINVAL"}
         /\ Run(cb).err # "ENOERR" => Run(cb).areas = areas
         /\ Run(cb).err = "ENOERR" => WriteDone(Run(cb), rq)
<1> DEFINE type == TypeOf(rq)
           addr == rq.waddr
           n    == rq.wcnt
           data == rq.data
           i    == Find(areas, type, addr, n)
           area == areas[type][i]
<1>1. /\ rq.fn \in Writers /\ cb = Callback(type, "WRITE", addr, n, data)
      /\ n \in Nat \ {0} /\ addr \in Nat /\ data \in [1..n -> CellOf(type)]
  BY DEF WritesFor
<1>2. /\ cb.type = type /\ cb.addr = addr /\ cb.n = n /\ cb.mode = "WRITE" /\ cb.data = data
  BY <1>1 DEF Callback
<1>3. type \in {"HOLDING", "COIL"}
  BY <1>1 DEF TypeOf, Writers
<1> HIDE DEF type
<1>4. CASE Holding(areas, type, addr, n) = {}
  <2>1. Run(cb) = Fails("ENOREG", areas)
    BY <1>2, <1>3, <1>4 DEF Run, HoldingCb, CoilsCb
  <2> QED
    BY <2>1 DEF Fails
<1>5. CASE Holding(areas, type, addr, n) # {}
  <2>1. i \in DOMAIN areas[type] /\ Holds(type, area, addr, n) /\ IsArea(type, area)
    BY <1>1, <1>3, <1>5, Found, AreasAre DEF AreaTypes
  <2>2. area.start \in Nat /\ addr - area.start \in Nat /\ area.start + (addr - area.start) = addr
        /\ (addr - area.start) + n =< RegSize(type, area.size)
    BY <1>1, <2>1, AddressPlace, AreaIs
  <2> DEFINE place == addr - area.start
  <2>3. CASE type = "HOLDING"
    <3> DEFINE cells == Swapped(data)
               new   == Stored(area, place, cells)
    <3>1. RegisterPlace(area, addr) = place
      BY <1>1, <2>1, <2>3, PlaceIs DEF Narrow, RegisterTypes
    <3>2. data \in [1..n -> Byte \X Byte] /\ CellOf(type) = Byte \X Byte
      BY <1>1, <2>3 DEF CellOf, RegisterTypes
    <3>3. /\ cells \in [1..n -> Byte \X Byte]
          /\ \A m \in 1..n : <<cells[m][2], cells[m][1]>> = data[m]
      BY <1>1, <3>2, SwappedIs
    <3>4. \A m \in 1..n : OnWire(type, cells[m]) = data[m]
      BY <2>3, <3>3 DEF OnWire, RegisterTypes
    <3>5. Run(cb) = HoldingWrite(areas, addr, n, data)
      BY <1>2, <1>5, <2>3 DEF Run, HoldingCb
    <3>6. \/ Run(cb) = Fails("EINVAL", areas)
          \/ Run(cb).err = "ENOERR" /\ Run(cb).areas = [areas EXCEPT ![type][i] = new]
      <4> HIDE DEF place
      <4>1. HoldingWrite(areas, addr, n, data) =
              IF area.access = "RO" THEN Fails("EINVAL", areas)
              ELSE [err |-> "ENOERR", data |-> <<>>, areas |-> [areas EXCEPT !["HOLDING"][i] = new],
                    info |-> Info("HOLDING_WR", addr, n)]
        BY <2>3, <3>1 DEF HoldingWrite
      <4> HIDE DEF new, i, area
      <4> QED
        BY <2>3, <3>5, <4>1
    <3> HIDE DEF cells, area, i
    <3>6a. cells \in [1..n -> CellOf(type)]
      BY <3>2, <3>3
    <3>6b. place \in Nat /\ place + n =< RegSize(type, area.size)
      BY <2>2
    <3> HIDE DEF place
    <3>7. Puts(type, area, new, place, n, cells)
      BY <1>1, <2>1, <3>6a, <3>6b, StoredIs
    <3>8. CASE Run(cb) = Fails("EINVAL", areas)
      BY <3>8 DEF Fails
    <3>9. CASE Run(cb).err = "ENOERR" /\ Run(cb).areas = [areas EXCEPT ![type][i] = new]
      <4> HIDE DEF new
      <4>1. WriteDone(Run(cb), rq)
        <5>1. Rewrites(rq, area, new, cells)
          BY <3>4, <3>7, <3>6b DEF Rewrites, type, place
        <5> QED
          BY <2>1, <3>9, <5>1 DEF WriteDone, type, area
      <4> QED
        BY <3>9, <4>1
    <3> QED
      BY <3>6, <3>8, <3>9
  <2>4. CASE type = "COIL"
    <3> DEFINE new == Stored(area, place, data)
    <3>1. \A m \in 1..n : OnWire(type, data[m]) = data[m]
      BY <2>4 DEF OnWire, RegisterTypes
    <3>2. Run(cb) = CoilsWrite(areas, addr, n, data)
      BY <1>2, <1>5, <2>4 DEF Run, CoilsCb
    <3>3. \/ Run(cb) = Fails("EINVAL", areas)
          \/ Run(cb).err = "ENOERR" /\ Run(cb).areas = [areas EXCEPT ![type][i] = new]
      BY <2>4, <3>2 DEF CoilsWrite, BitPlace
    <3> HIDE DEF area, i
    <3>3a. place \in Nat /\ place + n =< RegSize(type, area.size)
      BY <2>2
    <3> HIDE DEF place
    <3>4. Puts(type, area, new, place, n, data)
      BY <1>1, <2>1, <3>3a, StoredIs
    <3>5. CASE Run(cb) = Fails("EINVAL", areas)
      BY <3>5 DEF Fails
    <3>6. CASE Run(cb).err = "ENOERR" /\ Run(cb).areas = [areas EXCEPT ![type][i] = new]
      <4> HIDE DEF new
      <4>1. WriteDone(Run(cb), rq)
        <5>1. Rewrites(rq, area, new, data)
          BY <3>1, <3>4, <3>3a DEF Rewrites, type, place
        <5> QED
          BY <2>1, <3>6, <5>1 DEF WriteDone, type, area
      <4> QED
        BY <3>6, <4>1
    <3> QED
      BY <3>3, <3>5, <3>6
  <2> QED
    BY <1>3, <2>3, <2>4
<1> QED
  BY <1>4, <1>5

\* What lies in the memory of n cells of an area
Shows(ar, type, i, addr, n) ==
  LET memory == Memory(ar, type, addr, n)
      place  == addr - ar[type][i].start
  IN  /\ memory \in [1..n -> CellOf(type)]
      /\ place \in Nat /\ place + n =< RegSize(type, ar[type][i].size)
      /\ \A m \in 1..n : /\ memory[m] = ar[type][i].data[place + m - 1]
                         /\ memory[m] \in CellOf(type)
                         /\ << <<type, addr + m - 1>>, OnWire(type, memory[m]) >> \in MapOf(ar)

\* The memory of a range is the area's that holds it.
LEMMA MemoryIs ==
  ASSUME NEW ar, AreasOK(ar), Apart(ar), NEW type \in AreaTypes, NEW i \in DOMAIN ar[type],
         NEW addr \in Nat, NEW n \in Nat \ {0}, Holds(type, ar[type][i], addr, n)
  PROVE  Shows(ar, type, i, addr, n)
<1> DEFINE area   == ar[type][i]
           place  == addr - area.start
           size   == RegSize(type, area.size)
           memory == Memory(ar, type, addr, n)
<1>1. IsArea(type, area) /\ area.start \in Nat /\ size \in Nat /\ area.data \in [0..size - 1 -> CellOf(type)]
  BY AreasAre, AreaIs
<1>2. place \in Nat /\ area.start + place = addr /\ place + n =< size
  BY <1>1, AddressPlace
<1>3. \A e : e \in MapOf(ar) <=>
            \E t \in AreaTypes : \E j \in DOMAIN ar[t] :
               \E k \in 0..RegSize(t, ar[t][j].size) - 1 : e = Entry(t, ar[t][j], k)
  BY InMap
<1>4. ASSUME NEW m \in 1..n
      PROVE  /\ addr + m - 1 \in Nat /\ place + m - 1 \in 0..size - 1
             /\ addr + m - 1 = area.start + (place + m - 1)
             /\ (addr + m - 1) - area.start = place + m - 1
             /\ Find(ar, type, addr + m - 1, 1) = i
  <2> HIDE DEF place, size, area
  <2>1. /\ addr + m - 1 \in Nat /\ place + m - 1 \in 0..size - 1
        /\ addr + m - 1 = area.start + (place + m - 1)
        /\ (addr + m - 1) - area.start = place + m - 1
        /\ addr + m - 1 >= area.start /\ addr + m - 1 + 1 =< area.start + size
    BY <1>1, <1>2
  <2>2. Holds(type, area, addr + m - 1, 1)
    BY <2>1 DEF Holds, size
  <2>3. Find(ar, type, addr + m - 1, 1) = i
    BY <2>1, <2>2, FoundIs DEF area
  <2> QED
    BY <2>1, <2>3
<1>5. memory = [m \in 1..n |-> ar[type][Find(ar, type, addr + m - 1, 1)].data
                                  [(addr + m - 1) - ar[type][Find(ar, type, addr + m - 1, 1)].start]]
  BY DEF Memory
<1> HIDE DEF memory, size
<1>6. ASSUME NEW m \in 1..n
      PROVE  /\ memory[m] = area.data[place + m - 1] /\ memory[m] \in CellOf(type)
             /\ << <<type, addr + m - 1>>, OnWire(type, memory[m]) >> \in MapOf(ar)
  <2>1. memory[m] = area.data[place + m - 1]
    BY <1>4, <1>5
  <2>2. memory[m] \in CellOf(type)
    BY <1>1, <1>4, <2>1
  <2>3. << <<type, addr + m - 1>>, OnWire(type, memory[m]) >> = Entry(type, area, place + m - 1)
    BY <1>4, <2>1 DEF Entry
  <2>4. Entry(type, area, place + m - 1) \in MapOf(ar)
    BY <1>3, <1>4 DEF size
  <2> QED
    BY <2>1, <2>2, <2>3, <2>4
<1>7. DOMAIN memory = 1..n /\ memory = [m \in 1..n |-> memory[m]]
  BY <1>5
<1>8. memory \in [1..n -> CellOf(type)]
  BY <1>6, <1>7
<1> QED
  BY <1>2, <1>6, <1>8 DEF Shows, memory, size

\* A read refuses, or it returns what the registers of the request hold.
LEMMA RunReads ==
  ASSUME AreasOK(areas), Apart(areas), Narrow(areas), NEW rq, NEW cb, ReadsFor(cb, rq)
  PROVE  LET memory == Memory(areas, TypeOf(rq), rq.addr, cb.n)
         IN  /\ Run(cb).err \in {"ENOERR", "ENOREG", "EINVAL"}
             /\ Run(cb).areas = areas
             /\ Run(cb).err = "ENOERR" =>
                  /\ memory \in [1..cb.n -> CellOf(TypeOf(rq))]
                  /\ Run(cb).data = [m \in 1..cb.n |-> OnWire(TypeOf(rq), memory[m])]
                  /\ \A m \in 1..cb.n :
                        << <<TypeOf(rq), rq.addr + m - 1>>, OnWire(TypeOf(rq), memory[m]) >> \in MapOf(areas)
<1> DEFINE type == TypeOf(rq)
           addr == rq.addr
           n    == cb.n
           i    == Find(areas, type, addr, n)
           area == areas[type][i]
           place  == addr - area.start
           memory == Memory(areas, type, addr, n)
<1>1. rq.fn \in Readers /\ cb = Callback(type, "READ", addr, n, <<>>) /\ n \in Nat \ {0} /\ addr \in Nat
  BY DEF ReadsFor
<1>2. cb.type = type /\ cb.addr = addr /\ cb.mode = "READ"
  BY <1>1 DEF Callback
<1>3. type \in AreaTypes
  BY <1>1 DEF TypeOf, Readers, AreaTypes
<1>3a. n \in Nat \ {0} /\ addr \in Nat
  BY <1>1
<1> HIDE DEF type
<1>4. CASE Holding(areas, type, addr, n) = {}
  <2>1. Run(cb) = Fails("ENOREG", areas)
    BY <1>2, <1>3, <1>4 DEF Run, HoldingCb, CoilsCb, InputCb, DiscreteCb, AreaTypes
  <2> QED
    BY <2>1 DEF Fails
<1>5. CASE Holding(areas, type, addr, n) # {}
  <2>1. i \in DOMAIN areas[type] /\ Holds(type, area, addr, n) /\ IsArea(type, area)
    BY <1>1, <1>3, <1>5, Found, AreasAre
  <2>2. /\ memory \in [1..n -> CellOf(type)]
        /\ \A m \in 1..n : /\ memory[m] = area.data[place + m - 1]
                           /\ << <<type, addr + m - 1>>, OnWire(type, memory[m]) >> \in MapOf(areas)
    <3>1. Shows(areas, type, i, addr, n)
      <4> HIDE DEF i, n, addr
      <4> QED
        BY <1>3, <1>3a, <2>1, MemoryIs
    <3> HIDE DEF i, n, addr
    <3> QED
      BY <3>1 DEF Shows
  <2> HIDE DEF memory
  <2>3. memory = Taken(area, place, n)
    BY <2>2 DEF Taken
  <2>4. Run(cb) = Fails("EINVAL", areas) \/
        /\ Run(cb).err = "ENOERR" /\ Run(cb).areas = areas
        /\ Run(cb).data = IF type \in RegisterTypes THEN Swapped(Taken(area, RegisterPlace(area, addr), n))
                          ELSE Taken(area, place, n)
    <3>1. CASE type = "INPUT"
      BY <1>2, <1>5, <3>1 DEF Run, InputCb, RegisterTypes
    <3>2. CASE type = "HOLDING"
      <4>1. Run(cb) = HoldingRead(areas, addr, n)
        BY <1>2, <1>5, <3>2 DEF Run, HoldingCb
      <4> QED
        BY <3>2, <4>1 DEF HoldingRead, RegisterTypes
    <3>3. CASE type = "COIL"
      <4>1. Run(cb) = CoilsRead(areas, addr, n)
        BY <1>2, <1>5, <3>3 DEF Run, CoilsCb
      <4> QED
        BY <3>3, <4>1 DEF CoilsRead, RegisterTypes, BitPlace
    <3>4. CASE type = "DISCRETE"
      BY <1>2, <1>5, <3>4 DEF Run, DiscreteCb, RegisterTypes, BitPlace
    <3> QED
      BY <1>3, <3>1, <3>2, <3>3, <3>4 DEF AreaTypes
  <2>5. type \in RegisterTypes => RegisterPlace(area, addr) = place
    BY <1>1, <2>1, PlaceIs DEF Narrow
  <2> HIDE DEF area, place, i
  <2>6. type \in RegisterTypes => Swapped(memory) = [m \in 1..n |-> OnWire(type, memory[m])]
    BY <2>2 DEF Swapped, OnWire
  <2>7. type \notin RegisterTypes => memory = [m \in 1..n |-> OnWire(type, memory[m])]
    BY <2>2 DEF OnWire
  <2>8. Run(cb).err = "ENOERR" => Run(cb).data = [m \in 1..n |-> OnWire(type, memory[m])]
    BY <2>3, <2>4, <2>5, <2>6, <2>7 DEF Fails
  <2>9. Run(cb).err \in {"ENOERR", "EINVAL"} /\ Run(cb).areas = areas
    BY <2>4 DEF Fails
  <2> QED
    BY <2>2, <2>8, <2>9 DEF memory, type
<1> QED
  BY <1>4, <1>5

-------------------------------------------------------------------------------
(* What they tell the slave's application, and the requests of a master.   *)

Events == {"none", "INPUT_RD", "HOLDING_RD", "HOLDING_WR", "COILS_RD", "COILS_WR", "DISCRETE_RD"}
Infos  == [event : Events, addr : Nat, size : Nat]

\* The cells of a callback
RangeOf(cb) == {<<cb.type, a>> : a \in cb.addr..cb.addr + cb.n - 1}

LEMMA InfoIs ==
  ASSUME NEW event \in Events, NEW addr \in Nat, NEW n \in Nat
  PROVE  Info(event, addr, n) \in Infos
BY DEF Info, Infos

LEMMA ExceptionIs == \A err \in {"ENOREG", "EINVAL"} : ExceptionOf(err) # "NONE"
BY DEF ExceptionOf

\* However the areas are laid out, a callback fails or tells of what it has done.
LEMMA WriteTells ==
  ASSUME NEW rq, NEW cb, WritesFor(cb, rq)
  PROVE  /\ cb.mode = "WRITE"
         /\ Run(cb).err \in {"ENOERR", "ENOREG", "EINVAL"}
         /\ Run(cb).err = "ENOERR" => Run(cb).info \in Infos /\ Told(Run(cb).info) = RangeOf(cb)
<1> DEFINE type == TypeOf(rq)
           addr == rq.waddr
           n    == rq.wcnt
           data == rq.data
<1>1. /\ rq.fn \in Writers /\ cb = Callback(type, "WRITE", addr, n, data)
      /\ n \in Nat \ {0} /\ addr \in Nat
  BY DEF WritesFor
<1>2. /\ cb.type = type /\ cb.addr = addr /\ cb.n = n /\ cb.mode = "WRITE" /\ cb.data = data
  BY <1>1 DEF Callback
<1>3. type \in {"HOLDING", "COIL"}
  BY <1>1 DEF TypeOf, Writers
<1>4. n \in Nat /\ addr \in Nat
  BY <1>1
<1> HIDE DEF type, addr, n, data
<1>5. \A i : Fails(i, areas).err = i
  BY DEF Fails
<1>6. CASE type = "HOLDING"
  <2> DEFINE info == Info("HOLDING_WR", addr, n)
  <2>1. Run(cb) = HoldingCb(areas, addr, n, "WRITE", data)
    BY <1>2, <1>6 DEF Run
  <2>2. \/ Run(cb) = Fails("ENOREG", areas)
        \/ Run(cb) = HoldingWrite(areas, addr, n, data)
    BY <2>1 DEF HoldingCb
  <2>3. \/ HoldingWrite(areas, addr, n, data) = Fails("EINVAL", areas)
        \/ /\ HoldingWrite(areas, addr, n, data).err = "ENOERR"
           /\ HoldingWrite(areas, addr, n, data).info = info
    BY DEF HoldingWrite
  <2>4. info \in Infos
    BY <1>4, InfoIs DEF Events
  <2>5. Told(info) = RangeOf(cb)
    BY <1>2, <1>6 DEF Told, Info, RangeOf
  <2> HIDE DEF info
  <2> QED
    BY <1>2, <1>5, <2>2, <2>3, <2>4, <2>5
<1>7. CASE type = "COIL"
  <2> DEFINE info == Info("COILS_WR", addr, n)
  <2>1. Run(cb) = CoilsCb(areas, addr, n, "WRITE", data)
    BY <1>2, <1>7 DEF Run
  <2>2. \/ Run(cb) = Fails("ENOREG", areas)
        \/ Run(cb) = CoilsWrite(areas, addr, n, data)
    BY <2>1 DEF CoilsCb
  <2>3. \/ CoilsWrite(areas, addr, n, data) = Fails("EINVAL", areas)
        \/ /\ CoilsWrite(areas, addr, n, data).err = "ENOERR"
           /\ CoilsWrite(areas, addr, n, data).info = info
    BY DEF CoilsWrite
  <2>4. info \in Infos
    BY <1>4, InfoIs DEF Events
  <2>5. Told(info) = RangeOf(cb)
    BY <1>2, <1>7 DEF Told, Info, RangeOf
  <2> HIDE DEF info
  <2> QED
    BY <1>2, <1>5, <2>2, <2>3, <2>4, <2>5
<1> QED
  BY <1>3, <1>6, <1>7

LEMMA ReadTells ==
  ASSUME NEW rq, NEW cb, ReadsFor(cb, rq)
  PROVE  /\ cb.mode = "READ"
         /\ Run(cb).err \in {"ENOERR", "ENOREG", "EINVAL"}
         /\ Run(cb).err = "ENOERR" => Run(cb).info \in Infos /\ DOMAIN Run(cb).data = 1..cb.n
<1> DEFINE type == TypeOf(rq)
           addr == rq.addr
           n    == cb.n
<1>1. rq.fn \in Readers /\ cb = Callback(type, "READ", addr, n, <<>>) /\ n \in Nat \ {0} /\ addr \in Nat
  BY DEF ReadsFor
<1>2. cb.type = type /\ cb.addr = addr /\ cb.mode = "READ"
  BY <1>1 DEF Callback
<1>3. type \in AreaTypes
  BY <1>1 DEF TypeOf, Readers, AreaTypes
<1>4. n \in Nat /\ addr \in Nat
  BY <1>1
<1> DEFINE Good(r) == /\ r.err \in {"ENOERR", "ENOREG", "EINVAL"}
                      /\ r.err = "ENOERR" => r.info \in Infos /\ DOMAIN r.data = 1..n
<1> HIDE DEF type
<1>5. \A err \in {"ENOREG", "EINVAL"} : Good(Fails(err, areas))
  BY DEF Fails
<1>6. \A area, place : /\ DOMAIN Taken(area, place, n) = 1..n
                       /\ DOMAIN Swapped(Taken(area, place, n)) = 1..n
  BY DEF Taken, Swapped
<1>7. n % 8 \in Nat
  BY <1>4
<1>8. \A event \in Events : Info(event, addr, n) \in Infos /\ Info(event, addr, n % 8) \in Infos
  BY <1>4, <1>7, InfoIs
<1> HIDE DEF addr, n
<1>9. CASE type = "INPUT"
  <2>1. Run(cb) = InputCb(areas, addr, n)
    BY <1>2, <1>9 DEF Run, n
  <2> QED
    BY <1>2, <1>5, <1>6, <1>8, <2>1 DEF InputCb, Events, n
<1>10. CASE type = "HOLDING"
  <2>1. Run(cb) = HoldingCb(areas, addr, n, "READ", cb.data)
    BY <1>2, <1>10 DEF Run, n
  <2>2. Run(cb) = Fails("ENOREG", areas) \/ Run(cb) = HoldingRead(areas, addr, n)
    BY <2>1 DEF HoldingCb
  <2> QED
    BY <1>2, <1>5, <1>6, <1>8, <2>2 DEF HoldingRead, Events, n
<1>11. CASE type = "COIL"
  <2>1. Run(cb) = CoilsCb(areas, addr, n, "READ", cb.data)
    BY <1>2, <1>11 DEF Run, n
  <2>2. Run(cb) = Fails("ENOREG", areas) \/ Run(cb) = CoilsRead(areas, addr, n)
    BY <2>1 DEF CoilsCb
  <2> QED
    BY <1>2, <1>5, <1>6, <1>8, <2>2 DEF CoilsRead, Events, n
<1>12. CASE type = "DISCRETE"
  <2>1. Run(cb) = DiscreteCb(areas, addr, n)
    BY <1>2, <1>12 DEF Run, n
  <2> QED
    BY <1>2, <1>5, <1>6, <1>8, <2>1 DEF DiscreteCb, Events, n
<1> QED
  BY <1>3, <1>9, <1>10, <1>11, <1>12 DEF AreaTypes

\* A request of the master's application becomes a frame, or is refused.
LEMMA RequestIs ==
  ASSUME NEW c, IsCall(c)
  PROVE  Request(c) = NoFrame \/ (IsFrame(Request(c)) /\ Request(c).fn = c.fn /\ Request(c).cnt \in {1, c.size}
                                  /\ Request(c).fits)
<1>1. /\ c.fn \in Readers \cup Writers /\ c.addr \in Nat /\ c.size \in Nat
      /\ c.fn \in {"WriteCoil", "WriteHolding"} => c.size # 0
      /\ c.buf \in [1..c.size -> IF c.fn = "WriteCoil" THEN {<<b>> : b \in Byte}
                                 ELSE CellOf(TypeOf(c))]
  BY DEF IsCall
<1> DEFINE rq == Request(c)
           Shape(fn, cnt, data) ==
             /\ fn \in Readers \cup Writers /\ cnt \in Nat
             /\ fn \in {"WriteCoil", "WriteHolding"} => cnt = 1
             /\ fn \in Writers => data \in [1..cnt -> IF fn = "WriteCoil" THEN {<<b>> : b \in Byte}
                                                      ELSE CellOf(TypeOf([fn |-> fn]))]
           Good(f, fn, cnt) == IsFrame(f) /\ f.fn = fn /\ f.cnt = cnt /\ f.fits
<1>2. ASSUME NEW fn, NEW cnt, NEW bytes \in Nat, NEW data, Shape(fn, cnt, data)
      PROVE  Good(Frame(fn, c.addr, cnt, bytes, data), fn, cnt)
  <2> DEFINE f == Frame(fn, c.addr, cnt, bytes, data)
  <2>1. /\ f.fn = fn /\ f.addr = c.addr /\ f.cnt = cnt /\ f.waddr = c.addr /\ f.wcnt = cnt
        /\ f.bytes = bytes /\ f.data = data /\ f.fits = TRUE
        /\ f \in [fn : {fn}, addr : {c.addr}, cnt : {cnt}, waddr : {c.addr}, wcnt : {cnt},
                  bytes : {bytes}, data : {data}, fits : {TRUE}]
    BY DEF Frame
  <2> HIDE DEF f
  <2>2. TypeOf(f) = TypeOf([fn |-> fn])
    BY <2>1 DEF TypeOf
  <2>3. f \in [fn : Readers \cup Writers \cup {"Unknown"}, addr : Nat, cnt : Nat, waddr : Nat,
               wcnt : Nat, bytes : Nat, data : {f.data}, fits : BOOLEAN]
    BY <1>1, <1>2, <2>1
  <2>4. IsFrame(f)
    BY <1>2, <2>1, <2>2, <2>3 DEF IsFrame
  <2> QED
    BY <2>1, <2>4 DEF f
<1>3. \A n \in Nat : BitBytes(n) \in Nat /\ RegisterBytes(n) \in Nat
  BY DEF BitBytes, RegisterBytes, ByteTop
<1>3a. TypeOf([fn |-> c.fn]) = TypeOf(c)
  BY DEF TypeOf
<1> SUFFICES rq = NoFrame \/ Good(rq, c.fn, c.size) \/ Good(rq, c.fn, 1)
  OBVIOUS
<1>4. CASE c.fn \in {"ReadCoils", "ReadDiscrete", "ReadInput", "ReadHolding"}
  <2>1. rq = Frame(c.fn, c.addr, c.size, 0, <<>>)
    BY <1>4 DEF Request, RqReadCoils, RqReadDiscrete, RqReadInput, RqReadHolding
  <2>2. c.fn \notin Writers /\ c.fn \in Readers
    BY <1>4 DEF Writers, Readers
  <2>3. Shape(c.fn, c.size, <<>>)
    BY <1>1, <1>4, <2>2
  <2> HIDE DEF rq, Shape, Good
  <2> QED
    BY <1>2, <2>1, <2>3
<1>5. CASE c.fn = "WriteCoil"
  <2> DEFINE one == <<c.buf[1]>>
  <2>1. rq = NoFrame \/ rq = Frame("WriteCoil", c.addr, 1, 0, one)
    BY <1>5 DEF Request, RqWriteCoil
  <2>2. one \in [1..1 -> {<<b>> : b \in Byte}]
    BY <1>1, <1>5
  <2> HIDE DEF one
  <2>3. Shape("WriteCoil", 1, one)
    BY <2>2 DEF Writers
  <2> HIDE DEF rq, Shape, Good
  <2> QED
    BY <1>2, <1>5, <2>1, <2>3
<1>6. CASE c.fn = "WriteCoils"
  <2>1. rq = NoFrame \/ rq = Frame("WriteCoils", c.addr, c.size, BitBytes(c.size), c.buf)
    BY <1>6 DEF Request, RqWriteCoils
  <2>2. Shape("WriteCoils", c.size, c.buf)
    BY <1>1, <1>3a, <1>6
  <2>3. BitBytes(c.size) \in Nat
    BY <1>1, <1>3
  <2> HIDE DEF rq, Shape, Good
  <2> QED
    BY <1>2, <1>6, <2>1, <2>2, <2>3
<1>7. CASE c.fn \in {"WriteHolding", "WriteHoldings", "RwHoldings"}
  <2> DEFINE one == <<c.buf[1]>>
  <2>1. CellOf(TypeOf(c)) = Byte \X Byte
    BY <1>7 DEF TypeOf, CellOf, RegisterTypes
  <2>2. c.buf \in [1..c.size -> Byte \X Byte]
    BY <1>1, <1>7, <2>1
  <2>3. Swapped(c.buf) \in [1..c.size -> Byte \X Byte]
    BY <1>1, <2>2, SwappedIs
  <2>4. c.fn = "WriteHolding" => one \in [1..1 -> Byte \X Byte]
    BY <1>1, <2>2
  <2> HIDE DEF one
  <2>5. c.fn = "WriteHolding" => Swapped(one) \in [1..1 -> Byte \X Byte]
    BY <2>4, SwappedIs
  <2>6. \/ c.fn = "WriteHolding" /\ rq = Frame(c.fn, c.addr, 1, 0, Swapped(one))
        \/ /\ c.fn \in {"WriteHoldings", "RwHoldings"}
           /\ rq = Frame(c.fn, c.addr, c.size, RegisterBytes(c.size), Swapped(c.buf))
    BY <1>7 DEF Request, RqWriteHolding, RqWriteHoldings, RqRwHoldings, one
  <2>7. c.fn = "WriteHolding" => Shape(c.fn, 1, Swapped(one))
    BY <1>1, <1>3a, <1>7, <2>1, <2>5
  <2>8. c.fn \in {"WriteHoldings", "RwHoldings"} => Shape(c.fn, c.size, Swapped(c.buf))
    BY <1>1, <1>3a, <1>7, <2>1, <2>3
  <2>9. RegisterBytes(c.size) \in Nat
    BY <1>1, <1>3
  <2> HIDE DEF rq, Shape, Good
  <2> QED
    BY <1>2, <2>6, <2>7, <2>8, <2>9
<1> QED
  BY <1>1, <1>4, <1>5, <1>6, <1>7 DEF Readers, Writers

-------------------------------------------------------------------------------
(* Where a request, a call and the slave can be.                           *)

\* The callbacks the slave is still to make: to write and perhaps then to read, or to read
Writing(calls, rq) ==
  /\ WritesFor(calls[1], rq)
  /\ \/ calls = <<calls[1]>> /\ rq.fn \notin Readers
     \/ calls = <<calls[1], calls[2]>> /\ ReadsFor(calls[2], rq)

Reading(calls, rq) == calls = <<calls[1]>> /\ ReadsFor(calls[1], rq)

\* What is done before the read of a request
Earlier(rq) == IF rq.fn \in Writers THEN {"WRITE"} ELSE {}

Stages == {"idle", "execute", "call", "notify", "info", "answer"}

\* Where the slave is with a request
Stage(s) ==
  /\ s \in [phase : Stages, from : Masters, rq : {s.rq}, calls : {s.calls},
            done : SUBSET {"READ", "WRITE"}, data : {s.data}, ex : {s.ex}, info : {s.info}, no : Nat]
  /\ s.phase \in {"idle", "execute", "answer"} => s.calls = <<>>
  /\ s.phase = "execute" => IsFrame(s.rq) /\ s.done = {} /\ s.data = <<>>
  /\ s.phase = "call" =>
        /\ s.data = <<>>
        /\ \/ Writing(s.calls, s.rq) /\ s.done = {}
           \/ Reading(s.calls, s.rq) /\ s.done = Earlier(s.rq)
  /\ s.phase \in {"notify", "info"} =>
        /\ s.info \in Infos
        /\ \/ /\ Writing(s.calls, s.rq) /\ s.done = {"WRITE"} /\ s.data = <<>>
              /\ Told(s.info) = RangeOf(s.calls[1])
           \/ /\ Reading(s.calls, s.rq) /\ s.done = Earlier(s.rq) \cup {"READ"}
              /\ DOMAIN s.data = 1..s.calls[1].n

Calling(c) ==
  c \in [kind : {"none", "raw", "set", "get"}, param : {c.param}, value : {c.value}, fn : {c.fn},
         addr : {c.addr}, size : {c.size}, buf : {c.buf}, rq : {c.rq},
         state : {"none", "sent", "done"}, ex : {c.ex}, no : Nat]

OnWay(w) ==
  \/ w = Nothing
  \/ /\ w.kind = "request"
     /\ w = [kind |-> "request", frame |-> w.frame, no |-> w.no] /\ IsFrame(w.frame) /\ w.no \in Nat
  \/ /\ w.kind = "answer"
     /\ w = [kind |-> "answer", answer |-> w.answer]

Control ==
  /\ next \in 1..Len(AreaList) + 1
  /\ queue \in Seq(Infos) /\ Len(queue) =< QueueSize
  /\ app \in {"wait", "take"} /\ dropped \in BOOLEAN
  /\ asks \in Nat /\ asks =< MaxAsks /\ faults \in Nat /\ faults =< MaxFaults
  /\ DOMAIN wire = Masters /\ \A m \in Masters : OnWay(wire[m])
  /\ Calling(call)
  /\ Stage(slave)

Numbered ==
  /\ call.no =< asks /\ slave.no =< asks
  /\ call.state = "sent" => call.no >= 1
  /\ wire["foreign"].kind = "request" => wire["foreign"].no = 0
  /\ wire["own"].kind = "request" => wire["own"].frame = call.rq /\ wire["own"].no = call.no
  /\ Awaited => slave.rq = call.rq /\ wire["own"] = Nothing

Registers(n) == [1..n -> Byte \X Byte]

\* Nothing is lost on the way to the slave's application.
Noticed ==
  /\ ~dropped => \A x \in unseen :
        \/ \E i \in DOMAIN queue : x \in Told(queue[i])
        \/ slave.phase \in {"notify", "info"} /\ x \in Told(slave.info)
  /\ app = "wait" => queue = <<>> \/ bits # {}
  /\ app = "wait" /\ slave.phase = "info" => bits # {}

-------------------------------------------------------------------------------
(* The steps of the slave's stack task.                                    *)

LEMMA PlanIs ==
  ASSUME NEW calls, NEW rq, Plan(calls, rq)
  PROVE  \/ Writing(calls, rq)
         \/ Reading(calls, rq) /\ rq.fn \notin Writers
<1>1. CASE \E w : calls = <<w>> /\ WritesFor(w, rq) /\ rq.fn \notin Readers
  BY <1>1 DEF Writing
<1>2. CASE \E w, r : calls = <<w, r>> /\ WritesFor(w, rq) /\ ReadsFor(r, rq)
  BY <1>2 DEF Writing
<1>3. CASE \E r : calls = <<r>> /\ ReadsFor(r, rq) /\ rq.fn \notin Writers
  BY <1>3 DEF Reading
<1> QED
  BY <1>1, <1>2, <1>3 DEF Plan

LEMMA CallsAre ==
  ASSUME NEW calls, NEW rq, Writing(calls, rq) \/ Reading(calls, rq)
  PROVE  /\ calls # <<>> /\ Head(calls) = calls[1] /\ Len(calls) \in {1, 2}
         /\ Reading(calls, rq) => Len(calls) = 1
         /\ Writing(calls, rq) /\ Len(calls) = 1 => rq.fn \notin Readers
         /\ Writing(calls, rq) => rq.fn \in Writers
         /\ Writing(calls, rq) /\ Len(calls) # 1 => Reading(Tail(calls), rq) /\ rq.fn \in Writers
<1>1. CASE Reading(calls, rq)
  <2>1. calls = <<calls[1]>>
    BY <1>1 DEF Reading
  <2>2. calls # <<>> /\ Head(calls) = calls[1] /\ Len(calls) = 1
    BY <2>1, Literals
  <2>3. ~Writing(calls, rq) \/ rq.fn \notin Readers
    <3>1. \A a, b : <<a>> # <<a, b>>
      OBVIOUS
    <3> QED
      BY <2>1, <3>1 DEF Writing
  <2>4. rq.fn \in Readers
    BY <1>1 DEF Reading, ReadsFor
  <2> QED
    BY <1>1, <2>2, <2>3, <2>4
<1>2. CASE Writing(calls, rq) /\ calls = <<calls[1]>>
  <2>1. calls # <<>> /\ Head(calls) = calls[1] /\ Len(calls) = 1
    BY <1>2, Literals
  <2>2. rq.fn \notin Readers
    <3>1. calls # <<calls[1], calls[2]>>
      BY <2>1, Literals
    <3> QED
      BY <1>2, <3>1 DEF Writing
  <2> QED
    BY <1>2, <2>1, <2>2 DEF Writing, WritesFor, Reading
<1>3. CASE Writing(calls, rq) /\ calls = <<calls[1], calls[2]>> /\ ReadsFor(calls[2], rq)
  <2>1. calls # <<>> /\ Head(calls) = calls[1] /\ Len(calls) = 2 /\ Tail(calls) = <<calls[2]>>
    <3> DEFINE x == calls[1]
               y == calls[2]
    <3>1. calls = <<x, y>>
      BY <1>3
    <3> HIDE DEF x, y
    <3>2. calls # <<>> /\ Head(calls) = x /\ Len(calls) = 2 /\ Tail(calls) = <<y>>
      BY <3>1, Literals
    <3> QED
      BY <3>2 DEF x, y
  <2>2. Reading(Tail(calls), rq)
    BY <1>3, <2>1 DEF Reading
  <2>3. calls # <<calls[1]>>
    <3>1. Len(<<calls[1]>>) = 1
      BY Literals
    <3> QED
      BY <2>1, <3>1
  <2>4. ~Reading(calls, rq) /\ rq.fn \in Writers
    BY <1>3, <2>3 DEF Reading, Writing, WritesFor
  <2> QED
    BY <2>1, <2>2, <2>4
<1> QED
  BY <1>1, <1>2, <1>3 DEF Writing

\* The fields of the slave and of the call can be set.
LEMMA StageFields ==
  ASSUME NEW s, Stage(s)
  PROVE  s = [phase |-> s.phase, from |-> s.from, rq |-> s.rq, calls |-> s.calls, done |-> s.done,
              data |-> s.data, ex |-> s.ex, info |-> s.info, no |-> s.no]
         /\ s.phase \in Stages /\ s.from \in Masters /\ s.done \in SUBSET {"READ", "WRITE"} /\ s.no \in Nat
BY DEF Stage

StageRecord(s) ==
  s \in [phase : Stages, from : Masters, rq : {s.rq}, calls : {s.calls},
         done : SUBSET {"READ", "WRITE"}, data : {s.data}, ex : {s.ex}, info : {s.info}, no : Nat]

LEMMA AnsweredIs ==
  ASSUME NEW s, Stage(s), NEW e
  PROVE  /\ Stage(Answered(s, e))
         /\ LET a == Answered(s, e)
            IN  a.phase = "answer" /\ a.ex = e /\ a.calls = <<>> /\ a.rq = s.rq /\ a.data = s.data
                /\ a.done = s.done /\ a.no = s.no
<1> DEFINE a == Answered(s, e)
<1>1. s = [phase |-> s.phase, from |-> s.from, rq |-> s.rq, calls |-> s.calls, done |-> s.done,
              data |-> s.data, ex |-> s.ex, info |-> s.info, no |-> s.no]
         /\ s.phase \in Stages /\ s.from \in Masters /\ s.done \in SUBSET {"READ", "WRITE"} /\ s.no \in Nat
  BY StageFields
<1>2. a = [phase |-> "answer", from |-> s.from, rq |-> s.rq, calls |-> <<>>, done |-> s.done,
           data |-> s.data, ex |-> e, info |-> s.info, no |-> s.no]
  <2>1. a = [s EXCEPT !.phase = "answer", !.ex = e, !.calls = <<>>]
    BY DEF Answered
  <2> HIDE DEF a
  <2> QED
    BY <1>1, <2>1
<1> HIDE DEF a
<1>3. StageRecord(a)
  BY <1>1, <1>2 DEF StageRecord, Stages
<1>4. Stage(a)
  BY <1>2, <1>3 DEF Stage, StageRecord
<1> QED
  BY <1>2, <1>4 DEF a

LEMMA NextDone ==
  ASSUME NEW s, Stage(s), s.phase = "info"
  PROVE  LET d == CallbackDone(s)
         IN  /\ Stage(d) /\ d.rq = s.rq /\ d.data = s.data /\ d.done = s.done /\ d.no = s.no
             /\ \/ Len(s.calls) = 1 /\ d.phase = "answer" /\ d.ex = "NONE"
                \/ Len(s.calls) # 1 /\ d.phase = "call" /\ d.calls = Tail(s.calls)
<1> DEFINE d == CallbackDone(s)
<1>1. Writing(s.calls, s.rq) \/ Reading(s.calls, s.rq)
  BY DEF Stage
<1>2. CASE Len(s.calls) = 1
  <2>1. d = Answered(s, "NONE")
    BY <1>2 DEF CallbackDone
  <2> QED
    BY <1>2, <2>1, AnsweredIs
<1>3. CASE Len(s.calls) # 1
  <2>1. /\ s = [phase |-> s.phase, from |-> s.from, rq |-> s.rq, calls |-> s.calls, done |-> s.done,
              data |-> s.data, ex |-> s.ex, info |-> s.info, no |-> s.no]
        /\ s.phase \in Stages /\ s.from \in Masters /\ s.done \in SUBSET {"READ", "WRITE"} /\ s.no \in Nat
    BY StageFields
  <2>2. d = [phase |-> "call", from |-> s.from, rq |-> s.rq, calls |-> Tail(s.calls), done |-> s.done,
              data |-> s.data, ex |-> s.ex, info |-> s.info, no |-> s.no]
    BY <1>3, <2>1 DEF CallbackDone
  <2>3. Writing(s.calls, s.rq) /\ Reading(Tail(s.calls), s.rq) /\ s.rq.fn \in Writers
    BY <1>1, <1>3, CallsAre
  <2>4. ~Reading(s.calls, s.rq)
    BY <1>3, CallsAre
  <2>5. s.done = {"WRITE"} /\ s.data = <<>>
    BY <2>4 DEF Stage
  <2> HIDE DEF d
  <2>6. StageRecord(d)
    BY <2>1, <2>2 DEF StageRecord, Stages
  <2>7. d.phase = "call" /\ d.calls = Tail(s.calls) /\ d.rq = s.rq /\ d.done = {"WRITE"} /\ d.data = <<>>
    BY <2>2, <2>5
  <2>8. Reading(d.calls, d.rq) /\ d.done = Earlier(d.rq)
    BY <2>3, <2>7 DEF Earlier
  <2>9. Stage(d)
    BY <2>6, <2>7, <2>8 DEF Stage, StageRecord
  <2> QED
    BY <1>3, <2>2, <2>9 DEF d
<1> QED
  BY <1>2, <1>3

\* One step of the stack task, by what it does with the request
LEMMA TransferIs ==
  ASSUME Stage(slave), Transfer
  PROVE  LET cb == slave.calls[1]
             r  == Run(cb)
         IN  /\ Head(slave.calls) = cb /\ slave.phase = "call" /\ slave.data = <<>>
             /\ areas' = r.areas /\ r.err \in {"ENOERR", "ENOREG", "EINVAL"}
             /\ Stage(slave') /\ slave'.rq = slave.rq /\ slave'.no = slave.no
             /\ r.err # "ENOERR" => /\ slave'.phase = "answer" /\ slave'.ex # "NONE"
                                    /\ slave'.done = slave.done /\ slave'.data = slave.data
                                    /\ unseen' = unseen
             /\ r.err = "ENOERR" => /\ slave'.phase = "notify" /\ slave'.calls = slave.calls
                                    /\ slave'.info = r.info
             /\ \/ /\ Writing(slave.calls, slave.rq) /\ slave.done = {} /\ cb.mode = "WRITE"
                   /\ r.err = "ENOERR" => /\ slave'.done = {"WRITE"} /\ slave'.data = <<>>
                                          /\ unseen' = unseen \cup Told(slave'.info)
                \/ /\ Reading(slave.calls, slave.rq) /\ slave.done = Earlier(slave.rq) /\ cb.mode = "READ"
                   /\ r.err = "ENOERR" => /\ slave'.done = Earlier(slave.rq) \cup {"READ"}
                                          /\ slave'.data = r.data /\ unseen' = unseen
<1> DEFINE s  == slave
           d  == slave'
           cb == slave.calls[1]
           r  == Run(cb)
<1>1. /\ s = [phase |-> s.phase, from |-> s.from, rq |-> s.rq, calls |-> s.calls, done |-> s.done,
              data |-> s.data, ex |-> s.ex, info |-> s.info, no |-> s.no]
      /\ s.phase \in Stages /\ s.from \in Masters /\ s.done \in SUBSET {"READ", "WRITE"} /\ s.no \in Nat
  BY StageFields
<1>2. slave.phase = "call"
  BY DEF Transfer
<1>3. /\ s.data = <<>>
      /\ \/ Writing(s.calls, s.rq) /\ s.done = {}
         \/ Reading(s.calls, s.rq) /\ s.done = Earlier(s.rq)
  BY <1>2 DEF Stage
<1>4. Head(s.calls) = cb
  BY <1>3, CallsAre
<1>5. /\ Writing(s.calls, s.rq) => WritesFor(cb, s.rq)
      /\ Reading(s.calls, s.rq) => ReadsFor(cb, s.rq)
  BY DEF Writing, Reading
<1>6. /\ Writing(s.calls, s.rq) => /\ cb.mode = "WRITE"
                                   /\ r.err = "ENOERR" => Told(r.info) = RangeOf(cb)
      /\ Reading(s.calls, s.rq) => /\ cb.mode = "READ"
                                   /\ r.err = "ENOERR" => DOMAIN r.data = 1..cb.n
      /\ r.err \in {"ENOERR", "ENOREG", "EINVAL"} /\ (r.err = "ENOERR" => r.info \in Infos)
  BY <1>3, <1>5, WriteTells, ReadTells
<1> HIDE DEF s, cb, r
<1>7. /\ areas' = r.areas
      /\ d = IF r.err # "ENOERR" THEN Answered(s, ExceptionOf(r.err))
             ELSE [s EXCEPT !.phase = "notify", !.done = @ \cup {cb.mode},
                            !.data = IF cb.mode = "READ" THEN r.data ELSE @, !.info = r.info]
      /\ unseen' = IF r.err = "ENOERR" /\ cb.mode = "WRITE" THEN unseen \cup RangeOf(cb) ELSE unseen
  BY <1>4 DEF Transfer, RangeOf, s, r
<1> HIDE DEF d
<1>8. Stage(s)
  BY DEF s
<1>9. CASE r.err # "ENOERR"
  <2>1. d = Answered(s, ExceptionOf(r.err)) /\ ExceptionOf(r.err) # "NONE" /\ unseen' = unseen
    BY <1>6, <1>7, <1>9, ExceptionIs
  <2>2. Stage(d) /\ d.phase = "answer" /\ d.ex # "NONE" /\ d.rq = s.rq /\ d.data = s.data
        /\ d.done = s.done /\ d.no = s.no
    BY <1>8, <2>1, AnsweredIs
  <2> QED
    BY <1>2, <1>3, <1>4, <1>6, <1>7, <1>9, <2>1, <2>2 DEF s, d, cb, r
<1>10. CASE r.err = "ENOERR"
  <2>1. d = [phase |-> "notify", from |-> s.from, rq |-> s.rq, calls |-> s.calls,
             done |-> s.done \cup {cb.mode}, data |-> IF cb.mode = "READ" THEN r.data ELSE s.data,
             ex |-> s.ex, info |-> r.info, no |-> s.no]
    BY <1>1, <1>7, <1>10
  <2>2. cb.mode \in {"READ", "WRITE"}
    BY <1>3, <1>6
  <2>3. StageRecord(d)
    BY <1>1, <2>1, <2>2 DEF StageRecord, Stages
  <2>4. d.phase = "notify" /\ d.rq = s.rq /\ d.calls = s.calls /\ d.info = r.info /\ d.no = s.no
        /\ d.done = s.done \cup {cb.mode} /\ d.data = IF cb.mode = "READ" THEN r.data ELSE s.data
    BY <2>1
  <2>5. CASE Writing(s.calls, s.rq) /\ s.done = {}
    <3>1. cb.mode = "WRITE" /\ Told(d.info) = RangeOf(cb) /\ d.info \in Infos
      BY <1>6, <1>10, <2>4, <2>5
    <3>2. d.done = {"WRITE"} /\ d.data = <<>> /\ unseen' = unseen \cup Told(d.info)
      BY <1>3, <1>7, <1>10, <2>4, <2>5, <3>1
    <3>3. Stage(d)
      BY <2>3, <2>4, <2>5, <3>1, <3>2 DEF Stage, StageRecord, cb, s
    <3> QED
      BY <1>2, <1>3, <1>4, <1>6, <1>7, <1>10, <2>4, <2>5, <3>1, <3>2, <3>3 DEF s, d, cb, r
  <2>6. CASE Reading(s.calls, s.rq) /\ s.done = Earlier(s.rq)
    <3>1. cb.mode = "READ" /\ DOMAIN d.data = 1..cb.n /\ d.info \in Infos
      BY <1>6, <1>10, <2>4, <2>6
    <3>2. d.done = Earlier(s.rq) \cup {"READ"} /\ d.data = r.data /\ unseen' = unseen
      BY <1>7, <1>10, <2>4, <2>6, <3>1
    <3>3. Stage(d)
      BY <2>3, <2>4, <2>6, <3>1, <3>2 DEF Stage, StageRecord, cb, s
    <3> QED
      BY <1>2, <1>3, <1>4, <1>6, <1>7, <1>10, <2>4, <2>6, <3>1, <3>2, <3>3 DEF s, d, cb, r
  <2> QED
    BY <1>3, <2>5, <2>6
<1> QED
  BY <1>9, <1>10

-------------------------------------------------------------------------------
(* The steps of all keep this, and the notice of every write.              *)

LEMMA IdleIs == Stage(Idle) /\ Idle.phase = "idle" /\ Idle.no = 0 /\ Idle.done = {} /\ Idle.data = <<>>
<1> DEFINE s == Idle
<1>1. s = [phase |-> "idle", from |-> "own", rq |-> NoFrame, calls |-> <<>>,
           done |-> {}, data |-> <<>>, ex |-> "NONE", info |-> Info("none", 0, 0), no |-> 0]
  BY DEF Idle
<1> HIDE DEF s
<1>2. StageRecord(s)
  BY <1>1 DEF StageRecord, Stages, Masters
<1>3. Stage(s)
  BY <1>1, <1>2 DEF Stage, StageRecord
<1> QED
  BY <1>1, <1>3 DEF s

\* A request that is taken
LEMMA TakeIs ==
  ASSUME Control, Take
  PROVE  \E m \in Masters :
           /\ wire[m].kind = "request" /\ wire' = [wire EXCEPT ![m] = Nothing]
           /\ Stage(slave') /\ slave'.phase = "execute" /\ slave'.rq = wire[m].frame
           /\ slave'.no = wire[m].no /\ IsFrame(slave'.rq) /\ slave'.done = {} /\ slave'.data = <<>>
<1>1. PICK m \in Masters :
        /\ wire[m].kind = "request"
        /\ slave' = [Idle EXCEPT !.phase = "execute", !.from = m, !.rq = wire[m].frame,
                                 !.no = wire[m].no]
        /\ wire' = [wire EXCEPT ![m] = Nothing]
  BY DEF Take
<1> DEFINE d == slave'
           f == wire[m].frame
           k == wire[m].no
<1>2. IsFrame(f) /\ k \in Nat
  BY <1>1 DEF Control, OnWay, Nothing
<1>3. d = [phase |-> "execute", from |-> m, rq |-> f, calls |-> <<>>,
           done |-> {}, data |-> <<>>, ex |-> "NONE", info |-> Info("none", 0, 0), no |-> k]
  <2>1. d = [Idle EXCEPT !.phase = "execute", !.from = m, !.rq = f, !.no = k]
    BY <1>1
  <2> HIDE DEF d, f, k
  <2> QED
    BY <2>1 DEF Idle
<1> HIDE DEF d, f, k
<1>4. StageRecord(d)
  BY <1>2, <1>3 DEF StageRecord, Stages
<1>5. d.phase = "execute" /\ d.rq = f /\ d.no = k /\ d.calls = <<>> /\ d.done = {} /\ d.data = <<>>
  BY <1>3
<1>6. Stage(d)
  BY <1>2, <1>4, <1>5 DEF Stage, StageRecord
<1>7. /\ Stage(slave') /\ slave'.phase = "execute" /\ slave'.rq = wire[m].frame
      /\ slave'.no = wire[m].no /\ IsFrame(slave'.rq) /\ slave'.done = {} /\ slave'.data = <<>>
  BY <1>2, <1>5, <1>6 DEF d, f, k
<1> QED
  BY <1>1, <1>7

LEMMA ExecuteIs ==
  ASSUME Stage(slave), Execute
  PROVE  /\ IsFrame(slave.rq) /\ slave.done = {} /\ slave.data = <<>> /\ slave.phase = "execute"
         /\ Stage(slave') /\ slave'.rq = slave.rq /\ slave'.no = slave.no
         /\ slave'.done = {} /\ slave'.data = <<>>
         /\ \/ slave'.phase = "answer" /\ (Complete(slave.rq) => slave'.ex # "NONE")
            \/ slave'.phase = "call"
<1> DEFINE s == slave
           d == slave'
           h == SlaveHandler(slave.rq)
<1>1. /\ s = [phase |-> s.phase, from |-> s.from, rq |-> s.rq, calls |-> s.calls, done |-> s.done,
              data |-> s.data, ex |-> s.ex, info |-> s.info, no |-> s.no]
      /\ s.phase \in Stages /\ s.from \in Masters /\ s.done \in SUBSET {"READ", "WRITE"} /\ s.no \in Nat
  BY StageFields
<1>2. IsFrame(s.rq) /\ s.done = {} /\ s.data = <<>> /\ s.phase = "execute"
  BY DEF Execute, Stage
<1>3. d = IF h.calls = <<>> THEN Answered(s, h.ex) ELSE [s EXCEPT !.phase = "call", !.calls = h.calls]
  BY DEF Execute
<1>4. \/ h.calls = <<>> /\ (Complete(s.rq) => h.ex # "NONE")
      \/ Plan(h.calls, s.rq)
  BY <1>2, HandlerPlans
<1>4a. Stage(s)
  OBVIOUS
<1> HIDE DEF s, d, h
<1>5. CASE h.calls = <<>> /\ (Complete(s.rq) => h.ex # "NONE")
  <2>1. d = Answered(s, h.ex)
    BY <1>3, <1>5
  <2>2. Stage(d) /\ d.phase = "answer" /\ d.ex = h.ex /\ d.rq = s.rq /\ d.data = s.data
        /\ d.done = s.done /\ d.no = s.no
    BY <1>4a, <2>1, AnsweredIs
  <2> QED
    BY <1>2, <1>5, <2>2 DEF s, d
<1>6. CASE Plan(h.calls, s.rq)
  <2>1. Writing(h.calls, s.rq) \/ (Reading(h.calls, s.rq) /\ s.rq.fn \notin Writers)
    BY <1>6, PlanIs
  <2>2. h.calls # <<>>
    BY <2>1, CallsAre
  <2>3. d = [s EXCEPT !.phase = "call", !.calls = h.calls]
    BY <1>3, <2>2
  <2>4. d = [phase |-> "call", from |-> s.from, rq |-> s.rq, calls |-> h.calls, done |-> s.done,
             data |-> s.data, ex |-> s.ex, info |-> s.info, no |-> s.no]
    BY <1>1, <2>3
  <2>5. d.phase = "call" /\ d.calls = h.calls /\ d.rq = s.rq /\ d.no = s.no /\ d.done = {} /\ d.data = <<>>
    BY <1>2, <2>4
  <2>6. StageRecord(d)
    BY <1>1, <2>4 DEF StageRecord, Stages
  <2>7. Writing(d.calls, d.rq) \/ (Reading(d.calls, d.rq) /\ d.done = Earlier(d.rq))
    BY <2>1, <2>5 DEF Earlier
  <2>8. Stage(d)
    BY <2>5, <2>6, <2>7 DEF Stage, StageRecord
  <2> QED
    BY <1>2, <2>5, <2>8 DEF s, d
<1> QED
  BY <1>4, <1>5, <1>6

LEMMA NotifyIs ==
  ASSUME Stage(slave), Notify
  PROVE  /\ Stage(slave') /\ slave'.rq = slave.rq /\ slave'.no = slave.no /\ slave'.done = slave.done
         /\ slave'.data = slave.data /\ slave'.info = slave.info /\ slave'.calls = slave.calls
         /\ slave.phase = "notify" /\ slave'.phase = "info"
<1> DEFINE s == slave
           d == slave'
<1>1. /\ s = [phase |-> s.phase, from |-> s.from, rq |-> s.rq, calls |-> s.calls, done |-> s.done,
              data |-> s.data, ex |-> s.ex, info |-> s.info, no |-> s.no]
      /\ s.phase \in Stages /\ s.from \in Masters /\ s.done \in SUBSET {"READ", "WRITE"} /\ s.no \in Nat
  BY StageFields
<1>2. s.phase = "notify" /\ d = [s EXCEPT !.phase = "info"]
  BY DEF Notify
<1>3. Stage(s)
  OBVIOUS
<1> HIDE DEF s, d
<1>4. d = [phase |-> "info", from |-> s.from, rq |-> s.rq, calls |-> s.calls, done |-> s.done,
           data |-> s.data, ex |-> s.ex, info |-> s.info, no |-> s.no]
  BY <1>1, <1>2
<1>5. /\ d.phase = "info" /\ d.rq = s.rq /\ d.no = s.no /\ d.done = s.done /\ d.data = s.data
      /\ d.info = s.info /\ d.calls = s.calls
  BY <1>4
<1>6. StageRecord(d)
  BY <1>1, <1>4 DEF StageRecord, Stages
<1>7. Stage(d)
  BY <1>2, <1>3, <1>5, <1>6 DEF Stage, StageRecord
<1> QED
  BY <1>2, <1>5, <1>7 DEF s, d

-------------------------------------------------------------------------------
(* Control is inductive.                                                   *)

LEMMA ControlInit == Init => Control
<1> SUFFICES ASSUME Init PROVE Control
  OBVIOUS
<1>1. Len(AreaList) \in Nat /\ QueueSize \in Nat /\ MaxAsks \in Nat /\ MaxFaults \in Nat
  BY ExchangeAssumption
<1>2. Calling(call)
  BY DEF Init, NoCall, Calling
<1>3. Stage(slave)
  BY IdleIs DEF Init
<1>4. DOMAIN wire = Masters /\ \A m \in Masters : OnWay(wire[m])
  BY DEF Init, OnWay
<1>5. queue \in Seq(Infos) /\ Len(queue) =< QueueSize
  BY <1>1 DEF Init
<1>6. next \in 1..Len(AreaList) + 1
  <2> DEFINE n == Len(AreaList)
  <2>1. n \in Nat /\ next = 1
    BY <1>1 DEF Init
  <2> HIDE DEF n
  <2>2. next \in 1..n + 1
    BY <2>1
  <2> QED
    BY <2>2 DEF n
<1>7. /\ app \in {"wait", "take"} /\ dropped \in BOOLEAN
      /\ asks \in Nat /\ asks =< MaxAsks /\ faults \in Nat /\ faults =< MaxFaults
  <2>1. app = "wait" /\ dropped = FALSE /\ asks = 0 /\ faults = 0
    BY DEF Init
  <2>2. MaxAsks \in Nat /\ MaxFaults \in Nat
    BY <1>1
  <2>3. 0 =< MaxAsks /\ 0 =< MaxFaults
    BY <2>2
  <2>4. asks \in Nat /\ faults \in Nat /\ app \in {"wait", "take"} /\ dropped \in BOOLEAN
    BY <2>1
  <2>5. asks =< MaxAsks /\ faults =< MaxFaults
    BY <2>1, <2>3
  <2> QED
    BY <2>4, <2>5
<1> QED
  BY <1>2, <1>3, <1>4, <1>5, <1>6, <1>7 DEF Control

LEMMA StageStep ==
  ASSUME Control, [Next]_vars
  PROVE  Stage(slave')
<1>1. Stage(slave)
  BY DEF Control
<1>2. CASE slave' = slave
  BY <1>1, <1>2
<1>3. CASE Take
  BY <1>3, TakeIs
<1>4. CASE Execute
  BY <1>1, <1>4, ExecuteIs
<1>5. CASE Transfer
  BY <1>1, <1>5, TransferIs
<1>6. CASE Notify
  BY <1>1, <1>6, NotifyIs
<1>7. CASE Inform
  BY <1>1, <1>7, NextDone DEF Inform
<1>8. CASE Reply
  BY <1>8, IdleIs DEF Reply
<1>9. CASE Application
  BY <1>2, <1>9 DEF Application, DefineArea, AppWrite, CheckEvent, GetInfo, GetTimeout
<1>10. CASE Master
  BY <1>2, <1>10 DEF Master, AskRaw, SetParameter, GetParameter, Receive, GiveUp, Lose, ForeignAsk
<1>11. CASE UNCHANGED vars
  BY <1>2, <1>11 DEF vars
<1> QED
  BY <1>3, <1>4, <1>5, <1>6, <1>7, <1>8, <1>9, <1>10, <1>11 DEF Next, Stack

LEMMA CallStep ==
  ASSUME Control, [Next]_vars
  PROVE  Calling(call')
<1>1. Calling(call) /\ asks \in Nat
  BY DEF Control
<1>2. CASE call' = call
  BY <1>1, <1>2
<1>3. ASSUME NEW kind \in {"raw", "set", "get"}, NEW param, NEW value, NEW c, Ask(kind, param, value, c)
      PROVE  Calling(call')
  BY <1>1, <1>3 DEF Ask, Calling
<1>4. CASE AskRaw
  BY <1>3, <1>4 DEF AskRaw
<1>5. CASE SetParameter
  BY <1>3, <1>5 DEF SetParameter
<1>6. CASE GetParameter
  BY <1>3, <1>6 DEF GetParameter
<1>7. CASE Receive
  <2>1. ASSUME NEW ex, NEW buf, NEW d, d = [call EXCEPT !.state = "done", !.ex = ex, !.buf = buf]
        PROVE  Calling(d)
    BY <1>1, <2>1 DEF Calling
  <2>2. ASSUME NEW ex, NEW d, d = [call EXCEPT !.state = "done", !.ex = ex]
        PROVE  Calling(d)
    BY <1>1, <2>2 DEF Calling
  <2> QED
    BY <1>2, <1>7, <2>1, <2>2 DEF Receive
<1>8. CASE GiveUp
  <2>1. call' = [call EXCEPT !.state = "done", !.ex = "ETIMEDOUT"]
    BY <1>8 DEF GiveUp
  <2> QED
    BY <1>1, <2>1 DEF Calling
<1>9. CASE Application
  BY <1>2, <1>9 DEF Application, DefineArea, AppWrite, CheckEvent, GetInfo, GetTimeout
<1>10. CASE Lose \/ ForeignAsk
  BY <1>2, <1>10 DEF Lose, ForeignAsk
<1>11. CASE Stack
  BY <1>2, <1>11 DEF Stack, Take, Execute, Transfer, Notify, Inform, Reply
<1>12. CASE UNCHANGED vars
  BY <1>2, <1>12 DEF vars
<1> QED
  BY <1>4, <1>5, <1>6, <1>7, <1>8, <1>9, <1>10, <1>11, <1>12 DEF Next, Master

\* The calls of the application are calls.
LEMMA AskIs ==
  /\ \A c \in RawCalls : IsCall(c)
  /\ \A param \in Params : \A value \in ParamValues[param.type] :
        GetCommand(param, "write") # "none" =>
           /\ GetCommand(param, "write") = "WriteHoldings"
           /\ IsCall([fn |-> GetCommand(param, "write"), addr |-> param.addr, size |-> param.size,
                      buf |-> Pairs(Converted(param.type, param.bytes, value), param.size)])
  /\ \A param \in Params :
        GetCommand(param, "read") # "none" =>
           /\ GetCommand(param, "read") \in {"ReadHolding", "ReadInput"}
           /\ IsCall([fn |-> GetCommand(param, "read"), addr |-> param.addr, size |-> param.size,
                      buf |-> Pairs(<<>>, param.size)])
<1>1. ASSUME NEW fn \in {"ReadHolding", "ReadInput", "WriteHoldings"}, NEW addr \in Nat,
             NEW size \in Nat \ {0}, NEW buf \in [1..size -> Byte \X Byte]
      PROVE  IsCall([fn |-> fn, addr |-> addr, size |-> size, buf |-> buf])
  <2> DEFINE c == [fn |-> fn, addr |-> addr, size |-> size, buf |-> buf]
  <2>1. TypeOf(c) \in {"HOLDING", "INPUT"} /\ c.fn # "WriteCoil"
    BY DEF TypeOf
  <2>2. CellOf(TypeOf(c)) = Byte \X Byte
    BY <2>1 DEF CellOf, RegisterTypes
  <2>3. c.buf \in [1..c.size -> IF c.fn = "WriteCoil" THEN {<<b>> : b \in Byte} ELSE CellOf(TypeOf(c))]
    BY <2>1, <2>2
  <2>4. c \in [fn : Readers \cup Writers, addr : Nat, size : Nat \ {0}, buf : {c.buf}]
    BY DEF Readers, Writers
  <2> HIDE DEF c
  <2>5. IsCall(c)
    BY <2>3, <2>4 DEF IsCall
  <2> QED
    BY <2>5 DEF c
<1>2. ASSUME NEW param \in Params
      PROVE  /\ param.area \in {"HOLDING", "INPUT"} /\ param.addr \in Nat /\ param.size \in Nat \ {0}
             /\ param.type \in AllTypes /\ param.bytes \in Nat /\ param.bytes =< 2 * param.size
             /\ \A value \in ParamValues[param.type] : value \in Seq(Byte) /\ param.bytes =< Len(value)
  <2>1. IsParam(param)
        /\ \A value \in ParamValues[param.type] : value \in Seq(Byte) /\ param.bytes =< Len(value)
    BY ExchangeAssumption
  <2> QED
    BY <2>1 DEF IsParam, AllTypes
<1>3. ASSUME NEW param \in Params, GetCommand(param, "read") # "none"
      PROVE  GetCommand(param, "read") \in {"ReadHolding", "ReadInput"}
  BY <1>2, <1>3 DEF GetCommand
<1>4. ASSUME NEW param \in Params, GetCommand(param, "write") # "none"
      PROVE  GetCommand(param, "write") = "WriteHoldings"
  BY <1>2, <1>4 DEF GetCommand
<1>5. ASSUME NEW param \in Params
      PROVE  Pairs(<<>>, param.size) \in [1..param.size -> Byte \X Byte]
  <2>1. <<>> \in Seq(Byte) /\ param.size \in Nat
    BY <1>2
  <2> QED
    BY <2>1, PairsHold
<1>6. ASSUME NEW param \in Params, NEW value \in ParamValues[param.type]
      PROVE  Pairs(Converted(param.type, param.bytes, value), param.size) \in [1..param.size -> Byte \X Byte]
  <2> DEFINE last == Last(param.type, param.bytes)
             v    == Converted(param.type, param.bytes, value)
  <2>1. param.type \in AllTypes /\ param.bytes \in Nat /\ value \in Seq(Byte) /\ param.size \in Nat
        /\ param.bytes =< Len(value)
    BY <1>2
  <2>2. last \in Nat /\ last =< param.bytes
    BY <2>1, WholeFits, ElemSizes DEF Last
  <2>3. last =< Len(value)
    BY <2>1, <2>2
  <2>4. v \in [1..last -> Byte]
    BY <2>1, <2>3, ConvertedIs
  <2> HIDE DEF last, v
  <2>5. v \in Seq(Byte)
    BY <2>2, <2>4
  <2>6. Pairs(v, param.size) \in [1..param.size -> Byte \X Byte]
    BY <2>1, <2>5, PairsHold
  <2> QED
    BY <2>6 DEF v
<1>7. \A c \in RawCalls : IsCall(c)
  BY ExchangeAssumption
<1> QED
  BY <1>1, <1>2, <1>3, <1>4, <1>5, <1>6, <1>7

LEMMA WireStep ==
  ASSUME Control, [Next]_vars
  PROVE  DOMAIN wire' = Masters /\ \A m \in Masters : OnWay(wire'[m])
<1>1. DOMAIN wire = Masters /\ \A m \in Masters : OnWay(wire[m])
  BY DEF Control
<1>1a. asks + 1 \in Nat
  BY DEF Control
<1>2. CASE wire' = wire
  BY <1>1, <1>2
<1>3. ASSUME NEW m \in Masters, NEW w, OnWay(w), wire' = [wire EXCEPT ![m] = w]
      PROVE  DOMAIN wire' = Masters /\ \A k \in Masters : OnWay(wire'[k])
  BY <1>1, <1>3
<1>3a. OnWay(Nothing)
  BY DEF OnWay
<1>3b. ASSUME NEW f, NEW k \in Nat, IsFrame(f)
       PROVE  OnWay([kind |-> "request", frame |-> f, no |-> k])
  BY <1>3b DEF OnWay
<1>3c. \A a : OnWay([kind |-> "answer", answer |-> a])
  BY DEF OnWay
<1>4. ASSUME NEW kind, NEW param, NEW value, NEW c, Ask(kind, param, value, c), IsCall(c)
      PROVE  DOMAIN wire' = Masters /\ \A k \in Masters : OnWay(wire'[k])
  <2>1. CASE Request(c) = NoFrame
    BY <1>2, <1>4, <2>1 DEF Ask
  <2>2. CASE Request(c) # NoFrame
    <3> DEFINE w == [kind |-> "request", frame |-> Request(c), no |-> asks + 1]
    <3>1. wire' = [wire EXCEPT !["own"] = w]
      BY <1>4, <2>2 DEF Ask
    <3>2. OnWay(w)
      BY <1>1a, <1>3b, <1>4, <2>2, RequestIs
    <3> HIDE DEF w
    <3> QED
      BY <1>3, <3>1, <3>2 DEF Masters
  <2> QED
    BY <2>1, <2>2
<1>5. CASE AskRaw
  BY <1>4, <1>5, AskIs DEF AskRaw
<1>6. CASE SetParameter
  BY <1>4, <1>6, AskIs DEF SetParameter
<1>7. CASE GetParameter
  BY <1>4, <1>7, AskIs DEF GetParameter
<1>8. CASE Receive \/ Lose
  BY <1>3, <1>3a, <1>8 DEF Receive, Lose, Masters
<1>9. CASE ForeignAsk
  <2>1. PICK rq \in ForeignFrames :
          wire' = [wire EXCEPT !["foreign"] = [kind |-> "request", frame |-> rq, no |-> 0]]
    BY <1>9 DEF ForeignAsk
  <2>2. IsFrame(rq)
    BY ExchangeAssumption
  <2> QED
    BY <1>3, <1>3b, <2>1, <2>2 DEF Masters
<1>10. CASE Take
  BY <1>3, <1>3a, <1>10 DEF Take
<1>11. CASE Reply
  BY <1>2, <1>3, <1>3c, <1>11 DEF Reply, Masters
<1>12. CASE GiveUp \/ Execute \/ Transfer \/ Notify \/ Inform
  BY <1>2, <1>12 DEF GiveUp, Execute, Transfer, Notify, Inform
<1>13. CASE Application
  BY <1>2, <1>13 DEF Application, DefineArea, AppWrite, CheckEvent, GetInfo, GetTimeout
<1>14. CASE UNCHANGED vars
  BY <1>2, <1>14 DEF vars
<1> QED
  BY <1>5, <1>6, <1>7, <1>8, <1>9, <1>10, <1>11, <1>12, <1>13, <1>14 DEF Next, Master, Stack

LEMMA ScalarStep ==
  ASSUME Control, [Next]_vars
  PROVE  /\ next' \in 1..Len(AreaList) + 1
         /\ app' \in {"wait", "take"} /\ dropped' \in BOOLEAN
         /\ asks' \in Nat /\ asks' =< MaxAsks /\ faults' \in Nat /\ faults' =< MaxFaults
<1> DEFINE n == Len(AreaList)
<1>1. n \in Nat /\ MaxAsks \in Nat /\ MaxFaults \in Nat
  BY ExchangeAssumption
<1>2. /\ next \in 1..n + 1 /\ app \in {"wait", "take"} /\ dropped \in BOOLEAN
      /\ asks \in Nat /\ asks =< MaxAsks /\ faults \in Nat /\ faults =< MaxFaults
  BY DEF Control
<1>3. next' = next \/ (next =< n /\ next' = next + 1)
  BY DEF Next, vars, Application, Master, Stack, DefineArea, AppWrite, CheckEvent, GetInfo, GetTimeout,
         AskRaw, SetParameter, GetParameter, Receive, GiveUp, Lose, ForeignAsk, Take, Execute,
         Transfer, Notify, Inform, Reply
<1>4. app' \in {app, "wait", "take"}
  BY DEF Next, vars, Application, Master, Stack, DefineArea, AppWrite, CheckEvent, GetInfo, GetTimeout,
         AskRaw, SetParameter, GetParameter, Receive, GiveUp, Lose, ForeignAsk, Take, Execute,
         Transfer, Notify, Inform, Reply
<1>5. dropped' \in {dropped, TRUE}
  BY DEF Next, vars, Application, Master, Stack, DefineArea, AppWrite, CheckEvent, GetInfo, GetTimeout,
         AskRaw, SetParameter, GetParameter, Receive, GiveUp, Lose, ForeignAsk, Take, Execute,
         Transfer, Notify, Inform, Reply
<1>6. asks' = asks \/ (asks < MaxAsks /\ asks' = asks + 1)
  BY DEF Next, vars, Application, Master, Stack, DefineArea, AppWrite, CheckEvent, GetInfo, GetTimeout,
         AskRaw, SetParameter, GetParameter, Receive, GiveUp, Lose, ForeignAsk, Take, Execute,
         Transfer, Notify, Inform, Reply, Ask, MayAsk
<1>7. faults' = faults \/ (faults < MaxFaults /\ faults' = faults + 1)
  BY DEF Next, vars, Application, Master, Stack, DefineArea, AppWrite, CheckEvent, GetInfo, GetTimeout,
         AskRaw, SetParameter, GetParameter, Receive, GiveUp, Lose, ForeignAsk, Take, Execute,
         Transfer, Notify, Inform, Reply
<1> HIDE DEF n
<1>8. next' \in 1..n + 1
  BY <1>1, <1>2, <1>3
<1>9. asks' \in Nat /\ asks' =< MaxAsks /\ faults' \in Nat /\ faults' =< MaxFaults
  BY <1>1, <1>2, <1>6, <1>7
<1>10. app' \in {"wait", "take"} /\ dropped' \in BOOLEAN
  BY <1>2, <1>4, <1>5
<1> QED
  BY <1>8, <1>9, <1>10 DEF n

LEMMA QueueStep ==
  ASSUME Control, [Next]_vars
  PROVE  queue' \in Seq(Infos) /\ Len(queue') =< QueueSize
<1>1. queue \in Seq(Infos) /\ Len(queue) =< QueueSize /\ QueueSize \in Nat
  BY ExchangeAssumption DEF Control
<1>2. CASE queue' = queue
  BY <1>1, <1>2
<1>3. CASE GetInfo
  <2>1. queue # <<>> /\ queue' = Tail(queue)
    BY <1>3 DEF GetInfo
  <2> QED
    BY <1>1, <2>1
<1>4. CASE Inform
  <2>1. slave.info \in Infos
    BY <1>4 DEF Control, Stage, Inform
  <2>2. queue' = queue \/ (Len(queue) < QueueSize /\ queue' = Append(queue, slave.info))
    BY <1>4 DEF Inform
  <2>3. CASE Len(queue) < QueueSize /\ queue' = Append(queue, slave.info)
    BY <1>1, <2>1, <2>3
  <2> QED
    BY <1>2, <2>2, <2>3
<1>5. CASE DefineArea \/ AppWrite \/ CheckEvent \/ GetTimeout
  BY <1>2, <1>5 DEF DefineArea, AppWrite, CheckEvent, GetTimeout
<1>6. CASE Master
  BY <1>2, <1>6 DEF Master, AskRaw, SetParameter, GetParameter, Receive, GiveUp, Lose, ForeignAsk
<1>7. CASE Take \/ Execute \/ Transfer \/ Notify \/ Reply
  BY <1>2, <1>7 DEF Take, Execute, Transfer, Notify, Reply
<1>8. CASE UNCHANGED vars
  BY <1>2, <1>8 DEF vars
<1> QED
  BY <1>3, <1>4, <1>5, <1>6, <1>7, <1>8 DEF Next, Application, Stack

LEMMA ControlStep == Control /\ [Next]_vars => Control'
<1> SUFFICES ASSUME Control, [Next]_vars PROVE Control'
  OBVIOUS
<1>1. Stage(slave') /\ Calling(call')
  BY StageStep, CallStep
<1>2. DOMAIN wire' = Masters /\ \A m \in Masters : OnWay(wire'[m])
  BY WireStep
<1>3. queue' \in Seq(Infos) /\ Len(queue') =< QueueSize
  BY QueueStep
<1>4. /\ next' \in 1..Len(AreaList) + 1
      /\ app' \in {"wait", "take"} /\ dropped' \in BOOLEAN
      /\ asks' \in Nat /\ asks' =< MaxAsks /\ faults' \in Nat /\ faults' =< MaxFaults
  BY ScalarStep
<1> QED
  BY <1>1, <1>2, <1>3, <1>4 DEF Control

\* The state of both ends keeps its types, and the slave has a callback to make or to tell of
\* in the phases that do.
THEOREM TypeCorrect == Spec => []TypeOK
<1>1. Control => TypeOK
  <2> SUFFICES ASSUME Control PROVE TypeOK
    OBVIOUS
  <2>1. \A m \in Masters : wire[m].kind \in {"none", "request", "answer"}
    BY DEF Control, OnWay, Nothing
  <2>2. Stage(slave) /\ Calling(call)
    BY DEF Control
  <2>3. call.state \in {"none", "sent", "done"}
    BY <2>2 DEF Calling
  <2>4. slave.phase \in Stages /\ slave.from \in Masters /\ slave.done \subseteq {"READ", "WRITE"}
    BY <2>2, StageFields
  <2>5. CASE slave.phase \in {"idle", "execute", "answer"}
    <3>1. slave.calls = <<>>
      BY <2>2, <2>5 DEF Stage
    <3>2. Len(slave.calls) =< 2
      BY <3>1
    <3> QED
      BY <2>1, <2>3, <2>4, <2>5, <3>2 DEF TypeOK, Control, Stages
  <2>6. CASE slave.phase \in {"call", "notify", "info"}
    <3>1. Writing(slave.calls, slave.rq) \/ Reading(slave.calls, slave.rq)
      BY <2>2, <2>6 DEF Stage
    <3>2. slave.calls # <<>> /\ Len(slave.calls) \in {1, 2}
      BY <3>1, CallsAre
    <3>3. Len(slave.calls) =< 2
      <4> DEFINE n == Len(slave.calls)
      <4>1. n \in {1, 2}
        BY <3>2
      <4> HIDE DEF n
      <4>2. n =< 2
        BY <4>1
      <4> QED
        BY <4>2 DEF n
    <3> QED
      BY <2>1, <2>3, <2>4, <2>6, <3>2, <3>3 DEF TypeOK, Control, Stages
  <2> QED
    BY <2>4, <2>5, <2>6 DEF Stages
<1> QED
  BY <1>1, ControlInit, ControlStep, PTL DEF Spec

\* An info is told of, or on its way: no write is forgotten behind an application that waits.
LEMMA NoticedStep == InfoPrompt /\ Control /\ Noticed /\ [Next]_vars => Noticed'
<1> SUFFICES ASSUME InfoPrompt, Control, Noticed, [Next]_vars PROVE Noticed'
  OBVIOUS
<1>1. queue \in Seq(Infos) /\ Stage(slave) /\ app \in {"wait", "take"}
  BY DEF Control
<1> DEFINE Tells(x) == \/ \E i \in DOMAIN queue : x \in Told(queue[i])
                       \/ slave.phase \in {"notify", "info"} /\ x \in Told(slave.info)
<1>2. /\ ~dropped => \A x \in unseen : Tells(x)
      /\ app = "wait" => queue = <<>> \/ bits # {}
      /\ app = "wait" /\ slave.phase = "info" => bits # {}
  BY DEF Noticed
<1>3. CASE UNCHANGED <<bits, queue, app, unseen, dropped>> /\ slave'.phase = slave.phase /\ slave'.info = slave.info
  BY <1>3 DEF Noticed
<1>4. CASE /\ UNCHANGED <<bits, queue, app, unseen, dropped>>
           /\ slave.phase \notin {"notify", "info"} /\ slave'.phase \notin {"notify", "info"}
  BY <1>4 DEF Noticed
<1>5. CASE CheckEvent
  BY <1>5 DEF CheckEvent, Noticed
<1>6. CASE GetInfo
  <2>1. queue # <<>> /\ queue' = Tail(queue) /\ unseen' = unseen \ Told(Head(queue)) /\ app = "take"
        /\ UNCHANGED <<bits, slave, app, dropped>>
    BY <1>6 DEF GetInfo
  <2>2. ASSUME NEW x \in unseen', ~dropped
        PROVE  \/ \E i \in DOMAIN queue' : x \in Told(queue'[i])
               \/ slave.phase \in {"notify", "info"} /\ x \in Told(slave.info)
    <3>1. Tells(x) /\ x \notin Told(Head(queue))
      BY <1>2, <2>1, <2>2
    <3>2. ASSUME NEW i \in DOMAIN queue, x \in Told(queue[i])
          PROVE  \E j \in DOMAIN queue' : x \in Told(queue'[j])
      <4>1. i # 1 /\ i \in 1..Len(queue) /\ Len(queue) \in Nat
        BY <1>1, <2>1, <3>1, <3>2
      <4>2. i - 1 \in DOMAIN queue' /\ queue'[i - 1] = queue[i]
        BY <1>1, <2>1, <4>1
      <4> QED
        BY <3>2, <4>2
    <3> QED
      BY <3>1, <3>2
  <2> QED
    BY <2>1, <2>2 DEF Noticed
<1>7. CASE GetTimeout
  BY <1>7 DEF GetTimeout, Noticed
<1>8. CASE Transfer
  <2>1. /\ slave.phase = "call"
        /\ \/ slave'.phase = "answer" /\ unseen' = unseen
           \/ slave'.phase = "notify" /\ unseen' \in {unseen, unseen \cup Told(slave'.info)}
    BY <1>1, <1>8, TransferIs
  <2>2. UNCHANGED <<bits, queue, app, dropped>>
    BY <1>8 DEF Transfer
  <2>3. ~dropped => \A x \in unseen : \E i \in DOMAIN queue : x \in Told(queue[i])
    BY <1>2, <2>1
  <2>4. \A x \in unseen' : x \in unseen \/ (slave'.phase = "notify" /\ x \in Told(slave'.info))
    BY <2>1
  <2>5. slave'.phase # "info"
    BY <2>1
  <2> QED
    BY <1>2, <2>2, <2>3, <2>4, <2>5 DEF Noticed
<1>9. CASE Notify
  <2>1. slave.phase = "notify" /\ slave'.phase = "info" /\ slave'.info = slave.info
    BY <1>1, <1>9, NotifyIs
  <2>2. bits' # {} /\ UNCHANGED <<queue, app, unseen, dropped>>
    BY <1>9 DEF Notify
  <2> QED
    BY <1>2, <2>1, <2>2 DEF Noticed
<1>10. CASE Inform
  <2>1. slave.phase = "info" /\ slave'.phase \notin {"notify", "info"}
    BY <1>1, <1>10, NextDone DEF Inform
  <2>2. UNCHANGED <<bits, app, unseen>>
    BY <1>10 DEF Inform
  <2>3. CASE queue' = Append(queue, slave.info) /\ dropped' = dropped
    <3>1. slave.info \in Infos
      BY <1>1, <2>1 DEF Stage
    <3>2. \A i \in DOMAIN queue : i \in DOMAIN queue' /\ queue'[i] = queue[i]
      BY <1>1, <2>3, <3>1
    <3>3. \E i \in DOMAIN queue' : queue'[i] = slave.info
      <4>1. Len(queue) + 1 \in DOMAIN queue' /\ queue'[Len(queue) + 1] = slave.info
        BY <1>1, <2>3, <3>1
      <4> QED
        BY <4>1
    <3>4. ~dropped' => \A x \in unseen' : \E i \in DOMAIN queue' : x \in Told(queue'[i])
      BY <1>2, <2>2, <2>3, <3>2, <3>3
    <3>5. app' = "wait" => bits' # {}
      BY <1>2, <2>1, <2>2
    <3> QED
      BY <2>1, <3>4, <3>5 DEF Noticed
  <2>4. CASE dropped' = TRUE /\ queue' = queue
    BY <1>2, <2>1, <2>2, <2>4 DEF Noticed
  <2> QED
    BY <1>10, <2>3, <2>4 DEF Inform
<1>11. CASE Take
  <2>1. slave.phase = "idle" /\ slave'.phase = "execute"
    BY <1>11, TakeIs DEF Take
  <2> QED
    BY <1>4, <1>11, <2>1 DEF Take
<1>12. CASE Execute
  <2>1. slave.phase = "execute" /\ slave'.phase \in {"answer", "call"}
    BY <1>1, <1>12, ExecuteIs
  <2> QED
    BY <1>4, <1>12, <2>1 DEF Execute
<1>13. CASE Reply
  <2>1. slave.phase = "answer" /\ slave'.phase = "idle"
    BY <1>13, IdleIs DEF Reply
  <2> QED
    BY <1>4, <1>13, <2>1 DEF Reply
<1>14. CASE DefineArea \/ AppWrite
  BY <1>3, <1>14 DEF DefineArea, AppWrite
<1>15. CASE Master
  BY <1>3, <1>15 DEF Master, AskRaw, SetParameter, GetParameter, Receive, GiveUp, Lose, ForeignAsk
<1>16. CASE UNCHANGED vars
  BY <1>3, <1>16 DEF vars
<1> QED
  BY <1>5, <1>6, <1>7, <1>8, <1>9, <1>10, <1>11, <1>12, <1>13, <1>14, <1>15, <1>16
     DEF Next, Application, Stack

\* The stack task sets the event of a write before it queues the info
\* (mbc_slave_send_param_access_notification, mbc_slave_send_param_info), and the application clears
\* all events when it wakes up and takes infos until none comes (mbc_slave_check_event,
\* mbc_slave_get_param_info).  Nothing is lost between the two but what a full queue drops, as long
\* as the application waits for an info at least as long as the stack task takes to send one
\* (InfoPrompt).
THEOREM WritesAlwaysNoticed == InfoPrompt => (Spec => []WritesNoticed)
<1> SUFFICES ASSUME InfoPrompt PROVE Spec => []WritesNoticed
  OBVIOUS
<1>1. Init => Noticed
  BY IdleIs DEF Init, Noticed
<1>2. Noticed => WritesNoticed
  <2> SUFFICES ASSUME Noticed, app = "wait", bits = {}, slave.phase \notin {"notify", "info"}, ~dropped
               PROVE  unseen = {}
    BY DEF WritesNoticed
  <2>1. queue = <<>>
    BY DEF Noticed
  <2>2. \A x \in unseen : FALSE
    BY <2>1 DEF Noticed
  <2> QED
    BY <2>2
<1>3. Noticed /\ Control /\ [Next]_vars => Noticed'
  BY NoticedStep
<1> QED
  BY <1>1, <1>2, <1>3, ControlInit, ControlStep, PTL DEF Spec

-------------------------------------------------------------------------------
(* What is written, as the map sees it.                                    *)

\* The entries a request writes
Fresh(rq) == {<< <<TypeOf(rq), rq.waddr + m - 1>>, rq.data[m] >> : m \in 1..rq.wcnt}

\* The areas ar2 are the areas after what rq writes.
Wrote(ar2, rq) ==
  LET memory == Memory(ar2, TypeOf(rq), rq.waddr, rq.wcnt)
  IN  /\ AreasOK(ar2) /\ Apart(ar2) /\ SameLayout(areas, ar2)
      /\ memory \in [1..rq.wcnt -> CellOf(TypeOf(rq))]
      /\ \A m \in 1..rq.wcnt : OnWire(TypeOf(rq), memory[m]) = rq.data[m]
      /\ MapOf(ar2) = Updated(MapOf(areas), Fresh(rq))
      /\ HasAll(MapOf(areas), TypeOf(rq), rq.waddr, rq.wcnt)

LEMMA WriteIs ==
  ASSUME AreasOK(areas), Apart(areas), Narrow(areas), NEW rq, NEW cb, WritesFor(cb, rq),
         Run(cb).err = "ENOERR"
  PROVE  Wrote(Run(cb).areas, rq)
<1> DEFINE type == TypeOf(rq)
           addr == rq.waddr
           n    == rq.wcnt
           ar2  == Run(cb).areas
<1>1. n \in Nat \ {0} /\ addr \in Nat /\ type \in AreaTypes
  BY DEF WritesFor, TypeOf, AreaTypes
<1>2. WriteDone(Run(cb), rq)
  BY RunWrites
<1>3. PICK i \in DOMAIN areas[type] : \E new, cells :
        ar2 = [areas EXCEPT ![type][i] = new] /\ Rewrites(rq, areas[type][i], new, cells)
  BY <1>2 DEF WriteDone
<1>4. PICK new, cells : ar2 = [areas EXCEPT ![type][i] = new] /\ Rewrites(rq, areas[type][i], new, cells)
  BY <1>3
<1> DEFINE old   == areas[type][i]
           place == addr - old.start
           fresh == EntriesOf(type, addr, n, cells)
<1> HIDE DEF ar2
<1>5. Puts(type, old, new, place, n, cells) /\ \A m \in 1..n : OnWire(type, cells[m]) = rq.data[m]
  BY <1>4 DEF Rewrites
<1>6. /\ new.start = old.start /\ new.size = old.size /\ IsArea(type, new)
      /\ place \in Nat /\ place + n =< RegSize(type, old.size)
      /\ \A k \in 0..RegSize(type, old.size) - 1 :
            new.data[k] = IF k \in place..place + n - 1 THEN cells[k - place + 1] ELSE old.data[k]
  BY <1>5 DEF Puts
<1>7. old.start \in Nat /\ old.start + place = addr
  <2>1. IsArea(type, old)
    BY <1>1, AreasAre
  <2> QED
    BY <1>1, <2>1, AreaIs
<1> HIDE DEF place, type, addr, n
<1>7a. new.start + place = addr
  BY <1>6, <1>7
<1>8. /\ Replaces(areas, ar2, type, i, new)
      /\ MapOf(ar2) = Updated(MapOf(areas), EntriesOf(type, new.start + place, n, cells))
      /\ HasAll(MapOf(areas), type, new.start + place, n)
  <2>1. i \in DOMAIN areas[type] /\ ar2 = [areas EXCEPT ![type][i] = new]
    BY <1>4 DEF type
  <2>2. Swaps(areas, ar2, type, i, new) /\ Puts(type, areas[type][i], new, place, n, cells)
    BY <1>5, <2>1 DEF Swaps, old
  <2> HIDE DEF old
  <2>3. type \in AreaTypes /\ n \in Nat \ {0} /\ i \in DOMAIN areas[type]
    BY <1>1, <2>1
  <2>4. Swaps(areas, ar2, type, i, new)
    BY <2>2
  <2>5. Puts(type, areas[type][i], new, place, n, cells)
    BY <2>2
  <2> HIDE DEF fresh
  <2> QED
    BY <2>3, <2>4, <2>5, Rewritten
<1> HIDE DEF old
<1>10. fresh = Fresh(rq)
  BY <1>5 DEF Fresh, EntriesOf, type, addr, n
<1>12. Holds(type, new, addr, n)
  <2> DEFINE size == RegSize(type, old.size)
             start == new.start
  <2>1. RegSize(type, new.size) = size /\ size \in Nat
    BY <1>1, <1>6, AreaIs
  <2>2. start \in Nat /\ start + place = addr /\ place \in Nat /\ place + n =< size
    BY <1>6, <1>7, <1>7a
  <2> HIDE DEF size, start
  <2>3. n \in Nat \ {0} /\ addr \in Nat
    BY <1>1
  <2>4. n >= 1 /\ addr >= start /\ addr + n =< start + size
    BY <2>1, <2>2, <2>3
  <2> QED
    BY <2>1, <2>4 DEF Holds, start
<1>12a. AreasOK(ar2) /\ Apart(ar2) /\ SameLayout(areas, ar2) /\ ar2[type][i] = new
  BY <1>8 DEF Replaces
<1>13. Shows(ar2, type, i, addr, n)
  <2>1. i \in DOMAIN ar2[type] /\ Holds(type, ar2[type][i], addr, n)
    BY <1>1, <1>12, <1>12a DEF type, SameLayout
  <2> QED
    BY <1>1, <1>12a, <2>1, MemoryIs
<1> DEFINE memory == Memory(ar2, type, addr, n)
<1>14. memory \in [1..n -> CellOf(type)]
  BY <1>13 DEF Shows
<1>15. \A m \in 1..n : memory[m] = new.data[place + m - 1]
  BY <1>6, <1>12a, <1>13 DEF Shows, place
<1> HIDE DEF memory
<1>16. ASSUME NEW m \in 1..n PROVE OnWire(type, memory[m]) = rq.data[m]
  <2> DEFINE k    == place + m - 1
             size == RegSize(type, old.size)
  <2>1. size \in Nat
    BY <1>1, AreasAre, AreaIs DEF old, type
  <2> HIDE DEF size
  <2>2. k \in 0..size - 1 /\ k \in place..place + n - 1 /\ k - place + 1 = m
    BY <1>1, <1>6, <2>1 DEF size
  <2> HIDE DEF k
  <2>3. new.data[k] = cells[m]
    BY <1>6, <2>2 DEF size
  <2>4. memory[m] = cells[m]
    BY <1>15, <2>3 DEF k
  <2> QED
    BY <1>5, <2>4
<1>17. MapOf(ar2) = Updated(MapOf(areas), Fresh(rq))
  BY <1>7a, <1>8, <1>10
<1> QED
  BY <1>7a, <1>8, <1>12a, <1>14, <1>16, <1>17 DEF Wrote, memory, type, addr, n, ar2

-------------------------------------------------------------------------------
(* The areas stay apart, and each callback is an instant of the map.       *)

\* No area of registers is wider than 64 KiB (16), and an area that has a register in common with an
\* earlier one starts in it and is refused, rather than end in it (18).
WellLaid ==
  /\ \A k \in DOMAIN AreaList :
        AreaList[k].type \in RegisterTypes => AreaList[k].area.size =< WordTop
  /\ \A j, k \in DOMAIN AreaList :
        LET type == AreaList[k].type
            a    == AreaList[j].area
            b    == AreaList[k].area
        IN  j < k /\ AreaList[j].type = type =>
              Before(type, a, b) \/ Before(type, b, a) \/ Holds(type, a, b.start, 1)

\* The area is one of the first n - 1 that were registered.
Among(n, type, area) ==
  \E k \in DOMAIN AreaList : /\ k < n /\ AreaList[k].type = type
                             /\ area.start = AreaList[k].area.start
                             /\ area.size = AreaList[k].area.size

Laid ==
  /\ AreasOK(areas) /\ Apart(areas)
  /\ \A t \in AreaTypes : \A i \in DOMAIN areas[t] : Among(next, t, areas[t][i])

LEMMA LaidNarrow == ASSUME WellLaid, Laid PROVE Narrow(areas)
<1> SUFFICES ASSUME NEW type \in RegisterTypes, NEW i \in DOMAIN areas[type]
             PROVE  areas[type][i].size =< WordTop
  BY DEF Narrow
<1>1. type \in AreaTypes
  BY DEF RegisterTypes, AreaTypes
<1>2. Among(next, type, areas[type][i])
  BY <1>1 DEF Laid
<1> QED
  BY <1>2 DEF Among, WellLaid

\* A new area is apart from those that are there.
LEMMA DefineIs ==
  ASSUME WellLaid, Laid, Control, DefineArea
  PROVE  LET type == AreaList[next].type
             area == AreaList[next].area
         IN  /\ next \in DOMAIN AreaList /\ type \in AreaTypes /\ IsArea(type, area)
             /\ \/ areas' = areas
                \/ /\ areas' = SetDescriptor(areas, type, area)
                   /\ \A j \in DOMAIN areas[type] :
                        Before(type, areas[type][j], area) \/ Before(type, area, areas[type][j])
<1> DEFINE type == AreaList[next].type
           area == AreaList[next].area
<1>1. next \in DOMAIN AreaList
  <2>1. AreaList \in Seq({AreaList[i] : i \in DOMAIN AreaList})
    BY ExchangeAssumption
  <2>2. DOMAIN AreaList = 1..Len(AreaList) /\ Len(AreaList) \in Nat
    BY <2>1
  <2>3. next \in 1..Len(AreaList) + 1 /\ next =< Len(AreaList)
    BY DEF Control, DefineArea
  <2> DEFINE n == Len(AreaList)
  <2> HIDE DEF n
  <2>4. n \in Nat /\ next \in 1..n + 1 /\ next =< n /\ DOMAIN AreaList = 1..n
    BY <2>2, <2>3 DEF n
  <2> QED
    BY <2>4
<1>2. type \in AreaTypes /\ IsArea(type, area)
  BY <1>1, ExchangeAssumption
<1>3. areas' = IF MayDefine(areas, type, area) THEN SetDescriptor(areas, type, area) ELSE areas
  BY DEF DefineArea
<1>4. ASSUME MayDefine(areas, type, area), NEW j \in DOMAIN areas[type]
      PROVE  Before(type, areas[type][j], area) \/ Before(type, area, areas[type][j])
  <2> DEFINE a == areas[type][j]
  <2>1. ~Holds(type, a, area.start, 1)
    BY <1>4 DEF MayDefine, Holding
  <2>2. Among(next, type, a)
    BY <1>2 DEF Laid
  <2>3. PICK k \in DOMAIN AreaList : /\ k < next /\ AreaList[k].type = type
                                     /\ a.start = AreaList[k].area.start
                                     /\ a.size = AreaList[k].area.size
    BY <2>2 DEF Among
  <2> DEFINE b == AreaList[k].area
  <2> HIDE DEF a
  <2>4. Before(type, b, area) \/ Before(type, area, b) \/ Holds(type, b, area.start, 1)
    BY <1>1, <2>3 DEF WellLaid
  <2>5. ~Holds(type, b, area.start, 1)
    BY <2>1, <2>3 DEF Holds
  <2>6. Before(type, a, area) \/ Before(type, area, a)
    BY <2>3, <2>4, <2>5 DEF Before
  <2> QED
    BY <2>6 DEF a
<1>5. CASE MayDefine(areas, type, area)
  <2>1. areas' = SetDescriptor(areas, type, area)
    BY <1>3, <1>5
  <2> QED
    BY <1>1, <1>2, <1>4, <1>5, <2>1
<1>6. CASE ~MayDefine(areas, type, area)
  <2>1. areas' = areas
    BY <1>3, <1>6
  <2> QED
    BY <1>1, <1>2, <2>1
<1> QED
  BY <1>5, <1>6

\* What the slave's application writes
LEMMA AppWriteIs ==
  ASSUME Laid, AppWrite
  PROVE  \E w \in AppWrites :
           LET fresh == {<< <<w.type, w.addr>>, OnWire(w.type, w.value) >>}
           IN  /\ AreasOK(areas') /\ Apart(areas') /\ SameLayout(areas, areas')
               /\ MapOf(areas') = Updated(MapOf(areas), fresh)
               /\ Has(MapOf(areas), <<w.type, w.addr>>)
<1>1. PICK w \in AppWrites :
        /\ Holding(areas, w.type, w.addr, 1) # {}
        /\ LET i == Find(areas, w.type, w.addr, 1)
           IN  areas' = [areas EXCEPT ![w.type][i].data[w.addr - areas[w.type][i].start] = w.value]
  BY DEF AppWrite
<1> DEFINE type == w.type
           addr == w.addr
           i    == Find(areas, type, addr, 1)
           old  == areas[type][i]
           place == addr - old.start
           data == [old.data EXCEPT ![place] = w.value]
           new  == [old EXCEPT !.data = data]
           cells == <<w.value>>
           fresh == {<< <<type, addr>>, OnWire(type, w.value) >>}
<1>2. type \in AreaTypes /\ addr \in Nat /\ w.value \in CellOf(type)
  BY ExchangeAssumption
<1>3. AreasOK(areas) /\ Apart(areas)
  BY DEF Laid
<1>4. i \in DOMAIN areas[type] /\ Holds(type, old, addr, 1)
  BY <1>1, <1>2, <1>3, Found
<1>5. IsArea(type, old)
  BY <1>2, <1>3, <1>4, AreasAre
<1> HIDE DEF i, type, addr
<1>6. areas' = [areas EXCEPT ![type][i] = new]
  <2>1. areas' = [areas EXCEPT ![type][i].data[place] = w.value]
    BY <1>1 DEF type, addr, i
  <2> HIDE DEF place
  <2> QED
    BY <1>2, <1>3, <1>4, <2>1 DEF AreasOK
<1> HIDE DEF old
<1> DEFINE size == RegSize(type, old.size)
<1>7. /\ old.start \in Nat /\ place \in Nat /\ place + 1 =< size /\ old.start + place = addr
      /\ size \in Nat /\ old.data \in [0..size - 1 -> CellOf(type)]
      /\ old = [start |-> old.start, size |-> old.size, access |-> old.access, data |-> old.data]
      /\ old.size \in Nat /\ old.access \in {"RO", "WO", "RW"}
  BY <1>2, <1>4, <1>5, AreaIs, AddressPlace, SMTT(30)
<1> HIDE DEF place, size
<1>8. /\ data \in [0..size - 1 -> CellOf(type)]
      /\ data[place] = w.value
      /\ \A k \in 0..size - 1 : k # place => data[k] = old.data[k]
  BY <1>2, <1>7
<1> HIDE DEF data
<1>9. new = [start |-> old.start, size |-> old.size, access |-> old.access, data |-> data]
  BY <1>7
<1> HIDE DEF new
<1>10. IsArea(type, new) /\ new.start = old.start /\ new.size = old.size /\ new.data = data
  BY <1>7, <1>8, <1>9 DEF IsArea, size
<1>11. \A k \in 0..size - 1 :
          new.data[k] = IF k \in place..place + 1 - 1 THEN cells[k - place + 1] ELSE old.data[k]
  <2>1. cells[1] = w.value
    OBVIOUS
  <2> HIDE DEF cells
  <2> SUFFICES ASSUME NEW k \in 0..size - 1
               PROVE  new.data[k] = IF k \in place..place + 1 - 1 THEN cells[k - place + 1] ELSE old.data[k]
    OBVIOUS
  <2>2. k \in place..place + 1 - 1 <=> k = place
    BY <1>7
  <2>3. place - place + 1 = 1
    BY <1>7
  <2> QED
    BY <1>8, <1>10, <2>1, <2>2, <2>3
<1> HIDE DEF cells
<1>12. Puts(type, areas[type][i], new, place, 1, cells)
  BY <1>7, <1>10, <1>11 DEF Puts, old, size
<1>13. /\ Replaces(areas, areas', type, i, new)
       /\ MapOf(areas') = Updated(MapOf(areas), EntriesOf(type, new.start + place, 1, cells))
       /\ HasAll(MapOf(areas), type, new.start + place, 1)
  <2>1. Swaps(areas, areas', type, i, new)
    BY <1>6 DEF Swaps
  <2>2. place \in Nat /\ 1 \in Nat \ {0}
    BY <1>7
  <2> QED
    BY <1>2, <1>3, <1>4, <1>12, <2>1, <2>2, Rewritten
<1>14. new.start + place = addr /\ addr + 1 - 1 = addr
  BY <1>2, <1>7, <1>10
<1>15. EntriesOf(type, addr, 1, cells) = fresh
  <2>1. cells[1] = w.value
    BY DEF cells
  <2>2. EntriesOf(type, addr, 1, cells) = {<< <<type, addr + 1 - 1>>, OnWire(type, cells[1]) >>}
    BY DEF EntriesOf
  <2> QED
    BY <1>14, <2>1, <2>2
<1>16. Has(MapOf(areas), <<type, addr>>)
  BY <1>13, <1>14 DEF HasAll
<1>17. AreasOK(areas') /\ Apart(areas') /\ SameLayout(areas, areas')
  BY <1>13 DEF Replaces
<1> QED
  BY <1>13, <1>14, <1>15, <1>16, <1>17 DEF type, addr

\* The areas keep to their places.
LEMMA LaidSame ==
  ASSUME Laid, AreasOK(areas'), Apart(areas'), SameLayout(areas, areas'), next' = next
  PROVE  Laid'
<1>1. \A t \in AreaTypes : \A i \in DOMAIN areas'[t] : Among(next', t, areas'[t][i])
  BY DEF Laid, SameLayout, Among
<1> QED
  BY <1>1 DEF Laid

\* The data of a read are what n registers hold.
Saw(rq, n, data) ==
  LET memory == Memory(areas, TypeOf(rq), rq.addr, n)
  IN  /\ memory \in [1..n -> CellOf(TypeOf(rq))]
      /\ data = [m \in 1..n |-> OnWire(TypeOf(rq), memory[m])]
      /\ \A m \in 1..n :
            << <<TypeOf(rq), rq.addr + m - 1>>, OnWire(TypeOf(rq), memory[m]) >> \in MapOf(areas)

\* A callback refuses and leaves everything alone, or it writes all it was to write, or it reads
\* all it was to read.
LEMMA TransferDoes ==
  ASSUME WellLaid, Laid, Stage(slave), Transfer
  PROVE  /\ slave.phase = "call" /\ Head(slave.calls) = slave.calls[1] /\ slave.data = <<>>
         /\ slave'.rq = slave.rq /\ slave'.no = slave.no
         /\ \/ /\ Run(slave.calls[1]).err # "ENOERR"
               /\ areas' = areas /\ slave'.phase = "answer" /\ slave'.ex # "NONE"
               /\ slave'.done = slave.done /\ slave'.data = <<>>
               /\ \/ Writing(slave.calls, slave.rq) /\ slave.done = {}
                  \/ Reading(slave.calls, slave.rq) /\ slave.done = Earlier(slave.rq)
            \/ /\ Run(slave.calls[1]).err = "ENOERR" /\ slave'.phase = "notify"
               /\ Writing(slave.calls, slave.rq) /\ slave.done = {}
               /\ slave'.done = {"WRITE"} /\ slave'.data = <<>>
               /\ Wrote(areas', slave.rq)
            \/ /\ Run(slave.calls[1]).err = "ENOERR" /\ slave'.phase = "notify"
               /\ areas' = areas
               /\ Reading(slave.calls, slave.rq) /\ slave.done = Earlier(slave.rq)
               /\ slave'.done = Earlier(slave.rq) \cup {"READ"}
               /\ Saw(slave.rq, slave.calls[1].n, slave'.data)
<1> DEFINE cb == slave.calls[1]
           r  == Run(cb)
           rq == slave.rq
<1>1. AreasOK(areas) /\ Apart(areas) /\ Narrow(areas)
  BY LaidNarrow DEF Laid
<1>2. /\ Head(slave.calls) = cb /\ slave.phase = "call" /\ slave.data = <<>>
      /\ areas' = r.areas /\ slave'.rq = slave.rq /\ slave'.no = slave.no
      /\ r.err # "ENOERR" => /\ slave'.phase = "answer" /\ slave'.ex # "NONE"
                             /\ slave'.done = slave.done /\ slave'.data = slave.data
      /\ r.err = "ENOERR" => slave'.phase = "notify"
      /\ \/ /\ Writing(slave.calls, slave.rq) /\ slave.done = {}
            /\ r.err = "ENOERR" => slave'.done = {"WRITE"} /\ slave'.data = <<>>
         \/ /\ Reading(slave.calls, slave.rq) /\ slave.done = Earlier(slave.rq)
            /\ r.err = "ENOERR" => slave'.done = Earlier(slave.rq) \cup {"READ"} /\ slave'.data = r.data
  BY TransferIs
<1>3. /\ Writing(slave.calls, slave.rq) => WritesFor(cb, rq)
      /\ Reading(slave.calls, slave.rq) => ReadsFor(cb, rq)
  BY DEF Writing, Reading
<1> HIDE DEF cb, rq
<1>4. CASE r.err # "ENOERR"
  <2>1. areas' = areas
    BY <1>1, <1>2, <1>3, <1>4, RunWrites, RunReads
  <2> QED
    BY <1>2, <1>4, <2>1 DEF cb
<1>5. CASE r.err = "ENOERR" /\ Writing(slave.calls, slave.rq) /\ slave.done = {}
           /\ slave'.done = {"WRITE"} /\ slave'.data = <<>>
  <2>1. Wrote(r.areas, rq)
    BY <1>1, <1>3, <1>5, WriteIs
  <2>2. Wrote(areas', slave.rq)
    BY <1>2, <2>1 DEF rq
  <2> QED
    BY <1>2, <1>5, <2>2 DEF cb
<1>6. CASE r.err = "ENOERR" /\ Reading(slave.calls, slave.rq) /\ slave.done = Earlier(slave.rq)
           /\ slave'.done = Earlier(slave.rq) \cup {"READ"} /\ slave'.data = r.data
  <2>0. ReadsFor(cb, rq)
    BY <1>3, <1>6
  <2>1. r.areas = areas /\ Saw(rq, cb.n, r.data)
    BY <1>1, <1>6, <2>0, RunReads DEF Saw
  <2>2. areas' = areas /\ Saw(slave.rq, slave.calls[1].n, slave'.data)
    BY <1>2, <1>6, <2>1 DEF rq, cb
  <2> QED
    BY <1>2, <1>6, <2>2 DEF cb
<1> QED
  BY <1>2, <1>4, <1>5, <1>6

LEMMA LaidInit == Init => Laid
<1> SUFFICES ASSUME Init PROVE Laid
  OBVIOUS
<1>1. areas = [type \in AreaTypes |-> <<>>]
  BY DEF Init
<1>2. \A type \in AreaTypes : areas[type] \in Seq(AreaSet(type)) /\ DOMAIN areas[type] = {}
  BY <1>1
<1>3. DOMAIN areas = AreaTypes
  BY <1>1
<1> QED
  BY <1>2, <1>3 DEF Laid, AreasOK, Apart

LEMMA LaidStep ==
  ASSUME WellLaid, Laid, Control, [Next]_vars
  PROVE  Laid'
<1>1. CASE UNCHANGED <<areas, next>>
  <2>1. AreasOK(areas') /\ Apart(areas') /\ SameLayout(areas, areas')
    BY <1>1 DEF Laid, SameLayout
  <2> QED
    BY <1>1, <2>1, LaidSame
<1>2. CASE DefineArea
  <2> DEFINE type == AreaList[next].type
             area == AreaList[next].area
  <2>1. /\ next \in DOMAIN AreaList /\ type \in AreaTypes /\ IsArea(type, area)
        /\ \/ areas' = areas
           \/ /\ areas' = SetDescriptor(areas, type, area)
              /\ \A j \in DOMAIN areas[type] :
                   Before(type, areas[type][j], area) \/ Before(type, area, areas[type][j])
    BY <1>2, DefineIs
  <2>2. next' = next + 1 /\ next \in Nat
    BY <1>2 DEF DefineArea, Control
  <2>3. \A t, a : Among(next, t, a) => Among(next', t, a)
    <3>1. \A k \in DOMAIN AreaList : k < next => k < next'
      <4>1. DOMAIN AreaList \subseteq Nat
        BY ExchangeAssumption
      <4> QED
        BY <2>2, <4>1
    <3> QED
      BY <3>1 DEF Among
  <2>3a. Among(next', type, area)
    <3>1. next < next'
      BY <2>2
    <3> QED
      BY <2>1, <3>1 DEF Among
  <2> HIDE DEF type, area
  <2>4. CASE areas' = areas
    <3>1. \A t \in AreaTypes : \A i \in DOMAIN areas'[t] : Among(next', t, areas'[t][i])
      BY <2>3, <2>4 DEF Laid
    <3> QED
      BY <2>4, <3>1 DEF Laid
  <2>5. CASE areas' # areas
    <3>1. AreasOK(areas) /\ Apart(areas)
      BY DEF Laid
    <3>2. areas' = SetDescriptor(areas, type, area)
      BY <2>1, <2>5
    <3>3. /\ AreasOK(areas') /\ Apart(areas')
          /\ \A t \in AreaTypes : \A j \in DOMAIN areas'[t] :
                \/ t = type /\ areas'[t][j] = area
                \/ \E k \in DOMAIN areas[t] : areas'[t][j] = areas[t][k]
      BY <2>1, <2>5, <3>1, <3>2, Grown
    <3>4. ASSUME NEW t \in AreaTypes, NEW j \in DOMAIN areas'[t] PROVE Among(next', t, areas'[t][j])
      <4>1. CASE t = type /\ areas'[t][j] = area
        BY <2>3a, <4>1
      <4>2. CASE \E k \in DOMAIN areas[t] : areas'[t][j] = areas[t][k]
        <5>1. PICK k \in DOMAIN areas[t] : areas'[t][j] = areas[t][k]
          BY <4>2
        <5>2. Among(next, t, areas[t][k])
          BY DEF Laid
        <5> QED
          BY <2>3, <5>1, <5>2
      <4> QED
        BY <3>3, <4>1, <4>2
    <3> QED
      BY <3>3, <3>4 DEF Laid
  <2> QED
    BY <2>4, <2>5
<1>3. CASE AppWrite
  <2>1. AreasOK(areas') /\ Apart(areas') /\ SameLayout(areas, areas')
    BY <1>3, AppWriteIs
  <2> QED
    BY <1>3, <2>1, LaidSame DEF AppWrite
<1>4. CASE Transfer
  <2>1. next' = next
    BY <1>4 DEF Transfer
  <2>2. areas' = areas \/ Wrote(areas', slave.rq)
    BY <1>4, TransferDoes DEF Control
  <2>3. CASE Wrote(areas', slave.rq)
    BY <2>1, <2>3, LaidSame DEF Wrote
  <2> QED
    BY <1>1, <2>1, <2>2, <2>3
<1>5. CASE CheckEvent \/ GetInfo \/ GetTimeout
  BY <1>1, <1>5 DEF CheckEvent, GetInfo, GetTimeout
<1>6. CASE Master
  BY <1>1, <1>6 DEF Master, AskRaw, SetParameter, GetParameter, Receive, GiveUp, Lose, ForeignAsk
<1>7. CASE Take \/ Execute \/ Notify \/ Inform \/ Reply
  BY <1>1, <1>7 DEF Take, Execute, Notify, Inform, Reply
<1>8. CASE UNCHANGED vars
  BY <1>1, <1>8 DEF vars
<1> QED
  BY <1>2, <1>3, <1>4, <1>5, <1>6, <1>7, <1>8 DEF Next, Application, Stack

-------------------------------------------------------------------------------
(* The requests of the map.                                                *)

\* None of the requests is one the slave mistakes (2, 15).
RegularAsks ==
  /\ \A rq \in ForeignFrames : Regular(rq)
  /\ \A c \in RawCalls : c.fn = "ReadHolding" => c.size < ByteTop
  /\ \A param \in Params : param.size < ByteTop

AllRegular ==
  /\ \A m \in Masters : wire[m].kind = "request" => Regular(wire[m].frame)
  /\ slave.phase # "idle" => Regular(slave.rq)

LEMMA RegularInit == Init => AllRegular
BY IdleIs DEF Init, AllRegular, Nothing

LEMMA RegularStep ==
  ASSUME RegularAsks, Control, AllRegular, [Next]_vars
  PROVE  AllRegular'
<1>1. DOMAIN wire = Masters /\ Stage(slave)
  BY DEF Control
<1>2. CASE UNCHANGED <<wire, slave>>
  BY <1>2 DEF AllRegular
<1>3. ASSUME NEW kind, NEW param, NEW value, NEW c, Ask(kind, param, value, c), IsCall(c),
             c.fn = "ReadHolding" => c.size < ByteTop, slave' = slave
      PROVE  AllRegular'
  <2>1. CASE Request(c) = NoFrame
    BY <1>2, <1>3, <2>1 DEF Ask
  <2>2. CASE Request(c) # NoFrame
    <3> DEFINE f == Request(c)
    <3>1. wire' = [wire EXCEPT !["own"] = [kind |-> "request", frame |-> f, no |-> asks + 1]]
      BY <1>3, <2>2 DEF Ask
    <3>2. Regular(f)
      <4>1. f.fn = c.fn /\ f.cnt \in {1, c.size} /\ f.fits
        BY <1>3, <2>2, RequestIs
      <4> QED
        BY <1>3, <4>1 DEF Regular, Complete, ByteTop
    <3> HIDE DEF f
    <3> QED
      BY <1>1, <1>3, <3>1, <3>2 DEF AllRegular, Masters
  <2> QED
    BY <2>1, <2>2
<1>4. CASE AskRaw
  <2>1. slave' = slave /\ \E c \in RawCalls : Ask("raw", NoParam, <<>>, c)
    BY <1>4 DEF AskRaw
  <2> QED
    BY <1>3, <2>1, AskIs DEF RegularAsks
<1>5. CASE SetParameter
  <2>1. slave' = slave
    BY <1>5 DEF SetParameter
  <2>2. PICK param \in Params : \E value \in ParamValues[param.type] :
          /\ GetCommand(param, "write") # "none"
          /\ Ask("set", param, value,
                 [fn |-> GetCommand(param, "write"), addr |-> param.addr, size |-> param.size,
                  buf |-> Pairs(Converted(param.type, param.bytes, value), param.size)])
    BY <1>5 DEF SetParameter
  <2>3. PICK value \in ParamValues[param.type] :
          /\ GetCommand(param, "write") # "none"
          /\ Ask("set", param, value,
                 [fn |-> GetCommand(param, "write"), addr |-> param.addr, size |-> param.size,
                  buf |-> Pairs(Converted(param.type, param.bytes, value), param.size)])
    BY <2>2
  <2> DEFINE c == [fn |-> GetCommand(param, "write"), addr |-> param.addr, size |-> param.size,
                   buf |-> Pairs(Converted(param.type, param.bytes, value), param.size)]
  <2>4. IsCall(c) /\ c.fn = "WriteHoldings"
    BY <2>3, AskIs
  <2>5. Ask("set", param, value, c)
    BY <2>3
  <2> HIDE DEF c
  <2> QED
    BY <1>3, <2>1, <2>4, <2>5
<1>6. CASE GetParameter
  <2>1. slave' = slave
    BY <1>6 DEF GetParameter
  <2>2. PICK param \in Params :
          /\ GetCommand(param, "read") # "none"
          /\ Ask("get", param, <<>>,
                 [fn |-> GetCommand(param, "read"), addr |-> param.addr, size |-> param.size,
                  buf |-> Pairs(<<>>, param.size)])
    BY <1>6 DEF GetParameter
  <2> DEFINE c == [fn |-> GetCommand(param, "read"), addr |-> param.addr, size |-> param.size,
                   buf |-> Pairs(<<>>, param.size)]
  <2>3. IsCall(c) /\ c.size = param.size
    BY <2>2, AskIs
  <2>4. Ask("get", param, <<>>, c)
    BY <2>2
  <2> HIDE DEF c
  <2> QED
    BY <1>3, <2>1, <2>3, <2>4 DEF RegularAsks
<1>7. CASE Receive \/ Lose
  BY <1>1, <1>7 DEF Receive, Lose, AllRegular, Nothing, Masters
<1>8. CASE ForeignAsk
  <2>1. PICK rq \in ForeignFrames :
          wire' = [wire EXCEPT !["foreign"] = [kind |-> "request", frame |-> rq, no |-> 0]]
    BY <1>8 DEF ForeignAsk
  <2>2. slave' = slave /\ Regular(rq)
    BY <1>8 DEF ForeignAsk, RegularAsks
  <2> QED
    BY <1>1, <2>1, <2>2 DEF AllRegular, Masters
<1>9. CASE Take
  <2>1. PICK m \in Masters :
           /\ wire[m].kind = "request" /\ wire' = [wire EXCEPT ![m] = Nothing]
           /\ slave'.rq = wire[m].frame
    BY <1>9, TakeIs
  <2> QED
    BY <1>1, <2>1 DEF AllRegular, Nothing
<1>10. ASSUME wire' = wire, slave.phase # "idle", slave'.rq = slave.rq PROVE AllRegular'
  BY <1>10 DEF AllRegular
<1>11. CASE Execute
  BY <1>1, <1>10, <1>11, ExecuteIs DEF Execute
<1>12. CASE Transfer
  BY <1>1, <1>10, <1>12, TransferIs DEF Transfer
<1>13. CASE Notify
  BY <1>1, <1>10, <1>13, NotifyIs DEF Notify
<1>14. CASE Inform
  BY <1>1, <1>10, <1>14, NextDone DEF Inform
<1>15. CASE Reply
  <2>1. slave'.phase = "idle"
    BY <1>15, IdleIs DEF Reply
  <2>2. wire' = wire \/ \E a : wire' = [wire EXCEPT !["own"] = [kind |-> "answer", answer |-> a]]
    BY <1>15 DEF Reply
  <2> QED
    BY <1>1, <2>1, <2>2 DEF AllRegular, Masters
<1>16. CASE Application
  BY <1>2, <1>16 DEF Application, DefineArea, AppWrite, CheckEvent, GetInfo, GetTimeout
<1>17. CASE GiveUp
  BY <1>2, <1>17 DEF GiveUp
<1>18. CASE UNCHANGED vars
  BY <1>2, <1>18 DEF vars
<1> QED
  BY <1>4, <1>5, <1>6, <1>7, <1>8, <1>9, <1>11, <1>12, <1>13, <1>14, <1>15, <1>16, <1>17, <1>18
     DEF Next, Master, Stack

-------------------------------------------------------------------------------
(* The slave is a map of registers.                                        *)

\* What the slave is at, as the map sees it
Busy(s) == [read |-> ReadBy(s.rq), write |-> WrittenBy(s.rq), data |-> s.rq.data,
            wrote |-> "WRITE" \in s.done, got |-> s.data]
Free == [read |-> <<>>, write |-> <<>>, data |-> <<>>, wrote |-> FALSE, got |-> <<>>]
JobOf(s) == IF s.phase \in {"idle", "answer"} THEN Free ELSE Busy(s)
Silent == [ok |-> FALSE, got |-> <<>>]
ReplyOf(s) == IF s.phase = "answer" /\ s.ex = "NONE" THEN [ok |-> TRUE, got |-> s.data] ELSE Silent

\* The cells a request names
LEMMA NamedIs ==
  ASSUME NEW rq, NEW first, NEW n \in Nat
  PROVE  /\ DOMAIN Named(rq, first, n) = 1..n
         /\ n # 0 => Named(rq, first, n) # <<>>
         /\ \A m \in 1..n : Named(rq, first, n)[m] = <<TypeOf(rq), first + m - 1>>
BY DEF Named

\* A request reads and writes what its callbacks are for.
LEMMA CallsName ==
  ASSUME NEW calls, NEW rq, Writing(calls, rq) \/ Reading(calls, rq), Regular(rq)
  PROVE  /\ Writing(calls, rq) => /\ rq.fn \in Writers /\ rq.wcnt \in Nat \ {0}
                                  /\ WrittenBy(rq) = Named(rq, rq.waddr, rq.wcnt)
                                  /\ WrittenBy(rq) # <<>>
                                  /\ Len(calls) = 1 => ReadBy(rq) = <<>>
         /\ Reading(calls, rq) => /\ rq.fn \in Readers /\ rq.cnt \in Nat \ {0} /\ calls[1].n = rq.cnt
                                  /\ ReadBy(rq) = Named(rq, rq.addr, rq.cnt)
                                  /\ ReadBy(rq) # <<>>
         /\ WrittenBy(rq) # <<>> => Earlier(rq) = {"WRITE"}
         /\ Len(calls) = 1 => Writing(calls, rq) \/ Reading(calls, rq)
<1>1. Writing(calls, rq) => rq.fn \in Writers /\ rq.wcnt \in Nat \ {0}
  BY DEF Writing, WritesFor
<1>2. Reading(calls, rq) => rq.fn \in Readers /\ calls[1].n \in Nat \ {0} /\ calls[1].n = rq.cnt
  BY DEF Reading, ReadsFor
<1>3. Writing(calls, rq) /\ Len(calls) = 1 => rq.fn \notin Readers
  BY CallsAre
<1> QED
  BY <1>1, <1>2, <1>3, NamedIs DEF WrittenBy, ReadBy, Earlier

\* How the map, the job and the reply are seen
LEMMA Seen ==
  /\ UNION {ContentsOf(type) : type \in AreaTypes} = MapOf(areas)
  /\ (UNION {ContentsOf(type) : type \in AreaTypes})' = MapOf(areas')
BY DEF ContentsOf, MapOf

LEMMA MapWrites ==
  ASSUME JobOf(slave) = Busy(slave), JobOf(slave') = Busy(slave'), slave'.rq = slave.rq,
         WrittenBy(slave.rq) # <<>>, "WRITE" \notin slave.done, "WRITE" \in slave'.done,
         slave'.data = slave.data, ReplyOf(slave') = ReplyOf(slave),
         DOMAIN WrittenBy(slave.rq) = 1..slave.rq.wcnt,
         \A m \in 1..slave.rq.wcnt :
            WrittenBy(slave.rq)[m] = <<TypeOf(slave.rq), slave.rq.waddr + m - 1>>,
         MapOf(areas') = Updated(MapOf(areas), Fresh(slave.rq)),
         HasAll(MapOf(areas), TypeOf(slave.rq), slave.rq.waddr, slave.rq.wcnt)
  PROVE  Map!Write
<1> DEFINE j == JobOf(slave)
           d == JobOf(slave')
<1>1. j = Busy(slave) /\ d = Busy(slave')
  OBVIOUS
<1> HIDE DEF j, d
<1>2. /\ j.write = WrittenBy(slave.rq) /\ j.wrote = FALSE /\ j.data = slave.rq.data
      /\ d = [j EXCEPT !.wrote = TRUE]
  <2> DEFINE w == "WRITE" \in slave.done
             v == "WRITE" \in slave'.done
  <2>0. w \in BOOLEAN /\ v \in BOOLEAN /\ ~w /\ v
    OBVIOUS
  <2>a. /\ j = [read |-> ReadBy(slave.rq), write |-> WrittenBy(slave.rq), data |-> slave.rq.data,
                wrote |-> w, got |-> slave.data]
        /\ d = [read |-> ReadBy(slave.rq), write |-> WrittenBy(slave.rq), data |-> slave.rq.data,
                wrote |-> v, got |-> slave.data]
    BY <1>1 DEF Busy
  <2> HIDE DEF w, v
  <2>1. w = FALSE /\ v = TRUE
    BY <2>0
  <2>3. j = [read |-> ReadBy(slave.rq), write |-> WrittenBy(slave.rq), data |-> slave.rq.data,
             wrote |-> FALSE, got |-> slave.data]
    BY <2>1, <2>a
  <2>4. d = [read |-> ReadBy(slave.rq), write |-> WrittenBy(slave.rq), data |-> slave.rq.data,
             wrote |-> TRUE, got |-> slave.data]
    BY <2>1, <2>a
  <2> DEFINE e == [j EXCEPT !.wrote = TRUE]
  <2>5. e = [j EXCEPT !.wrote = TRUE]
    OBVIOUS
  <2> HIDE DEF e
  <2>6. e = [read |-> ReadBy(slave.rq), write |-> WrittenBy(slave.rq), data |-> slave.rq.data,
             wrote |-> TRUE, got |-> slave.data]
    BY <2>3, <2>5
  <2>7. e = d
    BY <2>4, <2>6
  <2>8. j.write = WrittenBy(slave.rq) /\ j.wrote = FALSE /\ j.data = slave.rq.data
    BY <2>3
  <2> QED
    BY <2>7, <2>8 DEF e
<1>3. j.write # <<>> /\ ~j.wrote
  BY <1>2
<1>4. \A i \in DOMAIN j.write : Has(MapOf(areas), j.write[i])
  BY <1>2 DEF HasAll
<1>5. MapOf(areas') = Updated(MapOf(areas), {<<j.write[i], j.data[i]>> : i \in DOMAIN j.write})
  BY <1>2 DEF Fresh
<1> QED
  BY <1>2, <1>3, <1>4, <1>5, Seen
     DEF Map!Write, Map!Known, Map!Replaced, Has, Updated, j, d, JobOf, Busy, Free, ReplyOf, Silent

LEMMA MapReads ==
  ASSUME JobOf(slave) = Busy(slave), JobOf(slave') = Busy(slave'), slave'.rq = slave.rq,
         ReadBy(slave.rq) # <<>>, slave.data = <<>>,
         WrittenBy(slave.rq) # <<>> => "WRITE" \in slave.done,
         "WRITE" \in slave'.done <=> "WRITE" \in slave.done,
         ReplyOf(slave') = ReplyOf(slave), MapOf(areas') = MapOf(areas),
         DOMAIN slave'.data = DOMAIN ReadBy(slave.rq),
         \A m \in DOMAIN ReadBy(slave.rq) : <<ReadBy(slave.rq)[m], slave'.data[m]>> \in MapOf(areas)
  PROVE  Map!Read
<1> DEFINE j == JobOf(slave)
           d == JobOf(slave')
<1>1. j = Busy(slave) /\ d = Busy(slave')
  OBVIOUS
<1> HIDE DEF j, d
<1>2. /\ j.read = ReadBy(slave.rq) /\ j.write = WrittenBy(slave.rq) /\ j.got = <<>>
      /\ j.wrote = ("WRITE" \in slave.done) /\ d.got = slave'.data
      /\ d = [j EXCEPT !.got = d.got]
  <2> DEFINE w == "WRITE" \in slave.done
             v == "WRITE" \in slave'.done
  <2>1. /\ j = [read |-> ReadBy(slave.rq), write |-> WrittenBy(slave.rq), data |-> slave.rq.data,
                wrote |-> w, got |-> <<>>]
        /\ d = [read |-> ReadBy(slave.rq), write |-> WrittenBy(slave.rq), data |-> slave.rq.data,
                wrote |-> v, got |-> slave'.data]
    BY <1>1 DEF Busy
  <2>2. w \in BOOLEAN /\ v \in BOOLEAN /\ (v <=> w)
    OBVIOUS
  <2> HIDE DEF w, v
  <2>2a. v = w
    BY <2>2
  <2> DEFINE e == [j EXCEPT !.got = slave'.data]
  <2>3. e = [j EXCEPT !.got = slave'.data]
    OBVIOUS
  <2> HIDE DEF e
  <2>4. e = d
    BY <2>1, <2>2a, <2>3
  <2>5. /\ j.read = ReadBy(slave.rq) /\ j.write = WrittenBy(slave.rq) /\ j.got = <<>>
        /\ j.wrote = w /\ d.got = slave'.data
    BY <2>1
  <2> QED
    BY <2>4, <2>5 DEF e, w
<1>3. j.read # <<>> /\ (j.write # <<>> => j.wrote)
  BY <1>2
<1>4. DOMAIN d.got = DOMAIN j.read /\ \A i \in DOMAIN j.read : <<j.read[i], d.got[i]>> \in MapOf(areas)
  BY <1>2
<1> QED
  BY <1>2, <1>3, <1>4, Seen DEF Map!Read, j, d, JobOf, Busy, Free, ReplyOf, Silent

LEMMA MapBegins ==
  ASSUME JobOf(slave) = Free, JobOf(slave') = Busy(slave'), "WRITE" \notin slave'.done,
         slave'.data = <<>>, ReplyOf(slave') = ReplyOf(slave), MapOf(areas') = MapOf(areas)
  PROVE  Map!Begin
<1> DEFINE d == JobOf(slave')
<1>1. d = Busy(slave')
  OBVIOUS
<1> HIDE DEF d
<1>2. ~d.wrote /\ d.got = <<>>
  BY <1>1 DEF Busy
<1> QED
  BY <1>2, Seen DEF Map!Begin, Map!NoJob, d, JobOf, Busy, Free, ReplyOf, Silent

LEMMA MapSucceeds ==
  ASSUME JobOf(slave) = Busy(slave), JobOf(slave') = Free,
         WrittenBy(slave.rq) # <<>> => "WRITE" \in slave.done,
         ReadBy(slave.rq) # <<>> => slave.data # <<>>,
         ReplyOf(slave') = [ok |-> TRUE, got |-> slave.data], MapOf(areas') = MapOf(areas)
  PROVE  Map!Succeed
<1> DEFINE j == JobOf(slave)
<1>1. j = Busy(slave)
  OBVIOUS
<1> HIDE DEF j
<1>2. (j.write # <<>> => j.wrote) /\ (j.read # <<>> => j.got # <<>>) /\ j.got = slave.data
  BY <1>1 DEF Busy
<1>3. ReplyOf(slave') = [ok |-> TRUE, got |-> j.got]
  BY <1>2
<1> QED
  BY <1>2, <1>3, Seen DEF Map!Succeed, Map!NoJob, j, JobOf, Busy, Free, ReplyOf, Silent

LEMMA MapRefuses ==
  ASSUME JobOf(slave) = Busy(slave), JobOf(slave') = Free,
         "WRITE" \in slave.done => ReadBy(slave.rq) # <<>> /\ slave.data = <<>>,
         ReplyOf(slave') = Silent, MapOf(areas') = MapOf(areas)
  PROVE  Map!Refuse
<1> DEFINE j == JobOf(slave)
<1>1. j = Busy(slave)
  OBVIOUS
<1> HIDE DEF j
<1>2. j.wrote => (j.read # <<>> /\ j.got = <<>>)
  BY <1>1 DEF Busy
<1> QED
  BY <1>2, Seen DEF Map!Refuse, Map!NoJob, Map!NoReply, j, JobOf, Busy, Free, ReplyOf, Silent

LEMMA MapDelivers ==
  ASSUME JobOf(slave') = JobOf(slave), ReplyOf(slave') = Silent, MapOf(areas') = MapOf(areas)
  PROVE  Map!Deliver
BY Seen DEF Map!Deliver, Map!NoReply, JobOf, Busy, Free, ReplyOf, Silent

LEMMA MapStutters ==
  ASSUME JobOf(slave') = JobOf(slave), ReplyOf(slave') = ReplyOf(slave), MapOf(areas') = MapOf(areas)
  PROVE  UNCHANGED Map!vars
BY Seen DEF Map!vars, JobOf, Busy, Free, ReplyOf, Silent

LEMMA MapGrows ==
  ASSUME slave' = slave, MapOf(areas) \subseteq MapOf(areas'),
         \A new \in MapOf(areas') \ MapOf(areas) : \A e \in MapOf(areas) : e[1] # new[1]
  PROVE  Map!Grow
BY Seen DEF Map!Grow, Map!Known

LEMMA MapUpdates ==
  ASSUME slave' = slave, NEW w \in AppWrites,
         MapOf(areas') = Updated(MapOf(areas), {<< <<w.type, w.addr>>, OnWire(w.type, w.value) >>}),
         Has(MapOf(areas), <<w.type, w.addr>>)
  PROVE  Map!Update
<1> DEFINE entry == << <<w.type, w.addr>>, OnWire(w.type, w.value) >>
<1>1. entry \in {<< <<x.type, x.addr>>, OnWire(x.type, x.value) >> : x \in AppWrites}
  OBVIOUS
<1>2. entry[1] = <<w.type, w.addr>>
  OBVIOUS
<1> HIDE DEF entry
<1>3. MapOf(areas') = Updated(MapOf(areas), {entry}) /\ Has(MapOf(areas), entry[1])
  BY <1>2 DEF entry
<1> QED
  BY <1>1, <1>3, Seen DEF Map!Update, Map!Known, Map!Replaced, Updated, Has

\* Every step of the slave is one of the map, or none.
LEMMA MapStep ==
  ASSUME WellLaid, Laid, Control, AllRegular, [Next]_vars
  PROVE  [Map!Next]_Map!vars
<1>1. Stage(slave)
  BY DEF Control
<1>2. CASE UNCHANGED <<areas, slave>>
  BY <1>2, MapStutters
<1>3. CASE DefineArea
  <2> DEFINE type == AreaList[next].type
             area == AreaList[next].area
  <2>1. /\ next \in DOMAIN AreaList /\ type \in AreaTypes /\ IsArea(type, area)
        /\ \/ areas' = areas
           \/ /\ areas' = SetDescriptor(areas, type, area)
              /\ \A j \in DOMAIN areas[type] :
                   Before(type, areas[type][j], area) \/ Before(type, area, areas[type][j])
    BY <1>3, DefineIs
  <2>2. slave' = slave /\ AreasOK(areas) /\ Apart(areas)
    BY <1>3 DEF DefineArea, Laid
  <2> HIDE DEF type, area
  <2>3. CASE areas' = areas
    BY <1>2, <2>2, <2>3
  <2>4. CASE areas' # areas
    <3>1. areas' = SetDescriptor(areas, type, area)
      BY <2>1, <2>4
    <3>2. /\ MapOf(areas) \subseteq MapOf(areas')
          /\ \A new \in MapOf(areas') \ MapOf(areas) : \A e \in MapOf(areas) : e[1] # new[1]
      BY <2>1, <2>2, <2>4, <3>1, Grown
    <3>3. Map!Grow
      BY <2>2, <3>2, MapGrows
    <3> QED
      BY <3>3 DEF Map!Next
  <2> QED
    BY <2>3, <2>4
<1>4. CASE AppWrite
  <2>1. PICK w \in AppWrites :
           /\ MapOf(areas') = Updated(MapOf(areas), {<< <<w.type, w.addr>>, OnWire(w.type, w.value) >>})
           /\ Has(MapOf(areas), <<w.type, w.addr>>)
    BY <1>4, AppWriteIs
  <2>2. slave' = slave
    BY <1>4 DEF AppWrite
  <2>3. Map!Update
    BY <2>1, <2>2, MapUpdates
  <2> QED
    BY <2>3 DEF Map!Next
<1>5. CASE Take
  <2>1. /\ slave'.phase = "execute" /\ slave'.done = {} /\ slave'.data = <<>>
        /\ slave.phase = "idle" /\ areas' = areas
    BY <1>5, TakeIs DEF Take
  <2>2. Map!Begin
    BY <2>1, MapBegins DEF JobOf, ReplyOf
  <2> QED
    BY <2>2 DEF Map!Next
<1>6. CASE Execute
  <2>1. /\ slave.done = {} /\ slave.data = <<>> /\ slave.phase = "execute"
        /\ slave'.rq = slave.rq /\ slave'.done = {} /\ slave'.data = <<>> /\ areas' = areas
        /\ \/ slave'.phase = "answer" /\ (Complete(slave.rq) => slave'.ex # "NONE")
           \/ slave'.phase = "call"
    BY <1>1, <1>6, ExecuteIs DEF Execute
  <2>2. Complete(slave.rq)
    BY <2>1 DEF AllRegular, Regular
  <2>3. CASE slave'.phase = "answer" /\ slave'.ex # "NONE"
    <3>1. Map!Refuse
      BY <2>1, <2>3, MapRefuses DEF JobOf, ReplyOf
    <3> QED
      BY <3>1 DEF Map!Next
  <2>4. CASE slave'.phase = "call"
    <3>1. JobOf(slave') = JobOf(slave) /\ ReplyOf(slave') = ReplyOf(slave)
      BY <2>1, <2>4 DEF JobOf, Busy, ReplyOf
    <3> QED
      BY <2>1, <3>1, MapStutters
  <2> QED
    BY <2>1, <2>2, <2>3, <2>4
<1>7. CASE Transfer
  <2> DEFINE rq == slave.rq
             calls == slave.calls
  <2>1. slave.phase = "call" /\ slave.data = <<>> /\ slave'.rq = rq
    BY <1>1, <1>7, TransferDoes
  <2>2. Regular(rq)
    BY <2>1 DEF AllRegular
  <2>3. CASE /\ areas' = areas /\ slave'.phase = "answer" /\ slave'.ex # "NONE"
             /\ slave'.done = slave.done /\ slave'.data = <<>>
             /\ \/ Writing(calls, rq) /\ slave.done = {}
                \/ Reading(calls, rq) /\ slave.done = Earlier(rq)
    <3>1. "WRITE" \in slave.done => ReadBy(rq) # <<>>
      BY <2>2, <2>3, CallsName
    <3>2. Map!Refuse
      BY <2>1, <2>3, <3>1, MapRefuses DEF JobOf, ReplyOf
    <3> QED
      BY <3>2 DEF Map!Next
  <2>4. CASE /\ slave'.phase = "notify" /\ Writing(calls, rq) /\ slave.done = {}
             /\ slave'.done = {"WRITE"} /\ slave'.data = <<>> /\ Wrote(areas', rq)
    <3>1. /\ rq.wcnt \in Nat \ {0} /\ WrittenBy(rq) = Named(rq, rq.waddr, rq.wcnt) /\ WrittenBy(rq) # <<>>
      BY <2>2, <2>4, CallsName
    <3>2. /\ DOMAIN WrittenBy(rq) = 1..rq.wcnt
          /\ \A m \in 1..rq.wcnt : WrittenBy(rq)[m] = <<TypeOf(rq), rq.waddr + m - 1>>
      BY <3>1, NamedIs
    <3>3. /\ MapOf(areas') = Updated(MapOf(areas), Fresh(rq))
          /\ HasAll(MapOf(areas), TypeOf(rq), rq.waddr, rq.wcnt)
      BY <2>4 DEF Wrote
    <3>4. JobOf(slave) = Busy(slave) /\ JobOf(slave') = Busy(slave') /\ ReplyOf(slave') = ReplyOf(slave)
      BY <2>1, <2>4 DEF JobOf, ReplyOf
    <3>5. "WRITE" \notin slave.done /\ "WRITE" \in slave'.done /\ slave'.data = slave.data
      BY <2>1, <2>4
    <3>6. Map!Write
      BY <2>1, <3>1, <3>2, <3>3, <3>4, <3>5, MapWrites
    <3> QED
      BY <3>6 DEF Map!Next
  <2>5. CASE /\ slave'.phase = "notify" /\ areas' = areas
             /\ Reading(calls, rq) /\ slave.done = Earlier(rq)
             /\ slave'.done = Earlier(rq) \cup {"READ"}
             /\ Saw(rq, calls[1].n, slave'.data)
    <3>1. /\ rq.cnt \in Nat \ {0} /\ calls[1].n = rq.cnt
          /\ ReadBy(rq) = Named(rq, rq.addr, rq.cnt) /\ ReadBy(rq) # <<>>
          /\ WrittenBy(rq) # <<>> => Earlier(rq) = {"WRITE"}
      BY <2>2, <2>5, CallsName
    <3>2. /\ DOMAIN ReadBy(rq) = 1..rq.cnt
          /\ \A m \in 1..rq.cnt : ReadBy(rq)[m] = <<TypeOf(rq), rq.addr + m - 1>>
      BY <3>1, NamedIs
    <3>3. Saw(rq, rq.cnt, slave'.data)
      BY <2>5, <3>1
    <3>4. /\ DOMAIN slave'.data = DOMAIN ReadBy(rq)
          /\ \A m \in DOMAIN ReadBy(rq) : <<ReadBy(rq)[m], slave'.data[m]>> \in MapOf(areas)
      BY <3>2, <3>3 DEF Saw
    <3>5. JobOf(slave) = Busy(slave) /\ JobOf(slave') = Busy(slave') /\ ReplyOf(slave') = ReplyOf(slave)
      BY <2>1, <2>5 DEF JobOf, ReplyOf
    <3>6. /\ WrittenBy(rq) # <<>> => "WRITE" \in slave.done
          /\ ("WRITE" \in slave'.done) <=> ("WRITE" \in slave.done)
      BY <2>5, <3>1
    <3>7. Map!Read
      BY <2>1, <2>5, <3>1, <3>4, <3>5, <3>6, MapReads
    <3> QED
      BY <3>7 DEF Map!Next
  <2> HIDE DEF rq, calls
  <2> QED
    BY <1>1, <1>7, <2>3, <2>4, <2>5, TransferDoes DEF rq, calls
<1>8. CASE Notify
  <2>1. /\ slave'.rq = slave.rq /\ slave'.done = slave.done /\ slave'.data = slave.data
        /\ slave.phase = "notify" /\ slave'.phase = "info" /\ areas' = areas
    BY <1>1, <1>8, NotifyIs DEF Notify
  <2>2. JobOf(slave') = JobOf(slave) /\ ReplyOf(slave') = ReplyOf(slave)
    BY <2>1 DEF JobOf, Busy, ReplyOf
  <2> QED
    BY <2>1, <2>2, MapStutters
<1>9. CASE Inform
  <2> DEFINE rq == slave.rq
             calls == slave.calls
  <2>1. /\ slave'.rq = rq /\ slave'.data = slave.data /\ slave'.done = slave.done
        /\ slave.phase = "info" /\ areas' = areas
        /\ \/ Len(calls) = 1 /\ slave'.phase = "answer" /\ slave'.ex = "NONE"
           \/ slave'.phase = "call"
    BY <1>1, <1>9, NextDone DEF Inform
  <2>2. Regular(rq)
    BY <2>1 DEF AllRegular
  <2>3. CASE Len(calls) = 1 /\ slave'.phase = "answer" /\ slave'.ex = "NONE"
    <3>1. \/ Writing(calls, rq) /\ slave.done = {"WRITE"}
          \/ /\ Reading(calls, rq) /\ slave.done = Earlier(rq) \cup {"READ"}
             /\ DOMAIN slave.data = 1..calls[1].n
      BY <1>1, <2>1 DEF Stage
    <3>2. WrittenBy(rq) # <<>> => "WRITE" \in slave.done
      BY <2>2, <2>3, <3>1, CallsName
    <3>3. ReadBy(rq) # <<>> => slave.data # <<>>
      <4>1. CASE Writing(calls, rq)
        BY <2>2, <2>3, <4>1, CallsName
      <4>2. CASE Reading(calls, rq) /\ DOMAIN slave.data = 1..calls[1].n
        <5>1. calls[1].n \in Nat \ {0}
          BY <2>2, <4>2, CallsName
        <5> QED
          BY <4>2, <5>1
      <4> QED
        BY <3>1, <4>1, <4>2
    <3>4. JobOf(slave) = Busy(slave) /\ JobOf(slave') = Free
          /\ ReplyOf(slave') = [ok |-> TRUE, got |-> slave.data]
      BY <2>1, <2>3 DEF JobOf, ReplyOf
    <3>5. Map!Succeed
      BY <2>1, <3>2, <3>3, <3>4, MapSucceeds
    <3> QED
      BY <3>5 DEF Map!Next
  <2>4. CASE slave'.phase = "call"
    <3>1. JobOf(slave') = JobOf(slave) /\ ReplyOf(slave') = ReplyOf(slave)
      BY <2>1, <2>4 DEF JobOf, Busy, ReplyOf
    <3> QED
      BY <2>1, <3>1, MapStutters
  <2> QED
    BY <2>1, <2>3, <2>4
<1>10. CASE Reply
  <2>1. slave.phase = "answer" /\ slave'.phase = "idle" /\ areas' = areas
    BY <1>10, IdleIs DEF Reply
  <2>2. Map!Deliver
    BY <2>1, MapDelivers DEF JobOf, ReplyOf
  <2> QED
    BY <2>2 DEF Map!Next
<1>11. CASE CheckEvent \/ GetInfo \/ GetTimeout
  BY <1>2, <1>11 DEF CheckEvent, GetInfo, GetTimeout
<1>12. CASE Master
  BY <1>2, <1>12 DEF Master, AskRaw, SetParameter, GetParameter, Receive, GiveUp, Lose, ForeignAsk
<1>13. CASE UNCHANGED vars
  BY <1>2, <1>13 DEF vars
<1> QED
  BY <1>3, <1>4, <1>5, <1>6, <1>7, <1>8, <1>9, <1>10, <1>11, <1>12, <1>13
     DEF Next, Application, Stack

\* However the areas are laid out (but for 16 and 18) and whoever works on them at the same time, the
\* handlers and callbacks of the slave (mbs_fn_*, mbc_reg_*_slave_cb) implement a map of registers: a
\* request that succeeds reads and writes what it names, each way at one instant, and a refused one
\* leaves it alone.  The requests 2 and 15 are left out.
THEOREM ImplementsMap == WellLaid /\ RegularAsks => (Spec => ImplementsRegisterMap)
<1> SUFFICES ASSUME WellLaid, RegularAsks PROVE Spec => ImplementsRegisterMap
  OBVIOUS
<1>1. Init => Map!Init
  <2> SUFFICES ASSUME Init PROVE Map!Init
    OBVIOUS
  <2>1. MapOf(areas) = {}
    <3>1. areas = [type \in AreaTypes |-> <<>>]
      BY DEF Init
    <3>2. \A type \in AreaTypes : DOMAIN areas[type] = {}
      BY <3>1
    <3> QED
      BY <3>2 DEF MapOf
  <2>2. slave.phase = "idle"
    BY IdleIs DEF Init
  <2> QED
    BY <2>1, <2>2, Seen DEF Map!Init, Map!NoJob, Map!NoReply
<1>2. WellLaid /\ Laid /\ Control /\ AllRegular /\ [Next]_vars => [Map!Next]_Map!vars
  BY MapStep
<1>3. Laid /\ Control /\ [Next]_vars => Laid'
  BY LaidStep
<1>4. Control /\ AllRegular /\ [Next]_vars => AllRegular'
  BY RegularStep
<1> QED
  BY <1>1, <1>2, <1>3, <1>4, LaidInit, RegularInit, ControlInit, ControlStep, PTL
     DEF Spec, ImplementsRegisterMap, Map!Spec

-------------------------------------------------------------------------------
(* A value on its way: whose request it is, ...                            *)

\* What a call keeps until the next one
SameCall(c, d) ==
  /\ d.kind = c.kind /\ d.param = c.param /\ d.value = c.value /\ d.addr = c.addr
  /\ d.size = c.size /\ d.rq = c.rq /\ d.no = c.no

\* The call that is made
LEMMA AskSets ==
  ASSUME Control, MayAsk, NEW kind, NEW param, NEW value, NEW c, Ask(kind, param, value, c)
  PROVE  /\ asks' = asks + 1 /\ held' = <<>>
         /\ call'.kind = kind /\ call'.param = param /\ call'.value = value
         /\ call'.addr = c.addr /\ call'.size = c.size /\ call'.buf = c.buf /\ call'.rq = Request(c)
         /\ call'.no = asks + 1
         /\ wire'["foreign"] = wire["foreign"]
         /\ \/ call'.state = "done" /\ call'.ex = "EINVAL" /\ wire'["own"] = Nothing
            \/ /\ call'.state = "sent"
               /\ wire'["own"] = [kind |-> "request", frame |-> call'.rq, no |-> asks + 1]
<1>1. DOMAIN wire = Masters /\ wire["own"] = Nothing
  BY DEF Control, MayAsk
<1>2. /\ asks' = asks + 1 /\ held' = <<>>
      /\ call'.kind = kind /\ call'.param = param /\ call'.value = value
      /\ call'.addr = c.addr /\ call'.size = c.size /\ call'.buf = c.buf /\ call'.rq = Request(c)
      /\ call'.no = asks + 1
      /\ \/ Request(c) = NoFrame /\ call'.state = "done" /\ call'.ex = "EINVAL" /\ wire' = wire
         \/ /\ Request(c) # NoFrame /\ call'.state = "sent"
            /\ wire' = [wire EXCEPT !["own"] = [kind |-> "request", frame |-> Request(c), no |-> asks + 1]]
  BY DEF Ask
<1> QED
  BY <1>1, <1>2 DEF Masters

\* The answer that is received
LEMMA ReceiveIs ==
  ASSUME Control, Receive
  PROVE  LET answer == wire["own"].answer
             took   == MasterHandler(call, call.rq, answer.frame)
         IN  /\ wire["own"].kind = "answer" /\ wire'["own"] = Nothing
             /\ wire'["foreign"] = wire["foreign"]
             /\ \/ call.state # "sent" /\ call' = call
                \/ /\ call.state = "sent" /\ call'.state = "done" /\ SameCall(call, call')
                   /\ \/ answer.ex # "NONE" /\ call'.ex = answer.ex /\ call'.buf = call.buf
                      \/ answer.ex = "NONE" /\ call'.ex = took.ex /\ call'.buf = took.buf
<1> DEFINE answer == wire["own"].answer
           took   == MasterHandler(call, call.rq, answer.frame)
<1>1. DOMAIN wire = Masters /\ Calling(call)
  BY DEF Control
<1>2. /\ wire["own"].kind = "answer" /\ wire' = [wire EXCEPT !["own"] = Nothing]
      /\ call' = IF call.state # "sent" THEN call
                 ELSE IF answer.ex # "NONE" THEN [call EXCEPT !.state = "done", !.ex = answer.ex]
                      ELSE [call EXCEPT !.state = "done", !.ex = took.ex, !.buf = took.buf]
  BY DEF Receive
<1>3. wire'["own"] = Nothing /\ wire'["foreign"] = wire["foreign"]
  BY <1>1, <1>2 DEF Masters
<1> HIDE DEF answer, took
<1> DEFINE d == call'
<1>4. \/ call.state # "sent" /\ d = call
      \/ /\ call.state = "sent" /\ answer.ex # "NONE"
         /\ d = [call EXCEPT !.state = "done", !.ex = answer.ex]
      \/ /\ call.state = "sent" /\ answer.ex = "NONE"
         /\ d = [call EXCEPT !.state = "done", !.ex = took.ex, !.buf = took.buf]
  BY <1>2
<1> HIDE DEF d
<1>5. \/ call.state # "sent" /\ d = call
      \/ /\ call.state = "sent" /\ d.state = "done" /\ SameCall(call, d)
         /\ \/ answer.ex # "NONE" /\ d.ex = answer.ex /\ d.buf = call.buf
            \/ answer.ex = "NONE" /\ d.ex = took.ex /\ d.buf = took.buf
  BY <1>1, <1>4 DEF Calling, SameCall
<1> QED
  BY <1>2, <1>3, <1>5 DEF d, answer, took

LEMMA GiveUpIs ==
  ASSUME Control, GiveUp
  PROVE  /\ call.state = "sent" /\ call'.state = "done" /\ call'.ex = "ETIMEDOUT" /\ SameCall(call, call')
         /\ call'.buf = call.buf
<1> DEFINE d == call'
<1>1. call.state = "sent" /\ d = [call EXCEPT !.state = "done", !.ex = "ETIMEDOUT"] /\ Calling(call)
  BY DEF GiveUp, Control
<1> HIDE DEF d
<1>2. d.state = "done" /\ d.ex = "ETIMEDOUT" /\ SameCall(call, d) /\ d.buf = call.buf
  BY <1>1 DEF Calling, SameCall
<1> QED
  BY <1>1, <1>2 DEF d

\* A request and an answer belong to the call that is made: a number is not used twice.
LEMMA NumberedStep ==
  ASSUME Control, Numbered, [Next]_vars
  PROVE  Numbered'
<1>1. /\ DOMAIN wire = Masters /\ Stage(slave) /\ Calling(call) /\ asks \in Nat
      /\ call.no \in Nat /\ slave.no \in Nat
  BY DEF Control, Calling, Stage
<1>2. /\ call.no =< asks /\ slave.no =< asks
      /\ call.state = "sent" => call.no >= 1
      /\ wire["foreign"].kind = "request" => wire["foreign"].no = 0
      /\ wire["own"].kind = "request" => wire["own"].frame = call.rq /\ wire["own"].no = call.no
      /\ call.state = "sent" /\ slave.no = call.no => slave.rq = call.rq /\ wire["own"] = Nothing
  BY DEF Numbered, Awaited
<1>3. CASE UNCHANGED <<asks, call, wire>> /\ slave'.no = slave.no /\ slave'.rq = slave.rq
  BY <1>3 DEF Numbered, Awaited
<1>4. ASSUME MayAsk, NEW kind, NEW param, NEW value, NEW c, Ask(kind, param, value, c), slave' = slave
      PROVE  Numbered'
  <2>1. /\ asks' = asks + 1 /\ call'.no = asks + 1 /\ wire'["foreign"] = wire["foreign"]
        /\ \/ call'.state = "done" /\ wire'["own"] = Nothing
           \/ wire'["own"] = [kind |-> "request", frame |-> call'.rq, no |-> asks + 1]
    BY <1>4, AskSets
  <2>2. slave'.no # call'.no
    BY <1>1, <1>2, <1>4, <2>1
  <2>3. /\ call'.no =< asks' /\ slave'.no =< asks' /\ call'.no >= 1
    BY <1>1, <1>2, <1>4, <2>1
  <2>4. wire'["own"].kind = "request" => wire'["own"].frame = call'.rq /\ wire'["own"].no = call'.no
    BY <2>1 DEF Nothing
  <2> QED
    BY <1>2, <2>1, <2>2, <2>3, <2>4 DEF Numbered, Awaited
<1>5. CASE AskRaw \/ SetParameter \/ GetParameter
  BY <1>4, <1>5 DEF AskRaw, SetParameter, GetParameter
<1>6. CASE Receive
  <2>1. /\ wire'["own"] = Nothing /\ wire'["foreign"] = wire["foreign"]
        /\ call' = call \/ (call'.state = "done" /\ SameCall(call, call'))
    BY <1>6, ReceiveIs
  <2>2. UNCHANGED <<asks, slave>>
    BY <1>6 DEF Receive
  <2> QED
    BY <1>2, <2>1, <2>2 DEF Numbered, Awaited, SameCall, Nothing
<1>7. CASE GiveUp
  BY <1>2, <1>7, GiveUpIs DEF GiveUp, Numbered, Awaited, SameCall
<1>8. CASE Lose
  <2>1. wire'["own"] = Nothing /\ wire'["foreign"] = wire["foreign"] /\ UNCHANGED <<asks, call, slave>>
    BY <1>1, <1>8 DEF Lose, Masters
  <2> QED
    BY <1>2, <2>1 DEF Numbered, Awaited, Nothing
<1>9. CASE ForeignAsk
  <2>1. PICK rq : wire' = [wire EXCEPT !["foreign"] = [kind |-> "request", frame |-> rq, no |-> 0]]
    BY <1>9 DEF ForeignAsk
  <2>2. wire'["own"] = wire["own"] /\ wire'["foreign"].no = 0 /\ UNCHANGED <<call, slave>> /\ asks' = asks + 1
    BY <1>1, <1>9, <2>1 DEF ForeignAsk, Masters
  <2>3. call.no =< asks' /\ slave.no =< asks'
    BY <1>1, <1>2, <2>2
  <2> QED
    BY <1>2, <2>2, <2>3 DEF Numbered, Awaited
<1>10. CASE Take
  <2>1. PICK m \in Masters :
           /\ wire[m].kind = "request" /\ wire' = [wire EXCEPT ![m] = Nothing]
           /\ slave'.rq = wire[m].frame /\ slave'.no = wire[m].no
    BY <1>10, TakeIs
  <2>2. UNCHANGED <<asks, call>>
    BY <1>10 DEF Take
  <2>3. CASE m = "own"
    <3>1. wire'["own"] = Nothing /\ wire'["foreign"] = wire["foreign"]
      BY <1>1, <2>1, <2>3 DEF Masters
    <3> QED
      BY <1>2, <2>1, <2>2, <2>3, <3>1 DEF Numbered, Awaited, Nothing
  <2>4. CASE m = "foreign"
    <3>1. wire'["own"] = wire["own"] /\ wire'["foreign"] = Nothing /\ slave'.no = 0
      BY <1>1, <1>2, <2>1, <2>4 DEF Masters
    <3>2. call.state = "sent" => call.no # 0
      BY <1>1, <1>2
    <3>3. slave'.no =< asks
      BY <1>1, <3>1
    <3> QED
      BY <1>2, <2>2, <3>1, <3>2, <3>3 DEF Numbered, Awaited, Nothing
  <2> QED
    BY <2>3, <2>4 DEF Masters
<1>11. CASE Execute
  BY <1>1, <1>3, <1>11, ExecuteIs DEF Execute
<1>12. CASE Transfer
  BY <1>1, <1>3, <1>12, TransferIs DEF Transfer
<1>13. CASE Notify
  BY <1>1, <1>3, <1>13, NotifyIs DEF Notify
<1>14. CASE Inform
  BY <1>1, <1>3, <1>14, NextDone DEF Inform
<1>15. CASE Reply
  <2>1. slave'.no = 0 /\ UNCHANGED <<asks, call>>
    BY <1>15, IdleIs DEF Reply
  <2>2. /\ wire'["foreign"] = wire["foreign"]
        /\ wire'["own"] = wire["own"] \/ wire'["own"].kind = "answer"
    BY <1>1, <1>15 DEF Reply, Masters
  <2>3. (call.state = "sent" => call.no # 0) /\ 0 =< asks
    BY <1>1, <1>2
  <2> QED
    BY <1>2, <2>1, <2>2, <2>3 DEF Numbered, Awaited
<1>16. CASE Application
  BY <1>3, <1>16 DEF Application, DefineArea, AppWrite, CheckEvent, GetInfo, GetTimeout
<1>17. CASE UNCHANGED vars
  BY <1>3, <1>17 DEF vars
<1> QED
  BY <1>5, <1>6, <1>7, <1>8, <1>9, <1>10, <1>11, <1>12, <1>13, <1>14, <1>15, <1>16, <1>17
     DEF Next, Master, Stack

-------------------------------------------------------------------------------
(* ... what was asked, ...                                                 *)

\* What is asked for a parameter
AskedFor(kind, param, value, size, buf, rq) ==
  /\ kind \in {"set", "get"} => param \in Params /\ size = param.size
  /\ kind = "set" =>
        /\ value \in ParamValues[param.type]
        /\ buf = Pairs(Converted(param.type, param.bytes, value), param.size)
        /\ rq = Frame("WriteHoldings", param.addr, size, RegisterBytes(size), Swapped(buf))
  /\ kind = "get" => \E fn \in {"ReadHolding", "ReadInput"} : rq = Frame(fn, param.addr, size, 0, <<>>)

Asked == AskedFor(call.kind, call.param, call.value, call.size, call.buf, call.rq)

\* The master leaves the buffer of a write as it is, and puts what was read into that of a read.
LEMMA TookWrite ==
  ASSUME NEW c, NEW answer, NEW addr, NEW size, NEW bytes, NEW data
  PROVE  MasterHandler(c, Frame("WriteHoldings", addr, size, bytes, data), answer).buf = c.buf
<1> DEFINE f == Frame("WriteHoldings", addr, size, bytes, data)
<1>1. f.fn = "WriteHoldings"
  BY DEF Frame
<1> HIDE DEF f
<1>2. MasterHandler(c, f, answer) = MasterWriteHoldings(c, f, answer)
  BY <1>1 DEF MasterHandler
<1>3. MasterHoldingCb(c, f.cnt, "WRITE", <<>>).buf = c.buf
  BY DEF MasterHoldingCb, Took
<1> QED
  BY <1>2, <1>3 DEF MasterWriteHoldings, Rejects, f

LEMMA TookRead ==
  ASSUME NEW c, NEW answer, NEW addr, NEW size, NEW fn \in {"ReadHolding", "ReadInput"},
         MasterHandler(c, Frame(fn, addr, size, 0, <<>>), answer).ex = "NONE"
  PROVE  /\ MasterHandler(c, Frame(fn, addr, size, 0, <<>>), answer).buf = Swapped(answer.data)
         /\ answer.bytes = 2 * size
<1> DEFINE f == Frame(fn, addr, size, 0, <<>>)
           took == MasterHandler(c, f, answer)
<1>1. f.fn = fn /\ f.cnt = size
  BY DEF Frame
<1>2. ExceptionOf("ENOREG") # "NONE"
  BY ExceptionIs
<1> HIDE DEF f
<1>3. CASE fn = "ReadHolding"
  <2>1. took = MasterReadHolding(c, f, answer)
    BY <1>1, <1>3 DEF MasterHandler
  <2>2. \/ took = Rejects(c)
        \/ took = MasterHoldingCb(c, f.cnt, "READ", answer.data) /\ answer.bytes = 2 * f.cnt
    BY <2>1 DEF MasterReadHolding
  <2>3. \/ MasterHoldingCb(c, f.cnt, "READ", answer.data) = Took("ENOREG", c.buf)
        \/ MasterHoldingCb(c, f.cnt, "READ", answer.data) = Took("ENOERR", Swapped(answer.data))
    BY DEF MasterHoldingCb
  <2> HIDE DEF took
  <2> QED
    BY <1>1, <1>2, <2>2, <2>3 DEF Took, Rejects, took, f
<1>4. CASE fn = "ReadInput"
  <2>1. took = MasterReadInput(c, f, answer)
    BY <1>1, <1>4 DEF MasterHandler
  <2>2. \/ took = Rejects(c)
        \/ took = MasterInputCb(c, f.cnt, answer.data) /\ answer.bytes = 2 * f.cnt
    BY <2>1 DEF MasterReadInput
  <2>3. \/ MasterInputCb(c, f.cnt, answer.data) = Took("ENOREG", c.buf)
        \/ MasterInputCb(c, f.cnt, answer.data) = Took("ENOERR", Swapped(answer.data))
    BY DEF MasterInputCb
  <2> HIDE DEF took
  <2> QED
    BY <1>1, <1>2, <2>2, <2>3 DEF Took, Rejects, took, f
<1> QED
  BY <1>3, <1>4

LEMMA ParamIs ==
  ASSUME NEW param \in Params
  PROVE  /\ param.area \in {"HOLDING", "INPUT"} /\ param.addr \in Nat /\ param.size \in Nat \ {0}
         /\ param.type \in AllTypes /\ param.bytes \in Nat /\ param.bytes =< 2 * param.size
         /\ \A value \in ParamValues[param.type] : value \in Seq(Byte) /\ param.bytes =< Len(value)
<1>1. IsParam(param)
      /\ \A value \in ParamValues[param.type] : value \in Seq(Byte) /\ param.bytes =< Len(value)
  BY ExchangeAssumption
<1> QED
  BY <1>1 DEF IsParam, AllTypes

LEMMA AskedStep ==
  ASSUME Control, Asked, [Next]_vars
  PROVE  Asked'
<1>1. CASE call' = call
  BY <1>1 DEF Asked
<1>2. CASE AskRaw
  <2>1. PICK c : MayAsk /\ Ask("raw", NoParam, <<>>, c)
    BY <1>2 DEF AskRaw
  <2>2. call'.kind = "raw"
    BY <2>1, AskSets
  <2> QED
    BY <2>2 DEF Asked, AskedFor
<1>3. CASE SetParameter
  <2>1. PICK param \in Params : \E value \in ParamValues[param.type] :
          /\ GetCommand(param, "write") # "none"
          /\ Ask("set", param, value,
                 [fn |-> GetCommand(param, "write"), addr |-> param.addr, size |-> param.size,
                  buf |-> Pairs(Converted(param.type, param.bytes, value), param.size)])
    BY <1>3 DEF SetParameter
  <2>2. PICK value \in ParamValues[param.type] :
          /\ GetCommand(param, "write") # "none"
          /\ Ask("set", param, value,
                 [fn |-> GetCommand(param, "write"), addr |-> param.addr, size |-> param.size,
                  buf |-> Pairs(Converted(param.type, param.bytes, value), param.size)])
    BY <2>1
  <2> DEFINE buf == Pairs(Converted(param.type, param.bytes, value), param.size)
             c == [fn |-> "WriteHoldings", addr |-> param.addr, size |-> param.size, buf |-> buf]
  <2>3. GetCommand(param, "write") = "WriteHoldings" /\ MayAsk
    BY <1>3, <2>2, AskIs DEF SetParameter
  <2>4. Ask("set", param, value, c)
    BY <2>2, <2>3
  <2> HIDE DEF buf
  <2>5. Request(c) = Frame("WriteHoldings", param.addr, param.size, RegisterBytes(param.size), Swapped(buf))
    BY DEF Request, RqWriteHoldings
  <2>6. c.addr = param.addr /\ c.size = param.size /\ c.buf = buf
    OBVIOUS
  <2> HIDE DEF c
  <2>7. /\ call'.kind = "set" /\ call'.param = param /\ call'.value = value
        /\ call'.size = param.size /\ call'.buf = buf /\ call'.rq = Request(c)
    BY <2>3, <2>4, <2>6, AskSets
  <2>8. AskedFor("set", param, value, param.size, buf, Request(c))
    BY <2>5 DEF AskedFor, buf
  <2>9. AskedFor(call'.kind, call'.param, call'.value, call'.size, call'.buf, call'.rq)
    BY <2>7, <2>8
  <2> QED
    BY <2>9 DEF Asked
<1>4. CASE GetParameter
  <2>1. PICK param \in Params :
          /\ GetCommand(param, "read") # "none"
          /\ Ask("get", param, <<>>,
                 [fn |-> GetCommand(param, "read"), addr |-> param.addr, size |-> param.size,
                  buf |-> Pairs(<<>>, param.size)])
    BY <1>4 DEF GetParameter
  <2> DEFINE fn == GetCommand(param, "read")
             c == [fn |-> fn, addr |-> param.addr, size |-> param.size, buf |-> Pairs(<<>>, param.size)]
  <2>2. fn \in {"ReadHolding", "ReadInput"} /\ MayAsk
    BY <1>4, <2>1, AskIs DEF GetParameter
  <2>3. Ask("get", param, <<>>, c)
    BY <2>1
  <2> HIDE DEF fn
  <2>4. Request(c) = Frame(fn, param.addr, param.size, 0, <<>>)
    BY <2>2 DEF Request, RqReadHolding, RqReadInput
  <2>5. c.addr = param.addr /\ c.size = param.size
    OBVIOUS
  <2> HIDE DEF c
  <2>6. /\ call'.kind = "get" /\ call'.param = param /\ call'.size = param.size /\ call'.rq = Request(c)
    BY <2>2, <2>3, <2>5, AskSets
  <2>7. \A value, buf : AskedFor("get", param, value, param.size, buf, Request(c))
    BY <2>2, <2>4 DEF AskedFor
  <2>8. AskedFor(call'.kind, call'.param, call'.value, call'.size, call'.buf, call'.rq)
    BY <2>6, <2>7
  <2> QED
    BY <2>8 DEF Asked
<1>5. ASSUME SameCall(call, call'), call.kind = "set" => call'.buf = call.buf
      PROVE  Asked'
  BY <1>5 DEF SameCall, Asked, AskedFor
<1>6. CASE Receive
  <2> DEFINE answer == wire["own"].answer
             took   == MasterHandler(call, call.rq, answer.frame)
  <2>1. \/ call' = call
        \/ SameCall(call, call') /\ (call'.buf = call.buf \/ call'.buf = took.buf)
    BY <1>6, ReceiveIs
  <2>2. call.kind = "set" => took.buf = call.buf
    BY TookWrite DEF Asked, AskedFor
  <2> HIDE DEF took
  <2> QED
    BY <1>1, <1>5, <2>1, <2>2
<1>7. CASE GiveUp
  BY <1>5, <1>7, GiveUpIs
<1>8. CASE Lose \/ ForeignAsk
  BY <1>1, <1>8 DEF Lose, ForeignAsk
<1>9. CASE Application
  BY <1>1, <1>9 DEF Application, DefineArea, AppWrite, CheckEvent, GetInfo, GetTimeout
<1>10. CASE Stack
  BY <1>1, <1>10 DEF Stack, Take, Execute, Transfer, Notify, Inform, Reply
<1>11. CASE UNCHANGED vars
  BY <1>1, <1>11 DEF vars
<1> QED
  BY <1>2, <1>3, <1>4, <1>6, <1>7, <1>8, <1>9, <1>10, <1>11 DEF Next, Master

-------------------------------------------------------------------------------
(* ... and what the registers held.                                        *)

\* The protocol carries data of the memory h, which is as long as was asked for, but for a slave that
\* is asked for so many registers that it misreads their number.
Carried(size, h, data) ==
  \E n \in Nat \ {0} : h \in Registers(n) /\ data = Swapped(h) /\ (n = size \/ size >= ByteTop)

\* The memory h is what the call of this kind, size and buffer is about.
Right(kind, size, buf, h, data) ==
  /\ kind = "set" => h = buf
  /\ kind = "get" => Carried(size, h, data)

\* The bytes of an answer are counted in one byte.
Counted(kind, frame) == kind = "get" => frame.bytes \in Byte

\* The slave has done its part of a request.
Served(s) == s.phase \in {"notify", "info"} \/ (s.phase = "answer" /\ s.ex = "NONE")

HeldIs ==
  call.kind \in {"set", "get"} =>
    /\ (Awaited /\ Served(slave)) => Right(call.kind, call.size, call.buf, held, slave.data)
    /\ (call.state = "sent" /\ wire["own"].kind = "answer" /\ wire["own"].answer.ex = "NONE")
          => /\ Right(call.kind, call.size, call.buf, held, wire["own"].answer.frame.data)
             /\ Counted(call.kind, wire["own"].answer.frame)
    /\ (call.state = "done" /\ call.ex = "NONE") => held = call.buf /\ held \in Registers(call.size)

LEMMA OnWireIs ==
  ASSUME NEW n \in Nat, NEW h \in Registers(n)
  PROVE  /\ [m \in 1..n |-> OnWire("HOLDING", h[m])] = Swapped(h)
         /\ [m \in 1..n |-> OnWire("INPUT", h[m])] = Swapped(h)
         /\ DOMAIN h = 1..n
<1>1. DOMAIN h = 1..n
  BY DEF Registers
<1> QED
  BY <1>1 DEF OnWire, RegisterTypes, Swapped

LEMMA SwappedSame ==
  ASSUME NEW n \in Nat, NEW h \in Registers(n), NEW b \in Registers(n), Swapped(h) = Swapped(b)
  PROVE  h = b
<1>1. h \in [1..n -> Byte \X Byte] /\ b \in [1..n -> Byte \X Byte]
  BY DEF Registers
<1>2. Swapped(Swapped(h)) = h /\ Swapped(Swapped(b)) = b
  BY <1>1, SwappedIs
<1> QED
  BY <1>2

\* What is written of a value is in the buffer of its call.
LEMMA AskedSets ==
  ASSUME NEW param, NEW value, NEW size, NEW buf, NEW rq, AskedFor("set", param, value, size, buf, rq)
  PROVE  /\ param \in Params /\ size = param.size /\ size \in Nat \ {0} /\ buf \in Registers(size)
         /\ rq.fn = "WriteHoldings" /\ rq.wcnt = size /\ rq.data = Swapped(buf)
         /\ rq = Frame("WriteHoldings", param.addr, size, RegisterBytes(size), Swapped(buf))
<1>1. /\ param \in Params /\ size = param.size /\ value \in ParamValues[param.type]
      /\ buf = Pairs(Converted(param.type, param.bytes, value), param.size)
      /\ rq = Frame("WriteHoldings", param.addr, size, RegisterBytes(size), Swapped(buf))
  BY DEF AskedFor
<1>2. /\ param.size \in Nat \ {0} /\ param.type \in AllTypes /\ param.bytes \in Nat
      /\ value \in Seq(Byte) /\ param.bytes =< Len(value)
  BY <1>1, ParamIs
<1> DEFINE bytes == Converted(param.type, param.bytes, value)
           last  == Last(param.type, param.bytes)
<1>3. bytes \in Seq(Byte)
  <2>1. Len(value) \in Nat
    BY <1>2
  <2>2. last \in Nat /\ last =< param.bytes
    BY <1>2, ConvertedIs, ElemSizes, WholeFits DEF Last
  <2>3. last =< Len(value)
    BY <1>2, <2>1, <2>2
  <2>4. bytes \in [1..last -> Byte]
    BY <1>2, <2>3, ConvertedIs
  <2> QED
    BY <2>2, <2>4
<1>4. buf \in Registers(size)
  <2> HIDE DEF bytes
  <2> QED
    BY <1>1, <1>2, <1>3, PairsHold DEF Registers, bytes
<1>5. rq.fn = "WriteHoldings" /\ rq.wcnt = size /\ rq.data = Swapped(buf)
  BY <1>1 DEF Frame
<1> QED
  BY <1>1, <1>2, <1>4, <1>5

LEMMA AskedGets ==
  ASSUME NEW param, NEW value, NEW size, NEW buf, NEW rq, AskedFor("get", param, value, size, buf, rq)
  PROVE  /\ param \in Params /\ size = param.size /\ size \in Nat \ {0}
         /\ rq.fn \in {"ReadHolding", "ReadInput"} /\ rq.cnt = size
         /\ \E fn \in {"ReadHolding", "ReadInput"} : rq = Frame(fn, param.addr, size, 0, <<>>)
<1>1. /\ param \in Params /\ size = param.size
      /\ \E fn \in {"ReadHolding", "ReadInput"} : rq = Frame(fn, param.addr, size, 0, <<>>)
  BY DEF AskedFor
<1>2. param.size \in Nat \ {0}
  BY <1>1, ParamIs
<1>3. rq.fn \in {"ReadHolding", "ReadInput"} /\ rq.cnt = size
  BY <1>1 DEF Frame
<1> QED
  BY <1>1, <1>2, <1>3

LEMMA NumberedInit == Init => Numbered
BY IdleIs DEF Init, NoCall, Numbered, Awaited, Nothing, Masters

LEMMA AskedInit == Init => Asked
BY DEF Init, NoCall, Asked, AskedFor

LEMMA HeldInit == Init => HeldIs
BY DEF Init, NoCall, HeldIs

\* The transfer of an awaited request leaves the memory that the request is about.
LEMMA TransferHolds ==
  ASSUME WellLaid, Laid, Control, Numbered, Asked, Transfer,
         Awaited, Served(slave'), call.kind \in {"set", "get"}
  PROVE  Right(call.kind, call.size, call.buf, held', slave'.data)
<1> DEFINE rq == slave.rq
           cb == slave.calls[1]
           h  == held'
<1>1. rq = call.rq /\ Stage(slave)
  BY DEF Numbered, Control
<1>2. AskedFor(call.kind, call.param, call.value, call.size, call.buf, rq)
  BY <1>1 DEF Asked
<1>3. Run(cb).err = "ENOERR" /\ slave.phase = "call"
  BY <1>1, TransferDoes DEF Served
<1>4. h = Memory(areas', cb.type, cb.addr, cb.n)
  <2>1. cb = Head(slave.calls)
    BY <1>1, TransferDoes
  <2> QED
    BY <1>3, <2>1 DEF Transfer
<1>5. \/ Writing(slave.calls, rq) /\ Wrote(areas', rq)
      \/ areas' = areas /\ Reading(slave.calls, rq) /\ Saw(rq, cb.n, slave'.data)
  BY <1>1, <1>3, TransferDoes
<1>7. CASE call.kind = "set"
  <2> DEFINE size == call.size
             buf  == call.buf
  <2>1. /\ size \in Nat \ {0} /\ buf \in Registers(size)
        /\ rq.fn = "WriteHoldings" /\ rq.wcnt = size /\ rq.data = Swapped(buf)
    BY <1>2, <1>7, AskedSets
  <2>2. TypeOf(rq) = "HOLDING" /\ rq.fn \notin Readers
    BY <2>1 DEF TypeOf, Readers
  <2>3. Writing(slave.calls, rq) /\ Wrote(areas', rq)
    BY <1>5, <2>2 DEF Reading, ReadsFor
  <2>4. cb.type = "HOLDING" /\ cb.addr = rq.waddr /\ cb.n = rq.wcnt
    BY <2>2, <2>3 DEF Writing, WritesFor, Callback
  <2>5. h \in Registers(size) /\ \A m \in 1..size : OnWire("HOLDING", h[m]) = Swapped(buf)[m]
    BY <1>4, <2>1, <2>2, <2>3, <2>4 DEF Wrote, Registers, CellOf, RegisterTypes
  <2> HIDE DEF size, buf, h
  <2>6. \A m \in 1..size : Swapped(h)[m] = Swapped(buf)[m]
    <3>1. [m \in 1..size |-> OnWire("HOLDING", h[m])] = Swapped(h)
      BY <2>1, <2>5, OnWireIs
    <3> QED
      BY <2>5, <3>1
  <2>7. Swapped(h) \in [1..size -> Byte \X Byte] /\ Swapped(buf) \in [1..size -> Byte \X Byte]
    BY <2>1, <2>5, SwappedIs DEF Registers
  <2>8. Swapped(h) = Swapped(buf)
    <3> DEFINE f == Swapped(h)
               g == Swapped(buf)
               D == 1..size
    <3>1. f \in [D -> Byte \X Byte] /\ g \in [D -> Byte \X Byte] /\ \A m \in D : f[m] = g[m]
      BY <2>6, <2>7
    <3> HIDE DEF f, g, D
    <3>2. f = [m \in D |-> f[m]] /\ g = [m \in D |-> g[m]]
      BY <3>1
    <3>3. f = g
      BY <3>1, <3>2, Zenon
    <3> QED
      BY <3>3 DEF f, g
  <2>9. h = buf
    BY <2>1, <2>5, <2>8, SwappedSame
  <2> QED
    BY <1>7, <2>9 DEF Right, h, buf
<1>8. CASE call.kind = "get"
  <2> DEFINE size == call.size
  <2>1. size \in Nat \ {0} /\ rq.fn \in {"ReadHolding", "ReadInput"} /\ rq.cnt = size
    BY <1>2, <1>8, AskedGets
  <2>2. TypeOf(rq) \in {"HOLDING", "INPUT"} /\ rq.fn \notin Writers
    BY <2>1 DEF TypeOf, Writers
  <2>3. areas' = areas /\ Reading(slave.calls, rq) /\ Saw(rq, cb.n, slave'.data)
    BY <1>5, <2>2 DEF Writing, WritesFor
  <2> DEFINE n == cb.n
  <2>4. cb.type = TypeOf(rq) /\ cb.addr = rq.addr /\ n \in Nat \ {0} /\ (Regular(rq) => n = size)
    BY <2>1, <2>3 DEF Reading, ReadsFor, Callback
  <2>4a. n = size \/ size >= ByteTop
    BY <2>1, <2>4 DEF Regular, Complete, ByteTop
  <2>5. h \in Registers(n) /\ slave'.data = [m \in 1..n |-> OnWire(TypeOf(rq), h[m])]
    BY <1>4, <2>2, <2>3, <2>4 DEF Saw, Registers, CellOf, RegisterTypes
  <2> HIDE DEF size, h, n
  <2>6. slave'.data = Swapped(h)
    BY <2>2, <2>4, <2>5, OnWireIs
  <2> QED
    BY <1>8, <2>4, <2>4a, <2>5, <2>6 DEF Right, Carried, h, size
<1> QED
  BY <1>7, <1>8

\* The answer carries what the slave read.
LEMMA ReplyCarries ==
  ASSUME Control, Numbered, Asked, HeldIs, Reply, Awaited, slave.ex = "NONE",
         call.kind \in {"set", "get"}
  PROVE  /\ Right(call.kind, call.size, call.buf, held, Answer(slave.rq, slave.ex, slave.data).frame.data)
         /\ Counted(call.kind, Answer(slave.rq, slave.ex, slave.data).frame)
<1> DEFINE rq == slave.rq
           data == slave.data
           answer == Answer(rq, slave.ex, data)
<1>1. rq = call.rq /\ slave.phase = "answer"
  BY DEF Numbered, Reply
<1>2. AskedFor(call.kind, call.param, call.value, call.size, call.buf, rq)
  BY <1>1 DEF Asked
<1>3. Right(call.kind, call.size, call.buf, held, data)
  BY <1>1 DEF HeldIs, Served
<1>4. CASE call.kind = "set"
  BY <1>3, <1>4 DEF Right, Counted
<1>5. CASE call.kind = "get"
  <2>1. /\ call.size \in Nat \ {0}
        /\ \E fn \in {"ReadHolding", "ReadInput"} : rq = Frame(fn, call.param.addr, call.size, 0, <<>>)
    BY <1>2, <1>5, AskedGets
  <2>2. PICK n \in Nat \ {0} : held \in Registers(n) /\ data = Swapped(held)
    <3>1. Carried(call.size, held, data)
      BY <1>3, <1>5 DEF Right
    <3> QED
      BY <3>1 DEF Carried
  <2>3. data # <<>> /\ Len(data) = n
    <3>1. data \in [1..n -> Byte \X Byte]
      BY <2>2, SwappedIs DEF Registers
    <3> QED
      BY <3>1
  <2>3a. RegisterBytes(n) \in Byte
    BY DEF RegisterBytes, Byte, ByteTop
  <2> HIDE DEF rq, data
  <2>4. answer.frame.data = data /\ answer.frame.bytes = RegisterBytes(n)
    <3>1. PICK fn \in {"ReadHolding", "ReadInput"} : rq = Frame(fn, call.param.addr, call.size, 0, <<>>)
      BY <2>1
    <3>2. answer.frame = [rq EXCEPT !.data = data, !.bytes = RegisterBytes(n)]
      BY <2>3, <3>1 DEF Answer, Frame
    <3> DEFINE b == RegisterBytes(n)
               f == answer.frame
    <3>3. f = [rq EXCEPT !.data = data, !.bytes = b]
      BY <3>2
    <3> HIDE DEF b, f
    <3>4. f.data = data /\ f.bytes = b
      BY <3>1, <3>3 DEF Frame
    <3> QED
      BY <3>4 DEF b, f
  <2> QED
    BY <1>3, <2>3a, <2>4 DEF rq, data, Counted
<1> QED
  BY <1>4, <1>5

\* The buffer of a call that succeeded is what the registers held.
LEMMA ReceiveHolds ==
  ASSUME Control, Asked, HeldIs, Receive, call.state = "sent", call'.ex = "NONE",
         call.kind \in {"set", "get"}
  PROVE  held = call'.buf /\ held \in Registers(call.size)
<1> DEFINE answer == wire["own"].answer
           took   == MasterHandler(call, call.rq, answer.frame)
<1>1. /\ wire["own"].kind = "answer"
      /\ \/ answer.ex # "NONE" /\ call'.ex = answer.ex
         \/ answer.ex = "NONE" /\ call'.ex = took.ex /\ call'.buf = took.buf
  BY ReceiveIs DEF Control
<1>2. answer.ex = "NONE" /\ took.ex = "NONE" /\ call'.buf = took.buf
  BY <1>1
<1>3. /\ Right(call.kind, call.size, call.buf, held, answer.frame.data)
      /\ Counted(call.kind, answer.frame)
  BY <1>1, <1>2 DEF HeldIs
<1>4. AskedFor(call.kind, call.param, call.value, call.size, call.buf, call.rq)
  BY DEF Asked
<1>5. CASE call.kind = "set"
  <2>1. /\ call.size \in Nat \ {0} /\ call.buf \in Registers(call.size)
        /\ call.rq = Frame("WriteHoldings", call.param.addr, call.size, RegisterBytes(call.size),
                           Swapped(call.buf))
    BY <1>4, <1>5, AskedSets
  <2>2. took.buf = call.buf
    BY <2>1, TookWrite
  <2> QED
    BY <1>2, <1>3, <1>5, <2>1, <2>2 DEF Right
<1>6. CASE call.kind = "get"
  <2>1. /\ call.size \in Nat \ {0}
        /\ \E fn \in {"ReadHolding", "ReadInput"} :
              call.rq = Frame(fn, call.param.addr, call.size, 0, <<>>)
    BY <1>4, <1>6, AskedGets
  <2>2. PICK n \in Nat \ {0} : /\ held \in Registers(n) /\ answer.frame.data = Swapped(held)
                               /\ (n = call.size \/ call.size >= ByteTop)
    <3>1. Carried(call.size, held, answer.frame.data)
      BY <1>3, <1>6 DEF Right
    <3> QED
      BY <3>1 DEF Carried
  <2>3. took.buf = Swapped(answer.frame.data) /\ ~(call.size >= ByteTop)
    <3>1. PICK fn \in {"ReadHolding", "ReadInput"} :
             call.rq = Frame(fn, call.param.addr, call.size, 0, <<>>)
      BY <2>1
    <3>2. MasterHandler(call, Frame(fn, call.param.addr, call.size, 0, <<>>), answer.frame).ex = "NONE"
      BY <1>2, <3>1
    <3>4. answer.frame.bytes = 2 * call.size
      BY <3>2, TookRead
    <3>5. answer.frame.bytes \in Byte
      BY <1>3, <1>6 DEF Counted
    <3>6. ~(call.size >= ByteTop)
      <4> DEFINE b == answer.frame.bytes
                 k == call.size
      <4>1. b = 2 * k /\ b \in Byte /\ k \in Nat
        BY <2>1, <3>4, <3>5
      <4> HIDE DEF b, k
      <4>2. ~(k >= ByteTop)
        BY <4>1 DEF Byte, ByteTop
      <4> QED
        BY <4>2 DEF k
    <3>3. MasterHandler(call, Frame(fn, call.param.addr, call.size, 0, <<>>), answer.frame).buf
             = Swapped(answer.frame.data)
      BY <3>2, TookRead
    <3> QED
      BY <3>1, <3>3, <3>6
  <2>4. Swapped(Swapped(held)) = held /\ held \in Registers(call.size)
    <3>1. held \in [1..n -> Byte \X Byte] /\ n = call.size
      BY <2>2, <2>3 DEF Registers
    <3> QED
      BY <2>2, <2>3, <3>1, SwappedIs
  <2> QED
    BY <1>2, <2>2, <2>3, <2>4
<1> QED
  BY <1>5, <1>6

LEMMA HeldStep ==
  ASSUME WellLaid, Laid, Control, Numbered, Asked, HeldIs, [Next]_vars
  PROVE  HeldIs'
<1>1. /\ DOMAIN wire = Masters /\ Stage(slave) /\ Calling(call) /\ asks \in Nat
      /\ call.no \in Nat /\ slave.no \in Nat
  BY DEF Control, Calling, Stage
<1>2. /\ call.no =< asks /\ slave.no =< asks
      /\ Awaited => wire["own"] = Nothing
  BY DEF Numbered
<1>3. ASSUME UNCHANGED <<call, held, wire>>, ~(Awaited' /\ Served(slave')) PROVE HeldIs'
  BY <1>3 DEF HeldIs
<1>4. CASE UNCHANGED <<call, held, wire, slave>>
  BY <1>4 DEF HeldIs, Awaited
<1>5. ASSUME UNCHANGED <<call, held>>, slave' = slave, wire'["own"] = wire["own"] \/ wire'["own"] = Nothing
      PROVE  HeldIs'
  BY <1>5 DEF HeldIs, Awaited, Nothing
<1>6. ASSUME MayAsk, NEW kind, NEW param, NEW value, NEW c, Ask(kind, param, value, c), slave' = slave
      PROVE  HeldIs'
  <2>1. /\ call'.no = asks + 1
        /\ \/ call'.state = "done" /\ call'.ex = "EINVAL" /\ wire'["own"] = Nothing
           \/ /\ call'.state = "sent"
              /\ wire'["own"] = [kind |-> "request", frame |-> call'.rq, no |-> asks + 1]
    BY <1>6, AskSets
  <2>2. ~Awaited'
    BY <1>1, <1>2, <1>6, <2>1 DEF Awaited
  <2>3. wire'["own"].kind # "answer"
    BY <2>1 DEF Nothing
  <2>4. ~(call'.state = "done" /\ call'.ex = "NONE")
    BY <2>1
  <2> QED
    BY <2>2, <2>3, <2>4 DEF HeldIs
<1>7. CASE AskRaw \/ SetParameter \/ GetParameter
  BY <1>6, <1>7 DEF AskRaw, SetParameter, GetParameter
<1>8. CASE Receive
  <2>1. /\ wire'["own"] = Nothing
        /\ \/ call.state # "sent" /\ call' = call
           \/ call.state = "sent" /\ call'.state = "done" /\ SameCall(call, call')
    BY <1>8, ReceiveIs
  <2>2. held' = held /\ slave' = slave
    BY <1>8 DEF Receive
  <2>3. CASE call.state # "sent" /\ call' = call
    BY <1>5, <2>1, <2>2, <2>3
  <2>4. CASE call.state = "sent" /\ call'.state = "done" /\ SameCall(call, call')
    <3>1. call'.ex = "NONE" /\ call.kind \in {"set", "get"} =>
             held = call'.buf /\ held \in Registers(call.size)
      BY <1>8, <2>4, ReceiveHolds
    <3>2. call'.kind = call.kind /\ call'.size = call.size
      BY <2>4 DEF SameCall
    <3> QED
      BY <2>2, <2>4, <3>1, <3>2 DEF HeldIs, Awaited
  <2> QED
    BY <2>1, <2>3, <2>4
<1>9. CASE GiveUp
  <2>1. call'.state = "done" /\ call'.ex = "ETIMEDOUT"
    BY <1>9, GiveUpIs
  <2> QED
    BY <2>1 DEF HeldIs, Awaited
<1>10. CASE Lose
  <2>1. wire'["own"] = Nothing /\ UNCHANGED <<call, held, slave>>
    BY <1>1, <1>10 DEF Lose, Masters
  <2> QED
    BY <1>5, <2>1
<1>11. CASE ForeignAsk
  <2>1. PICK rq : wire' = [wire EXCEPT !["foreign"] = [kind |-> "request", frame |-> rq, no |-> 0]]
    BY <1>11 DEF ForeignAsk
  <2>2. wire'["own"] = wire["own"] /\ UNCHANGED <<call, held, slave>>
    BY <1>1, <1>11, <2>1 DEF ForeignAsk, Masters
  <2> QED
    BY <1>5, <2>2
<1>12. CASE Take
  <2>1. PICK m \in Masters : wire' = [wire EXCEPT ![m] = Nothing] /\ slave'.phase = "execute"
    BY <1>12, TakeIs
  <2>2. /\ UNCHANGED <<call, held>> /\ ~Served(slave')
        /\ wire'["own"] = wire["own"] \/ wire'["own"] = Nothing
    BY <1>1, <1>12, <2>1 DEF Take, Masters, Served
  <2> QED
    BY <2>2 DEF HeldIs, Nothing
<1>13. CASE Execute
  <2>1. UNCHANGED <<call, held, wire>> /\ slave'.rq = slave.rq /\ slave'.no = slave.no
    BY <1>1, <1>13, ExecuteIs DEF Execute
  <2>2. CASE Awaited /\ call.kind \in {"set", "get"}
    <3>1. Complete(slave.rq)
      <4>1. AskedFor(call.kind, call.param, call.value, call.size, call.buf, slave.rq)
        BY <2>2 DEF Asked, Numbered
      <4>2. slave.rq.fn # "RwHoldings"
        BY <2>2, <4>1, AskedSets, AskedGets
      <4> QED
        BY <4>2 DEF Complete
    <3>2. ~Served(slave')
      BY <1>1, <1>13, <3>1, ExecuteIs DEF Served
    <3> QED
      BY <1>3, <2>1, <3>2
  <2>3. CASE ~(Awaited /\ call.kind \in {"set", "get"})
    BY <2>1, <2>3 DEF HeldIs, Awaited
  <2> QED
    BY <2>2, <2>3
<1>14. CASE Transfer
  <2>1. UNCHANGED <<call, wire>> /\ slave'.no = slave.no
    BY <1>1, <1>14, TransferIs DEF Transfer
  <2>2. Awaited' = Awaited
    BY <2>1 DEF Awaited
  <2>3. CASE Awaited /\ Served(slave')
    <3>1. call.kind \in {"set", "get"} => Right(call.kind, call.size, call.buf, held', slave'.data)
      BY <1>14, <2>3, TransferHolds
    <3>2. wire'["own"] = Nothing /\ call'.state = "sent"
      BY <1>2, <2>1, <2>3 DEF Awaited
    <3> QED
      BY <2>1, <3>1, <3>2 DEF HeldIs, Nothing
  <2>4. CASE ~(Awaited /\ Served(slave'))
    <3>1. held' = held
      <4>1. /\ Run(slave.calls[1]).err = "ENOERR" => Served(slave')
            /\ Head(slave.calls) = slave.calls[1]
        BY <1>1, <1>14, TransferIs DEF Served
      <4> QED
        BY <1>14, <2>4, <4>1 DEF Transfer
    <3> QED
      BY <1>3, <2>1, <2>2, <2>4, <3>1
  <2> QED
    BY <2>3, <2>4
<1>15. ASSUME UNCHANGED <<call, held, wire>>, slave'.no = slave.no, slave'.data = slave.data,
              Served(slave') => Served(slave)
       PROVE  HeldIs'
  BY <1>15 DEF HeldIs, Awaited
<1>16. CASE Notify
  <2>1. slave'.no = slave.no /\ slave'.data = slave.data /\ Served(slave)
    BY <1>1, <1>16, NotifyIs DEF Served
  <2> QED
    BY <1>15, <1>16, <2>1 DEF Notify
<1>17. CASE Inform
  <2>1. slave'.no = slave.no /\ slave'.data = slave.data /\ Served(slave)
    BY <1>1, <1>17, NextDone DEF Inform, Served
  <2> QED
    BY <1>15, <1>17, <2>1 DEF Inform
<1>18. CASE Reply
  <2>1. UNCHANGED <<call, held>> /\ ~Served(slave')
    BY <1>18, IdleIs DEF Reply, Served
  <2>2. CASE Awaited
    <3> DEFINE answer == Answer(slave.rq, slave.ex, slave.data)
    <3>1. wire'["own"] = [kind |-> "answer", answer |-> answer] /\ answer.ex = slave.ex
      BY <1>1, <1>18, <2>2 DEF Reply, Masters, Answer
    <3>2. slave.ex = "NONE" /\ call.kind \in {"set", "get"} =>
             /\ Right(call.kind, call.size, call.buf, held, answer.frame.data)
             /\ Counted(call.kind, answer.frame)
      BY <1>18, <2>2, ReplyCarries
    <3>3. call.state = "sent"
      BY <2>2 DEF Awaited
    <3> HIDE DEF answer
    <3> QED
      BY <2>1, <3>1, <3>2, <3>3 DEF HeldIs
  <2>3. CASE ~Awaited
    <3>1. wire' = wire
      BY <1>18, <2>3 DEF Reply
    <3> QED
      BY <1>3, <2>1, <3>1
  <2> QED
    BY <2>2, <2>3
<1>19. CASE Application
  BY <1>4, <1>19 DEF Application, DefineArea, AppWrite, CheckEvent, GetInfo, GetTimeout
<1>20. CASE UNCHANGED vars
  BY <1>4, <1>20 DEF vars
<1> QED
  BY <1>7, <1>8, <1>9, <1>10, <1>11, <1>12, <1>13, <1>14, <1>16, <1>17, <1>18, <1>19, <1>20
     DEF Next, Master, Stack

\* The bytes of registers are enough for the value of a parameter.
LEMMA BytesFit ==
  ASSUME NEW param \in Params, NEW h \in Registers(param.size)
  PROVE  /\ Bytes(h) \in Seq(Byte) /\ Len(h) = param.size
         /\ Last(param.type, param.bytes) \in Nat
         /\ Last(param.type, param.bytes) =< Len(Bytes(h))
         /\ Last(param.type, param.bytes) =< param.bytes
         /\ Last(param.type, param.bytes) =< 2 * param.size
         /\ SlaveView(param.type, param.bytes, Bytes(h)) = Converted(param.type, param.bytes, Bytes(h))
<1> DEFINE last == Last(param.type, param.bytes)
<1>1. /\ param.size \in Nat \ {0} /\ param.type \in AllTypes /\ param.bytes \in Nat
      /\ param.bytes =< 2 * param.size
  BY ParamIs
<1>2. Bytes(h) \in Seq(Byte) /\ Len(Bytes(h)) = 2 * param.size /\ Len(h) = param.size
  <2> DEFINE n == param.size
  <2>1. n \in Nat /\ h \in [1..n -> Byte \X Byte]
    BY <1>1 DEF Registers
  <2> HIDE DEF n
  <2>2. Bytes(h) \in Seq(Byte) /\ Len(Bytes(h)) = 2 * n
    BY <2>1, BytesAre
  <2>3. Len(h) = n
    BY <2>1
  <2> QED
    BY <2>2, <2>3 DEF n
<1>3. last \in Nat /\ last =< param.bytes
  BY <1>1, ElemSizes, WholeFits DEF Last
<1> HIDE DEF last
<1>4. last =< Len(Bytes(h)) /\ last =< 2 * param.size
  BY <1>1, <1>2, <1>3
<1>5. SlaveView(param.type, param.bytes, Bytes(h)) = Converted(param.type, param.bytes, Bytes(h))
  BY <1>1, <1>2, <1>4, ConvertedIs DEF last
<1> QED
  BY <1>2, <1>3, <1>4, <1>5 DEF last

LEMMA SetHolds == Asked /\ HeldIs => SetIsWhatSlaveGets
<1> SUFFICES ASSUME Asked, HeldIs, call.state = "done", call.kind = "set", call.ex = "NONE"
             PROVE  /\ Len(held) = call.param.size
                    /\ SlaveView(call.param.type, call.param.bytes, Bytes(held)) =
                          Converted(call.param.type, call.param.bytes,
                             Converted(call.param.type, call.param.bytes, call.value))
  BY DEF SetIsWhatSlaveGets
<1> DEFINE param == call.param
           size  == param.size
           first == Converted(param.type, param.bytes, call.value)
           last  == Last(param.type, param.bytes)
<1>1. held = call.buf /\ held \in Registers(call.size)
  BY DEF HeldIs
<1>2. /\ param \in Params /\ call.size = size /\ call.value \in ParamValues[param.type]
      /\ call.buf = Pairs(first, size)
  BY DEF Asked, AskedFor
<1>3. /\ size \in Nat \ {0} /\ param.type \in AllTypes /\ param.bytes \in Nat
      /\ call.value \in Seq(Byte) /\ param.bytes =< Len(call.value)
  BY <1>2, ParamIs
<1>4. /\ Bytes(held) \in Seq(Byte) /\ Len(held) = size
      /\ last \in Nat /\ last =< Len(Bytes(held)) /\ last =< param.bytes /\ last =< 2 * size
      /\ SlaveView(param.type, param.bytes, Bytes(held)) = Converted(param.type, param.bytes, Bytes(held))
  BY <1>1, <1>2, BytesFit
<1>5. first \in [1..last -> Byte]
  <2>1. last =< Len(call.value)
    <3>1. Len(call.value) \in Nat
      BY <1>3
    <3> HIDE DEF last
    <3> QED
      BY <1>3, <1>4, <3>1
  <2> QED
    BY <1>3, <2>1, ConvertedIs
<1> HIDE DEF param, size, first, last
<1>6. first \in Seq(Byte) /\ Len(first) = last /\ DOMAIN first = 1..last
  BY <1>4, <1>5
<1>7. \A k \in 1..last : Bytes(held)[k] = first[k]
  <2>1. held = Pairs(first, size)
    BY <1>1, <1>2
  <2>2. ASSUME NEW k \in 1..last PROVE k \in 1..2 * size /\ k \in DOMAIN first
    BY <1>3, <1>4, <1>6
  <2> QED
    BY <1>3, <1>6, <2>1, <2>2, PairsHold
<1>8. Converted(param.type, param.bytes, Bytes(held)) = Converted(param.type, param.bytes, first)
  <2> DEFINE type  == param.type
             bytes == param.bytes
             after == Bytes(held)
  <2>1. /\ type \in AllTypes /\ bytes \in Nat /\ after \in Seq(Byte) /\ first \in Seq(Byte)
        /\ last = Last(type, bytes) /\ last \in Nat /\ last =< Len(after) /\ Len(first) = last
        /\ \A k \in 1..last : after[k] = first[k]
    BY <1>3, <1>4, <1>6, <1>7 DEF last
  <2> HIDE DEF type, bytes, after
  <2>2. Last(type, bytes) =< Len(after) /\ Last(type, bytes) =< Len(first)
    BY <2>1
  <2>3. \A k \in 1..Last(type, bytes) : after[k] = first[k]
    BY <2>1
  <2>4. Converted(type, bytes, after) = Converted(type, bytes, first)
    BY <2>1, <2>2, <2>3, ConvertedSame
  <2> QED
    BY <2>4 DEF type, bytes, after
<1> QED
  BY <1>4, <1>8 DEF param, size, first

LEMMA GetHolds == Asked /\ HeldIs => GetIsWhatSlaveHad
<1> SUFFICES ASSUME Asked, HeldIs, call.state = "done", call.kind = "get", call.ex = "NONE"
             PROVE  /\ Len(held) = call.param.size
                    /\ Value(call) = SlaveView(call.param.type, call.param.bytes, Bytes(held))
  BY DEF GetIsWhatSlaveHad
<1>1. held = call.buf /\ held \in Registers(call.size)
  BY DEF HeldIs
<1>2. call.param \in Params /\ call.size = call.param.size
  BY DEF Asked, AskedFor
<1> QED
  BY <1>1, <1>2, BytesFit DEF Value

ValueInv == Control /\ Laid /\ Numbered /\ Asked /\ HeldIs

LEMMA ValueHolds == WellLaid => (Spec => []ValueInv)
<1> SUFFICES ASSUME WellLaid PROVE Spec => []ValueInv
  OBVIOUS
<1>1. Init => ValueInv
  BY ControlInit, LaidInit, NumberedInit, AskedInit, HeldInit DEF ValueInv
<1>2. ValueInv /\ [Next]_vars => ValueInv'
  BY ControlStep, LaidStep, NumberedStep, AskedStep, HeldStep DEF ValueInv
<1> QED
  BY <1>1, <1>2, PTL DEF Spec

\* When mbc_master_set_parameter returns ESP_OK, the getter of the parameter's type gives on the
\* slave's registers, as they were at the moment of the write, the value that was set, whatever other
\* masters and the slave's application did and however many requests were lost or given up.
THEOREM SetAlwaysGets == WellLaid => (Spec => []SetIsWhatSlaveGets)
<1>1. ValueInv => SetIsWhatSlaveGets
  BY SetHolds DEF ValueInv
<1> QED
  BY <1>1, ValueHolds, PTL

\* When mbc_master_get_parameter returns ESP_OK, its value is what the getter of the parameter's type
\* gives on the slave's registers as they were at the moment of the read.  (This holds for a parameter
\* of 256 registers or more too, which never succeeds: the bytes of the answer are counted in a byte.)
THEOREM GetAlwaysHad == WellLaid => (Spec => []GetIsWhatSlaveHad)
<1>1. ValueInv => GetIsWhatSlaveHad
  BY GetHolds DEF ValueInv
<1> QED
  BY <1>1, ValueHolds, PTL

===============================================================================
