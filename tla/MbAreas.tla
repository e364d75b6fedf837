-------------------------------- MODULE MbAreas --------------------------------
(***************************************************************************)
(* The register areas of a slave (esp_modbus_slave.c): their registration  *)
(* and the four callbacks through which a request reads and writes them.   *)
(*                                                                         *)
(* areas[type] is the list of the descriptors of one type, the one set     *)
(* last first.  The memory behind an area is data, cell by cell: a register *)
(* is the pair of its bytes, as they lie in memory, a coil or a discrete   *)
(* input the tuple of its bit.  On the wire a register has its bytes the   *)
(* other way round.                                                        *)
(*                                                                         *)
(* A callback gets the list, a register range and, to write, the wire      *)
(* data.  It returns the error, the areas after it, the wire data read,    *)
(* and the notification it then sends: the event bit and the parameter     *)
(* info.  The reserved address 0xFFFF + 1 = 0 of the handlers, which the   *)
(* callbacks take one off again, needs no mention.                         *)
(***************************************************************************)
EXTENDS Integers, Sequences

CONSTANT WordTop  \* 2^16, the width of the counters of registers

ASSUME WordTopAssumption == WordTop \in Nat \ {0}

AreaTypes     == {"INPUT", "HOLDING", "COIL", "DISCRETE"}
RegisterTypes == {"INPUT", "HOLDING"}
Bits == {<<0>>, <<1>>}

\* MB_INST_MAX_SIZE
AreaMax == 2 * (WordTop - 1)

\* REG_SIZE, put into 16 bits
RegSize(type, size) ==
    (IF type \in RegisterTypes THEN size \div 2 ELSE 8 * size) % WordTop

\* mbc_slave_find_reg_descriptor: the first area the whole range lies in
Holds(type, area, addr, regs) ==
    /\ regs >= 1
    /\ addr >= area.start
    /\ addr + regs =< area.start + RegSize(type, area.size)

Holding(areas, type, addr, regs) ==
    {i \in DOMAIN areas[type] : Holds(type, areas[type][i], addr, regs)}

Find(areas, type, addr, regs) ==
    LET found == Holding(areas, type, addr, regs)
    IN  CHOOSE i \in found : \A j \in found : i =< j

\* mbc_slave_set_descriptor.  Neither the whole range nor its first register may lie
\* in an area of the type: an area that ends in another one is taken.
MayDefine(areas, type, area) ==
    /\ area.size \in 1..AreaMax - 1
    /\ Holding(areas, type, area.start, RegSize(type, area.size)) = {}
    /\ Holding(areas, type, area.start, 1) = {}

SetDescriptor(areas, type, area) == [areas EXCEPT ![type] = <<area>> \o @]

--------------------------------------------------------------------------------
(* The callbacks                                                           *)

Info(event, addr, size) == [event |-> event, addr |-> addr, size |-> size]

Fails(err, areas) == [err |-> err, areas |-> areas, data |-> <<>>, info |-> Info("none", 0, 0)]

\* _XFER_2_RD and _XFER_2_WR
Swapped(regs) == [i \in DOMAIN regs |-> <<regs[i][2], regs[i][1]>>]

\* The place of a range in the memory of its area.  A register's is counted in bytes,
\* in 16 bits.
RegisterPlace(area, addr) == ((2 * (addr - area.start)) % WordTop) \div 2
BitPlace(area, addr) == addr - area.start

Taken(area, place, n) == [i \in 1..n |-> area.data[place + i - 1]]
Stored(area, place, cells) ==
    [area EXCEPT !.data = [k \in DOMAIN @ |-> IF k \in place..place + Len(cells) - 1
                                              THEN cells[k - place + 1] ELSE @[k]]]

\* mbc_reg_input_slave_cb
InputCb(areas, addr, n) ==
    IF Holding(areas, "INPUT", addr, n) = {} THEN Fails("ENOREG", areas)
    ELSE LET area == areas["INPUT"][Find(areas, "INPUT", addr, n)]
         IN  [err |-> "ENOERR", areas |-> areas,
              data |-> Swapped(Taken(area, RegisterPlace(area, addr), n)),
              info |-> Info("INPUT_RD", addr, n)]

\* mbc_reg_holding_slave_cb
HoldingRead(areas, addr, n) ==
    LET area == areas["HOLDING"][Find(areas, "HOLDING", addr, n)]
    IN  IF area.access = "WO" THEN Fails("EINVAL", areas)
        ELSE [err |-> "ENOERR", areas |-> areas,
              data |-> Swapped(Taken(area, RegisterPlace(area, addr), n)),
              info |-> Info("HOLDING_RD", addr, n)]

\* A slip: the application is told where the memory of the area starts.
HoldingWriteMisplaced(areas, addr, n, data) ==
    LET i    == Find(areas, "HOLDING", addr, n)
        area == areas["HOLDING"][i]
    IN  IF area.access = "RO" THEN Fails("EINVAL", areas)
        ELSE [err |-> "ENOERR", data |-> <<>>,
              areas |-> [areas EXCEPT !["HOLDING"][i] =
                            Stored(area, RegisterPlace(area, addr), Swapped(data))],
              info |-> Info("HOLDING_WR", area.start, n)]

HoldingWrite(areas, addr, n, data) ==
    LET i    == Find(areas, "HOLDING", addr, n)
        area == areas["HOLDING"][i]
    IN  IF area.access = "RO" THEN Fails("EINVAL", areas)
        ELSE [err |-> "ENOERR", data |-> <<>>,
              areas |-> [areas EXCEPT !["HOLDING"][i] =
                            Stored(area, RegisterPlace(area, addr), Swapped(data))],
              info |-> Info("HOLDING_WR", addr, n)]

HoldingCb(areas, addr, n, mode, data) ==
    IF Holding(areas, "HOLDING", addr, n) = {} THEN Fails("ENOREG", areas)
    ELSE IF mode = "READ" THEN HoldingRead(areas, addr, n)
                          ELSE HoldingWrite(areas, addr, n, data)

\* mbc_reg_coils_slave_cb
CoilsRead(areas, addr, n) ==
    LET area == areas["COIL"][Find(areas, "COIL", addr, n)]
    IN  IF area.access = "WO" THEN Fails("EINVAL", areas)
        ELSE [err |-> "ENOERR", areas |-> areas,
              data |-> Taken(area, BitPlace(area, addr), n),
              info |-> Info("COILS_RD", addr, n)]

CoilsWrite(areas, addr, n, data) ==
    LET i    == Find(areas, "COIL", addr, n)
        area == areas["COIL"][i]
    IN  IF area.access = "RO" THEN Fails("EINVAL", areas)
        ELSE [err |-> "ENOERR", data |-> <<>>,
              areas |-> [areas EXCEPT !["COIL"][i] = Stored(area, BitPlace(area, addr), data)],
              info |-> Info("COILS_WR", addr, n)]

CoilsCb(areas, addr, n, mode, data) ==
    IF Holding(areas, "COIL", addr, n) = {} THEN Fails("ENOREG", areas)
    ELSE IF mode = "READ" THEN CoilsRead(areas, addr, n) ELSE CoilsWrite(areas, addr, n, data)

\* mbc_reg_discrete_slave_cb.  The info counts the inputs of the last byte only.
DiscreteCb(areas, addr, n) ==
    IF Holding(areas, "DISCRETE", addr, n) = {} THEN Fails("ENOREG", areas)
    ELSE LET area == areas["DISCRETE"][Find(areas, "DISCRETE", addr, n)]
         IN  [err |-> "ENOERR", areas |-> areas,
              data |-> Taken(area, BitPlace(area, addr), n),
              info |-> Info("DISCRETE_RD", addr, n % 8)]
================================================================================
