------------------------------ MODULE MCExchange ------------------------------
EXTENDS MbExchange

Zeros(n) == [k \in 0..n - 1 |-> <<0, 0>>]
Off(n)   == [k \in 0..n - 1 |-> <<0>>]
Area(type, start, size, access, data) ==
    [type |-> type,
     area |-> [start |-> start, size |-> size, access |-> access, data |-> data]]

\* Two adjacent areas of holding registers, one that starts inside of the second and is
\* refused, and one area of each other type
MCAreas == << Area("HOLDING", 1, 8, "RW", Zeros(4)),
              Area("HOLDING", 5, 2, "RO", Zeros(1)),
              Area("HOLDING", 2, 4, "RW", Zeros(2)),
              Area("COIL", 0, 1, "RW", Off(8)),
              Area("INPUT", 0, 5, "RO", [k \in 0..1 |-> <<k + 1, k + 3>>]),
              Area("DISCRETE", 3, 1, "RO", Off(8)) >>

Param(area, addr, size, type, bytes, access) ==
    [area |-> area, addr |-> addr, size |-> size, type |-> type, bytes |-> bytes,
     access |-> access]

MCParams == { Param("HOLDING", 1, 4, "DOUBLE_GHEFCDAB", 8, {"read", "write"}),
              Param("HOLDING", 2, 2, "FLOAT_CDAB", 4, {"write"}),
              Param("HOLDING", 1, 1, "U8_B", 2, {"read", "write"}),
              Param("HOLDING", 3, 2, "I16_BA", 4, {"read"}),
              Param("HOLDING", 1, 2, "U32", 4, {"write"}),
              Param("INPUT", 0, 2, "I32_BADC", 4, {"read"}) }

MCParamValues ==
    [type \in {p.type : p \in MCParams} |->
        IF type = "DOUBLE_GHEFCDAB" THEN {<<1, 2, 3, 4, 5, 6, 7, 8>>}
        ELSE IF type = "U8_B" THEN {<<1, 2>>} ELSE {<<1, 2, 3, 4>>}]

Raw(fn, addr, size, buf) == [fn |-> fn, addr |-> addr, size |-> size, buf |-> buf]

MCRawCalls == { Raw("ReadCoils", 2, 3, << <<0>>, <<0>>, <<0>> >>),
                Raw("WriteCoil", 1, 1, << <<1>> >>),
                Raw("WriteCoil", 1, 1, << <<2>> >>),
                Raw("WriteCoils", 2, 3, << <<1>>, <<0>>, <<1>> >>),
                Raw("ReadDiscrete", 4, 2, << <<0>>, <<0>> >>),
                Raw("WriteHolding", 4, 1, << <<5, 6>> >>),
                Raw("WriteHolding", 4, 2, << <<5, 6>>, <<0, 0>> >>),
                Raw("RwHoldings", 1, 2, << <<5, 6>>, <<7, 8>> >>) }

Rw(addr, cnt, waddr, wcnt, data) ==
    [fn |-> "RwHoldings", addr |-> addr, cnt |-> cnt, waddr |-> waddr, wcnt |-> wcnt,
     bytes |-> 2 * wcnt, data |-> data, fits |-> TRUE]

\* A range over both areas, a write to the read-only one, a read-and-write of different
\* ranges, one whose read is refused, illegal counts, a wrong byte count, a bad length
\* and an unknown function
MCForeignFrames == { Frame("ReadHolding", 4, 2, 0, <<>>),
                     Frame("WriteHolding", 5, 1, 0, << <<9, 9>> >>),
                     Rw(2, 3, 1, 2, << <<7, 7>>, <<8, 8>> >>),
                     Rw(4, 2, 1, 1, << <<7, 7>> >>),
                     Frame("WriteHoldings", 1, 0, 0, <<>>),
                     Frame("WriteCoils", 0, 2, 2, << <<1>>, <<1>> >>),
                     [Frame("ReadInput", 0, 1, 0, <<>>) EXCEPT !.fits = FALSE],
                     Frame("Unknown", 0, 0, 0, <<>>) }

MCAppWrites == { [type |-> "HOLDING", addr |-> 2, value |-> <<3, 9>>] }

--------------------------------------------------------------------------------
\* For the run that asks for more registers than the protocol knows
MCLongRead == {Frame("ReadHolding", 1, 257, 0, <<>>), Frame("ReadHolding", 1, 126, 0, <<>>)}
MCNone == {}
================================================================================
