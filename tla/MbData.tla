--------------------------------- MODULE MbData ---------------------------------
(***************************************************************************)
(* How a value of the master's application is laid out in registers: the   *)
(* byte orders of mb_endianness_utils.c and the conversion of a parameter  *)
(* by its type (mbc_master_set_param_data).  A value is the sequence of    *)
(* its bytes in the memory of the host, which is little-endian as every    *)
(* target of this library is.                                              *)
(*                                                                         *)
(* An order is the sequence of its byte numbers, as the code gives them.   *)
(* Setting a value stores its byte order[i] at place i; getting one reads  *)
(* byte i into place order[i].  The master uses the setters both to write  *)
(* a parameter and to read one, and a slave application is meant to use    *)
(* the getters, so all this agrees only because every order is its own     *)
(* inverse.                                                                *)
(***************************************************************************)
EXTENDS Integers, Sequences

\* mb_set_xxx_generic
SetGeneric(order, value) == [i \in DOMAIN order |-> value[order[i] + 1]]

\* mb_get_xxx_generic
GetGeneric(order, bytes) ==
    [j \in DOMAIN order |-> bytes[CHOOSE i \in DOMAIN order : order[i] + 1 = j]]

\* The orders, by the endings of the functions' names
Orders16 == [ab |-> <<0, 1>>, ba |-> <<1, 0>>]

Orders32 == [abcd |-> <<0, 1, 2, 3>>, badc |-> <<1, 0, 3, 2>>,
             cdab |-> <<2, 3, 0, 1>>, dcba |-> <<3, 2, 1, 0>>]

\* A slip: the bytes of each 16-bit word of ghefcdab are rotated by one word only.
Orders64Rotated ==
    [abcdefgh |-> <<0, 1, 2, 3, 4, 5, 6, 7>>, hgfedcba |-> <<7, 6, 5, 4, 3, 2, 1, 0>>,
     ghefcdab |-> <<2, 3, 4, 5, 6, 7, 0, 1>>, badcfehg |-> <<1, 0, 3, 2, 5, 4, 7, 6>>]

Orders64 ==
    [abcdefgh |-> <<0, 1, 2, 3, 4, 5, 6, 7>>, hgfedcba |-> <<7, 6, 5, 4, 3, 2, 1, 0>>,
     ghefcdab |-> <<6, 7, 4, 5, 2, 3, 0, 1>>, badcfehg |-> <<1, 0, 3, 2, 5, 4, 7, 6>>]

\* The 8-bit types take one byte of a register and clear the other.
SetByteA(value) == <<value[1], 0>>
SetByteB(value) == <<0, value[2]>>

--------------------------------------------------------------------------------
(* The parameter types, each with the bytes of one element and its order.  *)

PlainTypes == [U8 |-> 1, U16 |-> 2, U32 |-> 4, FLOAT |-> 4, ASCII |-> 1, BIN |-> 1]

ByteTypes == {"I8_A", "U8_A", "I8_B", "U8_B"}

Order16(type) ==
    CASE type \in {"I16_AB", "U16_AB"} -> Orders16.ab
      [] type \in {"I16_BA", "U16_BA"} -> Orders16.ba

Order32(type) ==
    CASE type \in {"I32_ABCD", "U32_ABCD", "FLOAT_ABCD"} -> Orders32.abcd
      [] type \in {"I32_CDAB", "U32_CDAB", "FLOAT_CDAB"} -> Orders32.cdab
      [] type \in {"I32_BADC", "U32_BADC", "FLOAT_BADC"} -> Orders32.badc
      [] type \in {"I32_DCBA", "U32_DCBA", "FLOAT_DCBA"} -> Orders32.dcba

Order64(type) ==
    CASE type \in {"I64_ABCDEFGH", "U64_ABCDEFGH", "DOUBLE_ABCDEFGH"} -> Orders64.abcdefgh
      [] type \in {"I64_HGFEDCBA", "U64_HGFEDCBA", "DOUBLE_HGFEDCBA"} -> Orders64.hgfedcba
      [] type \in {"I64_GHEFCDAB", "U64_GHEFCDAB", "DOUBLE_GHEFCDAB"} -> Orders64.ghefcdab
      [] type \in {"I64_BADCFEHG", "U64_BADCFEHG", "DOUBLE_BADCFEHG"} -> Orders64.badcfehg

Types16 == {"I16_AB", "U16_AB", "I16_BA", "U16_BA"}
Types32 == {"I32_ABCD", "U32_ABCD", "FLOAT_ABCD", "I32_CDAB", "U32_CDAB", "FLOAT_CDAB",
            "I32_BADC", "U32_BADC", "FLOAT_BADC", "I32_DCBA", "U32_DCBA", "FLOAT_DCBA"}
Types64 == {"I64_ABCDEFGH", "U64_ABCDEFGH", "DOUBLE_ABCDEFGH",
            "I64_HGFEDCBA", "U64_HGFEDCBA", "DOUBLE_HGFEDCBA",
            "I64_GHEFCDAB", "U64_GHEFCDAB", "DOUBLE_GHEFCDAB",
            "I64_BADCFEHG", "U64_BADCFEHG", "DOUBLE_BADCFEHG"}

OrderOf(type) == IF type \in Types16 THEN Order16(type)
                 ELSE IF type \in Types32 THEN Order32(type) ELSE Order64(type)

ElemSize(type) == IF type \in DOMAIN PlainTypes THEN PlainTypes[type]
                  ELSE IF type \in ByteTypes THEN 2 ELSE Len(OrderOf(type))

\* MB_EACH_ELEM goes through an array element by element: the bytes of the element that
\* byte k belongs to, and the place of k in it
Whole(size, elem) == 1..(size \div elem) * elem

Place(k, elem) == ((k - 1) % elem) + 1

Elem(k, elem, bytes) == SubSeq(bytes, k - Place(k, elem) + 1, k - Place(k, elem) + elem)

\* One element in the hands of the master (mbc_master_set_param_data)
SetElem(type, value) ==
    CASE type \in DOMAIN PlainTypes  -> value
      [] type \in {"I8_A", "U8_A"}   -> SetByteA(value)
      [] type \in {"I8_B", "U8_B"}   -> SetByteB(value)
      [] OTHER                       -> SetGeneric(OrderOf(type), value)

\* mbc_master_set_param_data: from the value to the buffer, or from the buffer to the value
Converted(type, size, bytes) ==
    LET elem == ElemSize(type)
    IN  [k \in Whole(size, elem) |-> SetElem(type, Elem(k, elem, bytes))[Place(k, elem)]]

\* One element as a slave application gets it from its registers.  An 8-bit value is
\* shown at the place it is taken from.
GetElem(type, bytes) ==
    CASE type \in DOMAIN PlainTypes  -> bytes
      [] type \in {"I8_A", "U8_A"}   -> <<bytes[1], 0>>
      [] type \in {"I8_B", "U8_B"}   -> <<0, bytes[2]>>
      [] OTHER                       -> GetGeneric(OrderOf(type), bytes)

SlaveView(type, size, bytes) ==
    LET elem == ElemSize(type)
    IN  [k \in Whole(size, elem) |-> GetElem(type, Elem(k, elem, bytes))[Place(k, elem)]]

\* mbc_master_get_command: the function a parameter is read or written with, or none
Allows(descr, mode) == mode \in descr.access

GetCommand(descr, mode) ==
    CASE ~Allows(descr, mode)                          -> "none"
      [] descr.area = "HOLDING"  /\ mode = "read"      -> "ReadHolding"
      [] descr.area = "HOLDING"  /\ mode = "write"     -> "WriteHoldings"
      [] descr.area = "INPUT"    /\ mode = "read"      -> "ReadInput"
      [] descr.area = "COIL"     /\ mode = "read"      -> "ReadCoils"
      [] descr.area = "COIL"     /\ mode = "write"     -> "WriteCoils"
      [] descr.area = "DISCRETE" /\ mode = "read"      -> "ReadDiscrete"
      [] OTHER                                         -> "none"
================================================================================
