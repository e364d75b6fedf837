------------------------------- MODULE MbFunctions -------------------------------
(***************************************************************************)
(* The functions of the Modbus protocol: for each one, the request a       *)
(* master builds (mbm_rq_...), what a slave does with it (mbs_fn_...) and  *)
(* what the master makes of the answer (mbm_fn_...).                       *)
(*                                                                         *)
(* A frame is its fields: fn, the addresses and counts, the byte count     *)
(* bytes, the data in wire order, and fits, which says that its length is  *)
(* one the handler takes.  Bits are not packed into bytes, so the padding  *)
(* of the last byte is left out; the byte count is not.                    *)
(***************************************************************************)
EXTENDS MbAreas

ByteTop == 256  \* 2^8

RdMax    == 125   \* MB_PDU_FUNC_READ_REGCNT_MAX
WrMax    == 120   \* MB_PDU_FUNC_WRITE_MUL_REGCNT_MAX
BitRdMax == 2000  \* MB_PDU_FUNC_READ_COILCNT_MAX, itself refused
BitWrMax == 1968  \* MB_PDU_FUNC_WRITE_MUL_COILCNT_MAX

\* The bytes n bits take, and n registers, as the byte of a frame that counts them
BitBytes(n) == ((n + 7) \div 8) % ByteTop
RegisterBytes(n) == (2 * n) % ByteTop

Frame(fn, addr, cnt, bytes, data) ==
    [fn |-> fn, addr |-> addr, cnt |-> cnt, waddr |-> addr, wcnt |-> cnt,
     bytes |-> bytes, data |-> data, fits |-> TRUE]

--------------------------------------------------------------------------------
(* The slave: a handler refuses the request with an exception, or makes    *)
(* these callbacks one after the other                                     *)

Callback(type, mode, addr, n, data) ==
    [type |-> type, mode |-> mode, addr |-> addr, n |-> n, data |-> data]

Refuse(ex) == [ex |-> ex, calls |-> <<>>]
Perform(calls) == [ex |-> "NONE", calls |-> calls]

\* mbs_fn_read_coils
SlaveReadCoils(rq) ==
    IF rq.fits /\ rq.cnt \in 1..BitRdMax - 1
    THEN Perform(<<Callback("COIL", "READ", rq.addr, rq.cnt, <<>>)>>)
    ELSE Refuse("ILLEGAL_DATA_VALUE")

\* mbs_fn_write_coil: the value is on (1), off (0) or none of them
SlaveWriteCoil(rq) ==
    IF rq.fits /\ rq.data[1] \in Bits
    THEN Perform(<<Callback("COIL", "WRITE", rq.addr, 1, rq.data)>>)
    ELSE Refuse("ILLEGAL_DATA_VALUE")

\* mbs_fn_write_multi_coils
SlaveWriteCoils(rq) ==
    IF rq.fits /\ rq.cnt \in 1..BitWrMax /\ rq.bytes = BitBytes(rq.cnt)
    THEN Perform(<<Callback("COIL", "WRITE", rq.addr, rq.cnt, rq.data)>>)
    ELSE Refuse("ILLEGAL_DATA_VALUE")

\* mbs_fn_read_discrete_inp
SlaveReadDiscrete(rq) ==
    IF rq.fits /\ rq.cnt \in 1..BitRdMax - 1
    THEN Perform(<<Callback("DISCRETE", "READ", rq.addr, rq.cnt, <<>>)>>)
    ELSE Refuse("ILLEGAL_DATA_VALUE")

\* mbs_fn_read_input_reg
SlaveReadInput(rq) ==
    IF rq.fits /\ rq.cnt \in 1..RdMax
    THEN Perform(<<Callback("INPUT", "READ", rq.addr, rq.cnt, <<>>)>>)
    ELSE Refuse("ILLEGAL_DATA_VALUE")

\* mbs_fn_write_holding_reg
SlaveWriteHolding(rq) ==
    IF rq.fits THEN Perform(<<Callback("HOLDING", "WRITE", rq.addr, 1, rq.data)>>)
    ELSE Refuse("ILLEGAL_DATA_VALUE")

\* mbs_fn_write_multi_holding_reg
SlaveWriteHoldings(rq) ==
    IF rq.fits /\ rq.cnt \in 1..WrMax /\ rq.bytes = RegisterBytes(rq.cnt)
    THEN Perform(<<Callback("HOLDING", "WRITE", rq.addr, rq.cnt, rq.data)>>)
    ELSE Refuse("ILLEGAL_DATA_VALUE")

\* mbs_fn_read_holding_reg: the low byte of the count replaces the high one, where
\* the other functions add it.
SlaveReadHolding(rq) ==
    LET cnt == rq.cnt % ByteTop
    IN  IF rq.fits /\ cnt \in 1..RdMax
        THEN Perform(<<Callback("HOLDING", "READ", rq.addr, cnt, <<>>)>>)
        ELSE Refuse("ILLEGAL_DATA_VALUE")

\* A slip: the registers are read before they are written.
SlaveRwHoldingsReadFirst(rq) ==
    CASE ~rq.fits -> Perform(<<>>)
      [] rq.fits /\ rq.cnt \in 1..RdMax /\ rq.wcnt \in 1..WrMax /\ 2 * rq.wcnt = rq.bytes ->
            Perform(<<Callback("HOLDING", "READ", rq.addr, rq.cnt, <<>>),
                      Callback("HOLDING", "WRITE", rq.waddr, rq.wcnt, rq.data)>>)
      [] OTHER -> Refuse("ILLEGAL_DATA_VALUE")

\* mbs_fn_rw_multi_holding_reg.  A request that is too short is no error here: nothing
\* is done and the request itself is the answer.
SlaveRwHoldings(rq) ==
    CASE ~rq.fits -> Perform(<<>>)
      [] rq.fits /\ rq.cnt \in 1..RdMax /\ rq.wcnt \in 1..WrMax /\ 2 * rq.wcnt = rq.bytes ->
            Perform(<<Callback("HOLDING", "WRITE", rq.waddr, rq.wcnt, rq.data),
                      Callback("HOLDING", "READ", rq.addr, rq.cnt, <<>>)>>)
      [] OTHER -> Refuse("ILLEGAL_DATA_VALUE")

SlaveHandler(rq) ==
    CASE rq.fn = "ReadCoils"     -> SlaveReadCoils(rq)
      [] rq.fn = "WriteCoil"     -> SlaveWriteCoil(rq)
      [] rq.fn = "WriteCoils"    -> SlaveWriteCoils(rq)
      [] rq.fn = "ReadDiscrete"  -> SlaveReadDiscrete(rq)
      [] rq.fn = "ReadInput"     -> SlaveReadInput(rq)
      [] rq.fn = "WriteHolding"  -> SlaveWriteHolding(rq)
      [] rq.fn = "WriteHoldings" -> SlaveWriteHoldings(rq)
      [] rq.fn = "ReadHolding"   -> SlaveReadHolding(rq)
      [] rq.fn = "RwHoldings"    -> SlaveRwHoldings(rq)
      [] OTHER                   -> Refuse("ILLEGAL_FUNCTION")

\* mb_error_to_exception
ExceptionOf(err) ==
    CASE err = "ENOERR"    -> "NONE"
      [] err = "ENOREG"    -> "ILLEGAL_DATA_ADDRESS"
      [] err = "ETIMEDOUT" -> "SLAVE_BUSY"
      [] OTHER             -> "SLAVE_DEVICE_FAILURE"

\* The answer a handler leaves in the frame of its request: the data read, with their
\* bytes counted, or else the fields of the request that are still there.
Answer(rq, ex, data) ==
    [ex    |-> ex,
     frame |-> IF data = <<>> THEN rq
               ELSE [rq EXCEPT !.data = data,
                               !.bytes = IF rq.fn \in {"ReadCoils", "ReadDiscrete"}
                                         THEN BitBytes(Len(data)) ELSE RegisterBytes(Len(data))]]

--------------------------------------------------------------------------------
(* The master: the request of a call [fn, addr, size, buf], or none if its *)
(* arguments are refused.  buf is what the application gave, in the order  *)
(* of its memory: register pairs, or bits                                  *)

NoFrame == Frame("none", 0, 0, 0, <<>>)

\* mbm_rq_read_coils
RqReadCoils(call) == Frame("ReadCoils", call.addr, call.size, 0, <<>>)

\* mbm_rq_write_coil
RqWriteCoil(call) ==
    IF call.buf[1] \in Bits THEN Frame("WriteCoil", call.addr, 1, 0, <<call.buf[1]>>)
                              ELSE NoFrame

\* mbm_rq_write_multi_coils
RqWriteCoils(call) ==
    IF call.size > BitWrMax THEN NoFrame
    ELSE Frame("WriteCoils", call.addr, call.size, BitBytes(call.size), call.buf)

\* mbm_rq_read_discrete_inputs
RqReadDiscrete(call) == Frame("ReadDiscrete", call.addr, call.size, 0, <<>>)

\* mbm_rq_read_inp_reg
RqReadInput(call) == Frame("ReadInput", call.addr, call.size, 0, <<>>)

\* mbm_rq_write_holding_reg
RqWriteHolding(call) ==
    Frame("WriteHolding", call.addr, 1, 0, Swapped(<<call.buf[1]>>))

\* A slip: the registers are copied as they lie in the memory of the master.
RqWriteHoldingsUnswapped(call) ==
    Frame("WriteHoldings", call.addr, call.size, RegisterBytes(call.size), call.buf)

\* mbm_rq_write_multi_holding_reg: the number of registers has no upper bound
RqWriteHoldings(call) ==
    Frame("WriteHoldings", call.addr, call.size, RegisterBytes(call.size), Swapped(call.buf))

\* mbm_rq_read_holding_reg
RqReadHolding(call) == Frame("ReadHolding", call.addr, call.size, 0, <<>>)

\* mbm_rq_rw_multi_holding_reg, which the controllers give one range for both
RqRwHoldings(call) ==
    Frame("RwHoldings", call.addr, call.size, RegisterBytes(call.size), Swapped(call.buf))

Request(call) ==
    CASE call.fn = "ReadCoils"     -> RqReadCoils(call)
      [] call.fn = "WriteCoil"     -> RqWriteCoil(call)
      [] call.fn = "WriteCoils"    -> RqWriteCoils(call)
      [] call.fn = "ReadDiscrete"  -> RqReadDiscrete(call)
      [] call.fn = "ReadInput"     -> RqReadInput(call)
      [] call.fn = "WriteHolding"  -> RqWriteHolding(call)
      [] call.fn = "WriteHoldings" -> RqWriteHoldings(call)
      [] call.fn = "ReadHolding"   -> RqReadHolding(call)
      [] call.fn = "RwHoldings"    -> RqRwHoldings(call)

--------------------------------------------------------------------------------
(* The master: what it makes of an answer without exception.  rq is the    *)
(* request in the send buffer; the callbacks move the data to or from the  *)
(* buffer of the call, whose size must be the one the handler asks for     *)

Took(err, buf) == [ex |-> ExceptionOf(err), buf |-> buf]
Rejects(call) == [ex |-> "ILLEGAL_DATA_VALUE", buf |-> call.buf]

\* mbc_reg_input_master_cb
MasterInputCb(call, n, data) ==
    IF n >= 1 /\ n = call.size THEN Took("ENOERR", Swapped(data)) ELSE Took("ENOREG", call.buf)

\* mbc_reg_holding_master_cb.  To write is to put the buffer into the frame again.
MasterHoldingCb(call, n, mode, data) ==
    CASE ~(n >= 1 /\ n = call.size) -> Took("ENOREG", call.buf)
      [] n >= 1 /\ n = call.size /\ mode = "READ"  -> Took("ENOERR", Swapped(data))
      [] n >= 1 /\ n = call.size /\ mode = "WRITE" -> Took("ENOERR", call.buf)

\* mbc_reg_coils_master_cb
MasterCoilsCb(call, n, mode, data) ==
    CASE ~(call.size >= 1 /\ n = call.size) -> Took("ENOREG", call.buf)
      [] call.size >= 1 /\ n = call.size /\ mode = "READ"  -> Took("ENOERR", data)
      [] call.size >= 1 /\ n = call.size /\ mode = "WRITE" -> Took("ENOERR", call.buf)

\* mbc_reg_discrete_master_cb
MasterDiscreteCb(call, n, data) ==
    IF n >= 1 /\ n = call.size THEN Took("ENOERR", data) ELSE Took("ENOREG", call.buf)

\* mbm_fn_read_coils
MasterReadCoils(call, rq, answer) ==
    IF rq.cnt >= 1 /\ answer.bytes = BitBytes(rq.cnt)
    THEN MasterCoilsCb(call, rq.cnt, "READ", answer.data) ELSE Rejects(call)

\* mbm_fn_write_coil
MasterWriteCoil(call, answer) == IF answer.fits THEN Took("ENOERR", call.buf) ELSE Rejects(call)

\* mbm_fn_write_multi_coils, which checks the count of the answer
MasterWriteCoils(call, rq, answer) ==
    IF answer.fits /\ answer.cnt >= 1 /\ rq.bytes = BitBytes(answer.cnt)
    THEN MasterCoilsCb(call, answer.cnt, "WRITE", <<>>) ELSE Rejects(call)

\* mbm_fn_read_discrete_inputs
MasterReadDiscrete(call, rq, answer) ==
    IF rq.cnt >= 1 /\ answer.bytes = BitBytes(rq.cnt)
    THEN MasterDiscreteCb(call, rq.cnt, answer.data) ELSE Rejects(call)

\* mbm_fn_read_inp_reg
MasterReadInput(call, rq, answer) ==
    IF rq.cnt >= 1 /\ answer.bytes = 2 * rq.cnt
    THEN MasterInputCb(call, rq.cnt, answer.data) ELSE Rejects(call)

\* mbm_fn_write_holding_reg
MasterWriteHolding(call, answer) ==
    IF answer.fits THEN MasterHoldingCb(call, 1, "WRITE", <<>>) ELSE Rejects(call)

\* mbm_fn_write_multi_holding_reg
MasterWriteHoldings(call, rq, answer) ==
    IF answer.fits /\ rq.bytes = 2 * rq.cnt
    THEN MasterHoldingCb(call, rq.cnt, "WRITE", <<>>) ELSE Rejects(call)

\* mbm_fn_read_holding_reg
MasterReadHolding(call, rq, answer) ==
    IF rq.cnt >= 1 /\ answer.bytes = 2 * rq.cnt
    THEN MasterHoldingCb(call, rq.cnt, "READ", answer.data) ELSE Rejects(call)

\* mbm_fn_rw_multi_holding_regs: the write callback, and then the read callback
MasterRwHoldings(call, rq, answer) ==
    IF answer.bytes # 2 * rq.cnt THEN Rejects(call)
    ELSE IF MasterHoldingCb(call, rq.wcnt, "WRITE", <<>>).ex # "NONE"
         THEN MasterHoldingCb(call, rq.wcnt, "WRITE", <<>>)
         ELSE MasterHoldingCb(call, rq.cnt, "READ", answer.data)

MasterHandler(call, rq, answer) ==
    CASE rq.fn = "ReadCoils"     -> MasterReadCoils(call, rq, answer)
      [] rq.fn = "WriteCoil"     -> MasterWriteCoil(call, answer)
      [] rq.fn = "WriteCoils"    -> MasterWriteCoils(call, rq, answer)
      [] rq.fn = "ReadDiscrete"  -> MasterReadDiscrete(call, rq, answer)
      [] rq.fn = "ReadInput"     -> MasterReadInput(call, rq, answer)
      [] rq.fn = "WriteHolding"  -> MasterWriteHolding(call, answer)
      [] rq.fn = "WriteHoldings" -> MasterWriteHoldings(call, rq, answer)
      [] rq.fn = "ReadHolding"   -> MasterReadHolding(call, rq, answer)
      [] rq.fn = "RwHoldings"    -> MasterRwHoldings(call, rq, answer)
================================================================================
