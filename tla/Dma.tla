-------------------------------- MODULE Dma --------------------------------
(***************************************************************************)
(* The direct memory access controller, rtl/core/neorv32_dma.vhd.  One     *)
(* step is one rising clock edge: the register interface, the descriptor   *)
(* FIFO (an instance of PrimFifo) and the bus access engine all move.      *)
(*                                                                         *)
(* Data abstraction: a descriptor word is a small integer.  Read as an     *)
(* address it is reduced to AddrSpace addresses; read as a configuration   *)
(* word its low digits are the number of elements (NumSpace stands for     *)
(* 2**24), then come the source and the destination increment bit.  One    *)
(* address holds one element; byte lanes are the subject of DmaLanes.      *)
(***************************************************************************)
EXTENDS Integers, Sequences

CONSTANTS
  DSC_FIFO,   \* descriptor FIFO entries
  AddrSpace,  \* number of addresses (2**32)
  NumSpace,   \* values of the element counter (2**24)
  Value       \* what a memory cell can hold

ASSUME DmaAssumption ==
  /\ DSC_FIFO \in Nat \ {0}
  /\ AddrSpace \in Nat \ {0}
  /\ NumSpace \in Nat \ {0}
  /\ 0 \in Value

VARIABLES
  fifo, w_pnt, r_pnt, avail, rdata,  \* the descriptor FIFO
  ctrl,      \* control and status register
  engine,    \* bus access engine
  data_buf,  \* element read from the source
  mem        \* the memory behind the bus

dmaVars == <<fifo, w_pnt, r_pnt, avail, rdata, ctrl, engine, data_buf, mem>>

Addr == 0 .. AddrSpace - 1
Num == 0 .. NumSpace - 1
Word == 0 .. 4 * NumSpace - 1
NoWord == -1                     \* an entry that was never written
NoData == 0                      \* data lines of an idle bus

F == INSTANCE PrimFifo WITH Depth <- DSC_FIFO, Data <- Word, Init0 <- NoWord

-----------------------------------------------------------------------------
(* Fields of a descriptor word. *)
addr(w) == w % AddrSpace
num(w) == w % NumSpace
src_inc(w) == (w \div NumSpace) % 2
dst_inc(w) == (w \div (2 * NumSpace)) % 2
conf(n, s, d) == n + NumSpace * s + 2 * NumSpace * d

(* Accesses to the two registers. *)
None == [op |-> "none"]
ReadCtrl == [op |-> "read"]
WriteCtrl(en, start, ack) == [op |-> "ctrl", en |-> en, start |-> start, ack |-> ack]
WriteDesc(w) == [op |-> "desc", data |-> w]

(* What a read of CTRL returns. *)
CtrlValue ==
  [en |-> ctrl.enable, dempty |-> ~avail, dfull |-> F!full,
   error |-> ctrl.err, done |-> ctrl.done, busy |-> engine.run]

-----------------------------------------------------------------------------
States == {"S_CHECK", "S_GET_0", "S_GET_1", "S_GET_2", "S_GET_3",
           "S_READ_REQ", "S_READ_RSP", "S_WRITE_REQ", "S_WRITE_RSP"}

DmaInit ==
  /\ F!FifoInit
  /\ ctrl = [enable |-> FALSE, start |-> FALSE, err |-> FALSE, done |-> FALSE]
  /\ engine = [state |-> "S_CHECK", run |-> FALSE, done |-> FALSE, err |-> FALSE,
               src_addr |-> 0, dst_addr |-> 0, num |-> 0, num_or |-> FALSE,
               src_inc |-> 0, dst_inc |-> 0]
  /\ data_buf = NoData

(* Writing START or ACK clears the flags, and wins over an engine that     *)
(* reports its end in the same cycle.                                      *)
ctrl_access(req) ==
  LET write == req.op = "ctrl"
      clear == write /\ (req.start \/ req.ack)
  IN  ctrl' = [enable |-> IF write THEN req.en ELSE ctrl.enable,
               start  |-> write /\ req.start,
               err    |-> ctrl.enable /\ (ctrl.err \/ engine.err) /\ ~clear,
               done   |-> ctrl.enable /\ (ctrl.done \/ engine.done) /\ ~clear]

descriptor_buffer(req) ==
  LET we == req.op = "desc"
  IN  F!Clock(~ctrl.enable, we, IF we THEN req.data ELSE NoWord,
              engine.state \in {"S_GET_0", "S_GET_1", "S_GET_2"})

-----------------------------------------------------------------------------
(* The engine, one action per state.  "ans" is what the bus does in this   *)
(* cycle: nothing, acknowledge, or acknowledge with an error.              *)
Go(s) == engine.state = s

S_CHECK_DoneLost ==  \* mutant: the end of the last transfer is not reported
  /\ Go("S_CHECK")
  /\ LET next == /\ avail /\ ~ctrl.err
                 /\ IF engine.run THEN ~engine.err ELSE ctrl.start
     IN  engine' = [engine EXCEPT !.state = IF next THEN "S_GET_0" ELSE @,
                                  !.run = next, !.done = FALSE,
                                  !.err = FALSE, !.num_or = FALSE]

S_CHECK ==
  /\ Go("S_CHECK")
  /\ LET next == /\ avail /\ ~ctrl.err
                 /\ IF engine.run THEN ~engine.err ELSE ctrl.start
     IN  engine' = [engine EXCEPT !.state = IF next THEN "S_GET_0" ELSE @,
                                  !.run = next,
                                  !.done = engine.run /\ ~next,
                                  !.err = FALSE, !.num_or = FALSE]

S_GET_0 ==
  /\ Go("S_GET_0")
  /\ engine' = [engine EXCEPT !.state = "S_GET_1"]

S_GET_1 ==
  /\ Go("S_GET_1")
  /\ engine' = [engine EXCEPT !.src_addr = addr(rdata),
                              !.state = IF avail THEN "S_GET_2" ELSE @]

S_GET_2 ==
  /\ Go("S_GET_2")
  /\ engine' = [engine EXCEPT !.dst_addr = addr(rdata),
                              !.state = IF avail THEN "S_GET_3" ELSE @]

S_GET_3 ==
  /\ Go("S_GET_3")
  /\ engine' = [engine EXCEPT !.num = num(rdata), !.src_inc = src_inc(rdata),
                              !.dst_inc = dst_inc(rdata), !.state = "S_READ_REQ"]

S_READ_REQ_IncFirst ==  \* mutant: the destination is incremented for the first element too
  /\ Go("S_READ_REQ")
  /\ engine' = [engine EXCEPT
       !.dst_addr = (@ + engine.dst_inc) % AddrSpace,
       !.num = (@ - 1) % NumSpace, !.state = "S_READ_RSP"]

S_READ_REQ ==
  /\ Go("S_READ_REQ")
  /\ engine' = [engine EXCEPT
       !.dst_addr = IF engine.num_or THEN (@ + engine.dst_inc) % AddrSpace ELSE @,
       !.num = (@ - 1) % NumSpace,
       !.state = "S_READ_RSP"]

S_READ_RSP(ans) ==
  /\ Go("S_READ_RSP")
  /\ engine' = [engine EXCEPT
       !.err = IF ans = "none" THEN @ ELSE ans = "err",
       !.state = CASE ans = "none" -> @
                   [] ans = "err"  -> "S_CHECK"
                   [] ans = "ok"   -> "S_WRITE_REQ"]

S_WRITE_REQ ==
  /\ Go("S_WRITE_REQ")
  /\ engine' = [engine EXCEPT !.src_addr = (@ + engine.src_inc) % AddrSpace,
                              !.num_or = engine.num # 0,
                              !.state = "S_WRITE_RSP"]

S_WRITE_RSP_NoAbort(ans) ==  \* mutant: a transfer runs to its end when disabled
  /\ Go("S_WRITE_RSP")
  /\ engine' = [engine EXCEPT
       !.err = IF ans = "none" THEN @ ELSE ans = "err",
       !.state = IF ans = "none" THEN @
                 ELSE IF ~engine.num_or \/ ans = "err" THEN "S_CHECK" ELSE "S_READ_REQ"]

S_WRITE_RSP(ans) ==
  /\ Go("S_WRITE_RSP")
  /\ LET stop == ~engine.num_or \/ ~ctrl.enable \/ ans = "err"
     IN  engine' = [engine EXCEPT
           !.err = IF ans = "none" THEN @ ELSE ans = "err",
           !.state = IF ans = "none" THEN @
                     ELSE IF stop THEN "S_CHECK" ELSE "S_READ_REQ"]

bus_engine(ans) ==
  \/ S_CHECK \/ S_GET_0 \/ S_GET_1 \/ S_GET_2 \/ S_GET_3
  \/ S_READ_REQ \/ S_READ_RSP(ans) \/ S_WRITE_REQ \/ S_WRITE_RSP(ans)

(* The data buffer follows the bus during the whole read response. *)
src_align(ans) ==
  data_buf' = IF ~Go("S_READ_RSP") THEN data_buf
              ELSE IF ans = "ok" THEN mem[engine.src_addr] ELSE NoData

(* The responder: a write takes effect when it is acknowledged. *)
memory(ans) ==
  mem' = IF Go("S_WRITE_RSP") /\ ans = "ok"
         THEN [mem EXCEPT ![engine.dst_addr] = data_buf] ELSE mem

(* The bus answers only an outstanding request. *)
Answers == IF engine.state \in {"S_READ_RSP", "S_WRITE_RSP"}
           THEN {"none", "ok", "err"} ELSE {"none"}

Cycle(req, ans) ==
  /\ ctrl_access(req)
  /\ descriptor_buffer(req)
  /\ bus_engine(ans)
  /\ src_align(ans)
  /\ memory(ans)

-----------------------------------------------------------------------------
DmaTypeOK ==
  /\ F!FifoTypeOK
  /\ ctrl \in [enable : BOOLEAN, start : BOOLEAN, err : BOOLEAN, done : BOOLEAN]
  /\ engine \in [state : States, run : BOOLEAN, done : BOOLEAN, err : BOOLEAN,
                 src_addr : Addr, dst_addr : Addr, num : Num, num_or : BOOLEAN,
                 src_inc : 0 .. 1, dst_inc : 0 .. 1]
  /\ data_buf \in Value
  /\ mem \in [Addr -> Value]

=============================================================================
