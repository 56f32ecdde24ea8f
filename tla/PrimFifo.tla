------------------------------ MODULE PrimFifo ------------------------------
(***************************************************************************)
(* neorv32_prim_fifo (rtl/core/neorv32_prim.vhd): the generic single-clock *)
(* first-word-fall-through FIFO that every buffered device of the SoC      *)
(* instantiates (DMA descriptors, UART, SPI, SDI, TWI, TWD, SLINK, ...).   *)
(*                                                                         *)
(* One step is one rising clock edge.  A pointer of AWIDTH+1 bits is the   *)
(* record of the two slices the code compares: its top bit "msb" and the   *)
(* memory index "idx" made of the AWIDTH lower bits.                       *)
(*                                                                         *)
(* With more than one entry the data and "avail" outputs are registered,   *)
(* so they describe the FIFO as it was one clock edge ago.                 *)
(***************************************************************************)
EXTENDS Integers, Sequences

CONSTANTS
  Depth,   \* number of entries, 2**AWIDTH
  Data,    \* the words that can be written
  Init0    \* content of the memory before the first write

ASSUME DepthAssumption == Depth \in Nat \ {0}
ASSUME Init0Assumption == Init0 \notin Data

VARIABLES
  fifo,    \* memory core
  w_pnt,   \* write pointer
  r_pnt,   \* read pointer
  avail,   \* avail_o: data available at the read port
  rdata    \* rdata_o: word at the read port (without the output gate)

fifoVars == <<fifo, w_pnt, r_pnt, avail, rdata>>

Index == 0 .. Depth - 1
Bit == 0 .. 1
Pointer == [msb : Bit, idx : Index]
Word == Data \cup {Init0}

-----------------------------------------------------------------------------
(* Status and pointer logic. *)

match(w, r) == r.idx = w.idx
full  == r_pnt.msb # w_pnt.msb /\ match(w_pnt, r_pnt)
empty == r_pnt.msb = w_pnt.msb /\ match(w_pnt, r_pnt)

(* unsigned(pnt) + 1 on AWIDTH+1 bits *)
inc(p) == IF p.idx = Depth - 1
          THEN [msb |-> 1 - p.msb, idx |-> 0]
          ELSE [p EXCEPT !.idx = @ + 1]

Zero == [msb |-> 0, idx |-> 0]

(* Mutant: a write to a full FIFO is accepted. *)
we_Unguarded(we_i) == we_i

(* Access control: accesses to a full or an empty FIFO are ignored. *)
we(we_i) == we_i /\ ~full
re(re_i) == re_i /\ ~empty

-----------------------------------------------------------------------------
FifoInit ==
  /\ fifo = [i \in Index |-> Init0]
  /\ w_pnt = Zero
  /\ r_pnt = Zero
  /\ avail = FALSE
  /\ rdata = Init0

(* Mutant: the memory is written although the FIFO is full. *)
memory_core_Overwrite(we_i, wdata_i) ==
  fifo' = IF we_i THEN [fifo EXCEPT ![w_pnt.idx] = wdata_i] ELSE fifo

(* The memory is written at the write pointer even while clear_i resets     *)
(* the pointers.                                                            *)
memory_core(we_i, wdata_i) ==
  fifo' = IF we(we_i) THEN [fifo EXCEPT ![w_pnt.idx] = wdata_i] ELSE fifo

pointer_reg(clear_i, we_i, re_i) ==
  /\ w_pnt' = IF clear_i THEN Zero ELSE IF we(we_i) THEN inc(w_pnt) ELSE w_pnt
  /\ r_pnt' = IF clear_i THEN Zero ELSE IF re(re_i) THEN inc(r_pnt) ELSE r_pnt

(* Mutant: avail is not synchronised to the registered read port. *)
status_reg_Unsynchronised ==
  /\ avail' = ~empty'
  /\ rdata' = fifo[r_pnt.idx]

(* Registered outputs (Depth > 1) or direct outputs of the only entry. *)
status_reg ==
  IF Depth > 1
  THEN /\ avail' = ~empty
       /\ rdata' = fifo[r_pnt.idx]
  ELSE /\ avail' = ~empty'
       /\ rdata' = fifo'[0]

Clock(clear_i, we_i, wdata_i, re_i) ==
  /\ memory_core(we_i, wdata_i)
  /\ pointer_reg(clear_i, we_i, re_i)
  /\ status_reg

FifoNext == \E clear_i, we_i, re_i \in BOOLEAN, wdata_i \in Data :
          Clock(clear_i, we_i, wdata_i, re_i)

FifoSpec == FifoInit /\ [][FifoNext]_fifoVars

-----------------------------------------------------------------------------
(* Type invariant. *)
FifoTypeOK ==
  /\ fifo \in [Index -> Word]
  /\ w_pnt \in Pointer
  /\ r_pnt \in Pointer
  /\ avail \in BOOLEAN
  /\ rdata \in Word

(***************************************************************************)
(* The queue the two pointers delimit: the words from the read pointer up  *)
(* to the write pointer, around the end of the memory.                     *)
(***************************************************************************)
Level == IF w_pnt.msb = r_pnt.msb THEN w_pnt.idx - r_pnt.idx
                                  ELSE Depth + w_pnt.idx - r_pnt.idx

Slot(k) == IF r_pnt.idx + k < Depth THEN r_pnt.idx + k
                                    ELSE r_pnt.idx + k - Depth

Queue == [k \in 1 .. Level |-> fifo[Slot(k - 1)]]

(***************************************************************************)
(* The pointers are never more than Depth apart, and a FIFO that is        *)
(* neither full nor empty has them at different entries: the one extra     *)
(* pointer bit is enough to tell full from empty after any wrap-around.    *)
(***************************************************************************)
LevelInv ==
  /\ Level \in 0 .. Depth
  /\ empty <=> Level = 0
  /\ full <=> Level = Depth

(***************************************************************************)
(* No word that has not been written can be delivered: everything between  *)
(* the pointers is data, although clear_i resets the pointers while a      *)
(* write to the memory goes ahead.                                         *)
(***************************************************************************)
OnlyWritten == \A k \in 1 .. Level : Queue[k] \in Data

(***************************************************************************)
(* First-word fall-through at the registered read port: when avail is set  *)
(* after an edge that accepted no read, the word at the port is the head   *)
(* of the queue, and a word that was at the port before a write is not     *)
(* disturbed by it.  (After an edge that did accept a read the port still  *)
(* shows the word just read; this is why the devices read at most every    *)
(* second cycle or take the word one cycle after the read.)                *)
(***************************************************************************)
ReadPortFresh ==
  [][(r_pnt' = r_pnt /\ Queue' # <<>> /\ avail') => rdata' = Queue'[1]]_fifoVars

(* Every step of the FIFO is a step of the bounded queue. *)
Q == INSTANCE FifoQueue WITH q <- Queue
Refinement == Q!Spec

=============================================================================
