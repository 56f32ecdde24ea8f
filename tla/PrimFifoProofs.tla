--------------------------- MODULE PrimFifoProofs ---------------------------
(***************************************************************************)
(* Proofs for neorv32_prim_fifo, for every depth and every set of words.   *)
(***************************************************************************)
EXTENDS PrimFifo, TLAPS

USE DepthAssumption

(* What the code's pointer comparison relies on: the write pointer is      *)
(* ahead of the read pointer by at most one turn around the memory.        *)
PointerInv ==
  /\ w_pnt.msb = r_pnt.msb => r_pnt.idx <= w_pnt.idx
  /\ w_pnt.msb # r_pnt.msb => w_pnt.idx <= r_pnt.idx

(* The inductive invariant. *)
IInv == FifoTypeOK /\ PointerInv /\ OnlyWritten

(* The reset value of both pointers is a pointer. *)
LEMMA ZeroType == Zero \in Pointer
  BY DEF Zero, Pointer, Index, Bit

(* Incrementing a pointer of AWIDTH+1 bits gives a pointer. *)
LEMMA IncType == ASSUME NEW p \in Pointer PROVE inc(p) \in Pointer
  BY DEF Pointer, Index, Bit, inc

(* The reset state is well typed. *)
LEMMA InitType == FifoInit => FifoTypeOK
<1> SUFFICES ASSUME FifoInit PROVE FifoTypeOK
  OBVIOUS
<1>1. fifo \in [Index -> Word] /\ rdata \in Word
  BY DEF FifoInit, Word
<1>2. QED
  BY <1>1, ZeroType, Zenon DEF FifoInit, FifoTypeOK

(* One clock edge keeps every register in its type. *)
LEMMA NextType == FifoTypeOK /\ [FifoNext]_fifoVars => FifoTypeOK'
<1> SUFFICES ASSUME FifoTypeOK, [FifoNext]_fifoVars PROVE FifoTypeOK'
  OBVIOUS
<1>1. CASE UNCHANGED fifoVars
  BY <1>1 DEF FifoTypeOK, fifoVars
<1>2. ASSUME NEW clear_i \in BOOLEAN, NEW we_i \in BOOLEAN,
             NEW re_i \in BOOLEAN, NEW wdata_i \in Data,
             Clock(clear_i, we_i, wdata_i, re_i)
      PROVE FifoTypeOK'
  <2>1. fifo' \in [Index -> Word]
    BY <1>2 DEF FifoTypeOK, Clock, memory_core, Word
  <2>2. w_pnt' \in Pointer /\ r_pnt' \in Pointer
    BY <1>2, ZeroType, IncType DEF FifoTypeOK, Clock, pointer_reg
  <2>3. avail' \in BOOLEAN
    BY <1>2 DEF Clock, status_reg, empty
  <2>4. rdata' \in Word
    BY <1>2, <2>1 DEF FifoTypeOK, Clock, status_reg, Pointer, Index
  <2>5. QED
    BY <2>1, <2>2, <2>3, <2>4 DEF FifoTypeOK
<1>3. QED
  BY <1>1, <1>2 DEF FifoNext

(* The type invariant of the FIFO: no access leaves the memory. *)
THEOREM TypeCorrect == FifoSpec => []FifoTypeOK
  BY InitType, NextType, PTL DEF FifoSpec

-----------------------------------------------------------------------------
(* The level the pointers encode and the status bits agree with it. *)
LEMMA PointerLevel == FifoTypeOK /\ PointerInv => LevelInv
  BY DEF FifoTypeOK, PointerInv, LevelInv, Level, Pointer, Index, Bit,
         empty, full, match

(* What one clock edge does to the level and to the read position. *)
LEMMA PointerStep ==
  ASSUME FifoTypeOK, PointerInv,
         NEW clear_i \in BOOLEAN, NEW we_i \in BOOLEAN, NEW re_i \in BOOLEAN,
         pointer_reg(clear_i, we_i, re_i)
  PROVE  /\ PointerInv'
         /\ clear_i => Level' = 0
         /\ ~clear_i => Level' = Level + (IF we(we_i) THEN 1 ELSE 0)
                                     - (IF re(re_i) THEN 1 ELSE 0)
  BY DEF FifoTypeOK, PointerInv, pointer_reg, we, re, full, empty, match, inc,
         Zero, Level, Pointer, Index, Bit

(* The entries the queue occupies: inside the memory, and none of them is  *)
(* the entry the next write goes to.                                       *)
LEMMA SlotFacts ==
  ASSUME FifoTypeOK, PointerInv
  PROVE  /\ Level \in 0 .. Depth
         /\ \A k \in 0 .. Depth - 1 : Slot(k) \in Index
         /\ Slot(0) = r_pnt.idx
         /\ ~full => w_pnt.idx = Slot(Level)
         /\ ~full => \A k \in 0 .. Level - 1 : Slot(k) # w_pnt.idx
  BY DEF FifoTypeOK, PointerInv, Level, Slot, Pointer, Index, Bit, full, match

(* A read moves every entry one place towards the head. *)
LEMMA SlotStep ==
  ASSUME FifoTypeOK, PointerInv, NEW we_i \in BOOLEAN, NEW re_i \in BOOLEAN,
         pointer_reg(FALSE, we_i, re_i)
  PROVE  /\ re(re_i) => \A k \in 0 .. Depth - 2 : Slot(k)' = Slot(k + 1)
         /\ ~re(re_i) => \A k \in 0 .. Depth - 1 : Slot(k)' = Slot(k)
<1>1. /\ r_pnt.idx \in Nat /\ r_pnt.idx < Depth
      /\ re(re_i) => r_pnt'.idx = IF r_pnt.idx = Depth - 1 THEN 0 ELSE r_pnt.idx + 1
      /\ ~re(re_i) => r_pnt'.idx = r_pnt.idx
  BY DEF FifoTypeOK, pointer_reg, inc, Pointer, Index
<1>2. ASSUME re(re_i), NEW k \in 0 .. Depth - 2 PROVE Slot(k)' = Slot(k + 1)
  <2>1. CASE r_pnt.idx = Depth - 1
    BY <1>1, <1>2, <2>1 DEF Slot
  <2>2. CASE r_pnt.idx # Depth - 1
    BY <1>1, <1>2, <2>2 DEF Slot
  <2> QED
    BY <2>1, <2>2
<1> QED
  BY <1>1, <1>2 DEF Slot

(* The queue is a sequence of Level words. *)
LEMMA QueueSeq ==
  ASSUME FifoTypeOK, PointerInv, OnlyWritten
  PROVE  Queue \in Seq(Data) /\ Len(Queue) = Level
<1>1. Level \in Nat
  BY SlotFacts
<1>2. \A k \in 1 .. Level : Queue[k] \in Data
  BY DEF OnlyWritten
<1>3. QED
  BY <1>1, <1>2 DEF Queue

(* What one clock edge without clear_i does to each word of the queue. *)
LEMMA QueueStep ==
  ASSUME IInv, NEW we_i \in BOOLEAN, NEW re_i \in BOOLEAN,
         NEW wdata_i \in Data,
         memory_core(we_i, wdata_i), pointer_reg(FALSE, we_i, re_i)
  PROVE  \A k \in 1 .. Level' :
           LET j == IF re(re_i) THEN k + 1 ELSE k
           IN  Queue'[k] = IF j <= Level THEN Queue[j] ELSE wdata_i
<1> USE DEF IInv
<1> DEFINE d == IF re(re_i) THEN 1 ELSE 0
<1>0. PICK n \in 0 .. Depth : n = Level
  BY SlotFacts
<1>1. Level' = n + (IF we(we_i) THEN 1 ELSE 0) - d
  BY PointerStep, <1>0
<1>2. we(we_i) => n < Depth
  BY <1>0, PointerLevel DEF we, LevelInv
<1> SUFFICES ASSUME NEW k \in 1 .. Level'
             PROVE  Queue'[k] = IF k + d <= n THEN Queue[k + d] ELSE wdata_i
  BY <1>0
<1>3. k \in Nat /\ k - 1 + d \in 0 .. Depth - 1
  BY <1>0, <1>1, <1>2
<1>4. Slot(k - 1)' = Slot(k - 1 + d)
  <2>1. CASE re(re_i)
    <3>1. k - 1 \in 0 .. Depth - 2 /\ d = 1
      BY <2>1, <1>3
    <3>2. QED
      BY <2>1, <3>1, SlotStep
  <2>2. CASE ~re(re_i)
    <3>1. k - 1 \in 0 .. Depth - 1 /\ k - 1 + d = k - 1
      BY <2>2, <1>3
    <3>2. QED
      BY <2>2, <3>1, SlotStep
  <2>3. QED
    BY <2>1, <2>2
<1>5. Queue'[k] = fifo'[Slot(k - 1 + d)]
  BY <1>4 DEF Queue
<1>6. CASE k + d <= n
  <2>1. k + d \in 1 .. n /\ Slot(k - 1 + d) \in Index
    BY <1>3, <1>6, SlotFacts
  <2>2. we(we_i) => Slot(k - 1 + d) # w_pnt.idx
    BY <1>0, <1>3, <2>1, SlotFacts DEF we
  <2>3. fifo'[Slot(k - 1 + d)] = fifo[Slot(k - 1 + d)]
    BY <2>1, <2>2 DEF memory_core, FifoTypeOK
  <2>4. Queue[k + d] = fifo[Slot(k - 1 + d)]
    <3>1. (k + d) - 1 = k - 1 + d
      BY <1>3
    <3>2. QED
      BY <1>0, <2>1, <3>1 DEF Queue
  <2>5. QED
    BY <1>5, <1>6, <2>3, <2>4
<1>7. CASE ~(k + d <= n)
  <2>1. we(we_i) /\ k - 1 + d = n
    BY <1>0, <1>1, <1>3, <1>7
  <2>2. Slot(k - 1 + d) = w_pnt.idx /\ w_pnt.idx \in Index
    BY <1>0, <2>1, SlotFacts DEF we, FifoTypeOK, Pointer
  <2>3. fifo'[w_pnt.idx] = wdata_i
    BY <2>1, <2>2 DEF memory_core, FifoTypeOK
  <2>4. QED
    BY <1>5, <1>7, <2>2, <2>3
<1>8. QED
  BY <1>6, <1>7

-----------------------------------------------------------------------------
(* Every clock edge keeps the inductive invariant. *)
LEMMA ClockInv ==
  ASSUME IInv, NEW clear_i \in BOOLEAN, NEW we_i \in BOOLEAN,
         NEW re_i \in BOOLEAN, NEW wdata_i \in Data,
         Clock(clear_i, we_i, wdata_i, re_i)
  PROVE  IInv'
<1>0. FifoTypeOK'
  BY NextType DEF IInv, FifoNext
<1>1. PointerInv' /\ (clear_i => Level' = 0)
  BY PointerStep DEF IInv, Clock
<1>2. CASE clear_i
  BY <1>0, <1>1, <1>2 DEF OnlyWritten, IInv
<1>3. CASE ~clear_i
  <2>1. memory_core(we_i, wdata_i) /\ pointer_reg(FALSE, we_i, re_i)
    BY <1>3 DEF Clock, pointer_reg
  <2>2. Level \in Nat
    BY SlotFacts DEF IInv
  <2>3. \A j \in 1 .. Level : Queue[j] \in Data
    BY DEF IInv, OnlyWritten
  <2>4. Level' \in Nat
    BY <1>0, <1>1 DEF FifoTypeOK, PointerInv, Level, Pointer, Index, Bit
  <2>5. ASSUME NEW k \in 1 .. Level' PROVE Queue'[k] \in Data
    <3> DEFINE j == IF re(re_i) THEN k + 1 ELSE k
    <3>1. Queue'[k] = IF j <= Level THEN Queue[j] ELSE wdata_i
      BY <2>1, QueueStep
    <3>2. j \in Nat \ {0}
      BY <2>4
    <3>3. QED
      BY <3>1, <3>2, <2>2, <2>3
  <2>6. QED
    BY <1>0, <1>1, <2>5 DEF OnlyWritten, IInv
<1>4. QED
  BY <1>2, <1>3

(* What a device that uses the FIFO sees of one clock edge: the level, the  *)
(* words of the queue and the registered read port after a clear, after an  *)
(* edge that leaves the FIFO alone, after a write and after a read.         *)
LEMMA PortStep ==
  ASSUME IInv, NEW clear_i \in BOOLEAN, NEW we_i \in BOOLEAN,
         NEW re_i \in BOOLEAN, NEW wdata_i \in Data,
         Clock(clear_i, we_i, wdata_i, re_i)
  PROVE  /\ Level \in 0 .. Depth /\ (full <=> Level = Depth)
         /\ clear_i => Level' = 0
         /\ Level = 0 /\ (clear_i \/ ~we_i) => ~avail'
         /\ ~clear_i /\ ~we_i /\ ~re_i =>
              /\ Level' = Level /\ (avail' <=> Level > 0)
              /\ \A k \in 1 .. Level : Queue'[k] = Queue[k]
         /\ ~clear_i /\ we_i /\ ~re_i /\ Level < Depth =>
              /\ Level' = Level + 1 /\ Queue'[Level + 1] = wdata_i
              /\ \A k \in 1 .. Level : Queue'[k] = Queue[k]
         /\ ~clear_i /\ ~we_i /\ re_i /\ Level > 0 =>
              /\ Level' = Level - 1
              /\ \A k \in 1 .. Level - 1 : Queue'[k] = Queue[k + 1]
              /\ Depth > 1 => avail' /\ rdata' = Queue[1]
<1>1. /\ LevelInv /\ IInv' /\ LevelInv' /\ Depth \in Nat \ {0}
      /\ Level \in 0 .. Depth /\ Level' \in 0 .. Depth
      /\ empty <=> Level = 0
      /\ full <=> Level = Depth
      /\ empty' <=> Level' = 0
  <2>1. IInv'
    BY ClockInv
  <2>2. LevelInv
    BY PointerLevel DEF IInv
  <2>3. LevelInv'
    BY <2>1, PointerLevel, PTL DEF IInv
  <2>4. QED
    BY <2>1, <2>2, <2>3, DepthAssumption DEF LevelInv
<1>2. /\ clear_i => Level' = 0
      /\ ~clear_i => Level' = Level + (IF we(we_i) THEN 1 ELSE 0)
                                  - (IF re(re_i) THEN 1 ELSE 0)
  BY PointerStep DEF IInv, Clock
<1>3. /\ Depth > 1 => (avail' <=> Level # 0) /\ rdata' = fifo[r_pnt.idx]
      /\ ~(Depth > 1) => (avail' <=> Level' # 0)
  BY <1>1 DEF Clock, status_reg
<1>4. /\ we_i /\ Level # Depth => we(we_i) = TRUE
      /\ ~we_i => we(we_i) = FALSE
      /\ re_i /\ Level # 0 => re(re_i) = TRUE
      /\ ~re_i \/ Level = 0 => re(re_i) = FALSE
  BY <1>1 DEF we, re
<1>5. ASSUME ~clear_i
      PROVE  \A k \in 1 .. Level' :
               Queue'[k] = IF (IF re(re_i) THEN k + 1 ELSE k) <= Level
                           THEN Queue[IF re(re_i) THEN k + 1 ELSE k] ELSE wdata_i
  <2>1. memory_core(we_i, wdata_i) /\ pointer_reg(FALSE, we_i, re_i)
    BY <1>5 DEF Clock, pointer_reg
  <2>2. QED
    BY <2>1, QueueStep
<1>5a. /\ ~clear_i /\ we_i /\ ~re_i /\ Level < Depth =>
           Level' = Level + 1 /\ re(re_i) = FALSE
       /\ ~clear_i /\ ~we_i /\ re_i /\ Level > 0 =>
           Level' = Level - 1 /\ re(re_i) = TRUE
  <2>1. Level < Depth => Level # Depth
    BY <1>1
  <2>2. Level > 0 => Level # 0
    BY <1>1
  <2>3. we_i /\ ~re_i /\ Level < Depth => we(we_i) = TRUE /\ re(re_i) = FALSE
    BY <1>4, <2>1, Zenon
  <2>4. ~we_i /\ re_i /\ Level > 0 => we(we_i) = FALSE /\ re(re_i) = TRUE
    BY <1>4, <2>2, Zenon
  <2>5. Level \in Int /\ Level' \in Int
    BY <1>1
  <2> QED
    BY <1>2, <2>3, <2>4, <2>5
<1>6. CASE clear_i
  BY <1>1, <1>2, <1>3, <1>6
<1>7. CASE ~clear_i /\ ~we_i /\ ~re_i
  <2>1. Level' = Level
    BY <1>1, <1>2, <1>4, <1>7
  <2>2. \A k \in 1 .. Level : Queue'[k] = Queue[k]
    BY <1>1, <1>4, <1>5, <1>7, <2>1
  <2>3. QED
    BY <1>1, <1>3, <1>7, <2>1, <2>2
<1>8. CASE ~clear_i /\ we_i /\ ~re_i
  <2>1. ASSUME Level < Depth
        PROVE  /\ Level' = Level + 1 /\ Queue'[Level + 1] = wdata_i
               /\ \A k \in 1 .. Level : Queue'[k] = Queue[k]
    <3>1. Level' = Level + 1 /\ ~re(re_i)
      BY <1>5a, <1>8, <2>1
    <3>2. \A k \in 1 .. Level' : Queue'[k] = IF k <= Level THEN Queue[k] ELSE wdata_i
      BY <1>5, <1>8, <3>1
    <3>3. Level + 1 \in 1 .. Level' /\ ~(Level + 1 <= Level) /\ 1 .. Level \subseteq 1 .. Level'
      BY <1>1, <3>1
    <3>4. QED
      BY <3>1, <3>2, <3>3
  <2>2. QED
    BY <1>1, <1>8, <2>1
<1>9. CASE ~clear_i /\ ~we_i /\ re_i
  <2>1. ASSUME Level > 0
        PROVE  /\ Level' = Level - 1
               /\ \A k \in 1 .. Level - 1 : Queue'[k] = Queue[k + 1]
               /\ Depth > 1 => avail' /\ rdata' = Queue[1]
    <3>1. Level' = Level - 1 /\ re(re_i)
      BY <1>5a, <1>9, <2>1
    <3>2. \A k \in 1 .. Level - 1 : Queue'[k] = Queue[k + 1]
      BY <1>1, <1>5, <1>9, <3>1
    <3>3. Queue[1] = fifo[r_pnt.idx]
      <4>1. Queue[1] = fifo[Slot(0)]
        BY <1>1, <2>1 DEF Queue
      <4>2. QED
        BY <4>1, SlotFacts DEF IInv
    <3>4. QED
      BY <1>1, <1>3, <2>1, <3>1, <3>2, <3>3
  <2>2. Level = 0 => ~avail'
    BY <1>1, <1>2, <1>3, <1>4, <1>9
  <2>3. QED
    BY <1>1, <1>9, <2>1, <2>2
<1>10. CASE ~clear_i /\ we_i /\ re_i
  BY <1>1, <1>10
<1>11. QED
  BY <1>6, <1>7, <1>8, <1>9, <1>10

(* The inductive invariant holds after a reset. *)
LEMMA InitInv == FifoInit => IInv
<1> SUFFICES ASSUME FifoInit PROVE PointerInv /\ OnlyWritten /\ FifoTypeOK
  BY DEF IInv
<1>1. w_pnt = Zero /\ r_pnt = Zero
  BY DEF FifoInit
<1>2. PointerInv /\ Level = 0
  BY <1>1 DEF PointerInv, Level, Zero
<1>3. OnlyWritten
  BY <1>2 DEF OnlyWritten
<1>4. FifoTypeOK
  BY InitType
<1>5. QED
  BY <1>2, <1>3, <1>4

(* The inductive invariant holds initially and every clock edge keeps it. *)
THEOREM Inductive == FifoSpec => []IInv
<1>1. IInv /\ [FifoNext]_fifoVars => IInv'
  <2> SUFFICES ASSUME IInv, [FifoNext]_fifoVars PROVE IInv'
    OBVIOUS
  <2>1. CASE UNCHANGED fifoVars
    <3>1. FifoTypeOK'
      BY NextType DEF IInv
    <3>2. QED
      BY <2>1, <3>1 DEF IInv, PointerInv, OnlyWritten, Queue, Level, Slot, fifoVars
  <2>2. CASE FifoNext
    BY <2>2, ClockInv DEF FifoNext
  <2>3. QED
    BY <2>1, <2>2
<1>2. QED
  BY <1>1, InitInv, PTL DEF FifoSpec

(* The level never leaves 0..Depth and full/empty are told apart, for every *)
(* depth and however often the pointers have wrapped around.                *)
THEOREM LevelCorrect == FifoSpec => []LevelInv
<1>1. IInv => LevelInv
  BY PointerLevel DEF IInv
<1>2. QED
  BY <1>1, Inductive, PTL

(* Only words that were written are delivered. *)
THEOREM OnlyWrittenCorrect == FifoSpec => []OnlyWritten
<1>1. IInv => OnlyWritten
  BY DEF IInv
<1>2. QED
  BY <1>1, Inductive, PTL

(* The word at the read port is the head of the queue whenever avail is set *)
(* and the edge before accepted no read.                                    *)
THEOREM ReadPortCorrect == FifoSpec => ReadPortFresh
<1>1. IInv /\ IInv' /\ [FifoNext]_fifoVars =>
        [(r_pnt' = r_pnt /\ Queue' # <<>> /\ avail') => rdata' = Queue'[1]]_fifoVars
  <2> SUFFICES ASSUME IInv, IInv', NEW clear_i \in BOOLEAN, NEW we_i \in BOOLEAN,
                      NEW re_i \in BOOLEAN, NEW wdata_i \in Data,
                      Clock(clear_i, we_i, wdata_i, re_i),
                      r_pnt' = r_pnt, Queue' # <<>>, avail'
               PROVE  rdata' = Queue'[1]
    BY DEF FifoNext
  <2>1. r_pnt.idx \in Index /\ Level' \in 0 .. Depth
    BY DEF IInv, FifoTypeOK, PointerInv, Level, Pointer, Index, Bit
  <2>2. Level' # 0
    BY <2>1 DEF Queue
  <2>3. Queue'[1] = fifo'[r_pnt.idx]
    <3>1. 1 \in 1 .. Level'
      BY <2>1, <2>2
    <3>2. Slot(0)' = r_pnt.idx /\ 1 - 1 = 0
      BY <2>1 DEF Slot, Index
    <3>3. QED
      BY <3>1, <3>2 DEF Queue
  <2>4. CASE Depth > 1
    <3>1. ~empty /\ rdata' = fifo[r_pnt.idx]
      BY <2>4 DEF Clock, status_reg
    <3>2. we(we_i) => w_pnt.idx # r_pnt.idx
      BY <3>1 DEF we, full, empty, match
    <3>3. fifo'[r_pnt.idx] = fifo[r_pnt.idx]
      BY <2>1, <3>2 DEF Clock, memory_core, IInv, FifoTypeOK
    <3>4. QED
      BY <2>3, <3>1, <3>3
  <2>5. CASE ~(Depth > 1)
    <3>1. r_pnt.idx = 0
      BY <2>1, <2>5 DEF Index
    <3>2. QED
      BY <2>3, <2>5, <3>1 DEF Clock, status_reg
  <2>6. QED
    BY <2>4, <2>5
<1>2. QED
  BY <1>1, Inductive, PTL DEF FifoSpec, ReadPortFresh

-----------------------------------------------------------------------------
(* Sequences of the same length with the same elements are equal. *)
LEMMA SeqExt ==
  ASSUME NEW S, NEW s \in Seq(S), NEW t \in Seq(S), Len(s) = Len(t),
         \A i \in 1 .. Len(s) : s[i] = t[i]
  PROVE  s = t
  OBVIOUS

(* A clock edge without clear_i is a step of the bounded queue or leaves   *)
(* the queue as it is.                                                     *)
LEMMA StepSimulation ==
  ASSUME IInv, IInv', NEW we_i \in BOOLEAN, NEW re_i \in BOOLEAN,
         NEW wdata_i \in Data,
         memory_core(we_i, wdata_i), pointer_reg(FALSE, we_i, re_i)
  PROVE  [Q!Next]_Queue
<1>1. /\ Queue \in Seq(Data)  /\ Len(Queue) = Level
      /\ Queue' \in Seq(Data) /\ Len(Queue') = Level'
  <2>1. Queue \in Seq(Data) /\ Len(Queue) = Level
    BY QueueSeq DEF IInv
  <2>2. Level' \in Nat
    BY DEF IInv, FifoTypeOK, PointerInv, Level, Pointer, Index, Bit
  <2>3. \A k \in 1 .. Level' : Queue'[k] \in Data
    BY DEF IInv, OnlyWritten
  <2>4. Queue' = [k \in 1 .. Level' |-> Queue'[k]]
    BY DEF Queue
  <2>5. Queue' \in Seq(Data) /\ Len(Queue') = Level'
    BY <2>2, <2>3, <2>4
  <2>6. QED
    BY <2>1, <2>5
<1>2. Level' = Level + (IF we(we_i) THEN 1 ELSE 0) - (IF re(re_i) THEN 1 ELSE 0)
  BY PointerStep DEF IInv
<1>3. /\ Level \in 0 .. Depth
      /\ we(we_i) => Level < Depth
      /\ re(re_i) => Level > 0
  BY PointerLevel DEF IInv, LevelInv, we, re
<1>4. \A k \in 1 .. Level' :
        LET j == IF re(re_i) THEN k + 1 ELSE k
        IN  Queue'[k] = IF j <= Level THEN Queue[j] ELSE wdata_i
  BY QueueStep
<1>5. CASE ~we(we_i) /\ ~re(re_i)
  <2>1. Len(Queue') = Len(Queue) /\ \A k \in 1 .. Len(Queue') : Queue'[k] = Queue[k]
    BY <1>1, <1>2, <1>3, <1>4, <1>5
  <2>2. Queue' = Queue
    BY <1>1, <2>1, SeqExt
  <2>3. QED
    BY <2>2
<1>6. CASE we(we_i) /\ ~re(re_i)
  <2> DEFINE t == Append(Queue, wdata_i)
  <2>1. t \in Seq(Data) /\ Len(t) = Level + 1
    BY <1>1
  <2>2. \A k \in 1 .. Len(Queue') : Queue'[k] = t[k]
    BY <1>1, <1>2, <1>3, <1>4, <1>6
  <2>3. Queue' = t
    BY <1>1, <1>2, <1>3, <1>6, <2>1, <2>2, SeqExt
  <2>4. QED
    BY <1>1, <1>3, <1>6, <2>3 DEF Q!Next, Q!Push
<1>7. CASE ~we(we_i) /\ re(re_i)
  <2> DEFINE t == Tail(Queue)
  <2>0. Queue # <<>>
    BY <1>1, <1>3, <1>7
  <2>1. t \in Seq(Data) /\ Len(t) = Level - 1
    BY <1>1, <1>3, <2>0
  <2>2. \A k \in 1 .. Len(Queue') : Queue'[k] = t[k]
    BY <1>1, <1>2, <1>3, <1>4, <1>7, <2>0
  <2>3. Queue' = t
    BY <1>1, <1>2, <1>3, <1>7, <2>1, <2>2, SeqExt
  <2>4. QED
    BY <2>0, <2>3 DEF Q!Next, Q!Pop
<1>8. CASE we(we_i) /\ re(re_i)
  <2> DEFINE u == Tail(Queue)
             t == Append(u, wdata_i)
  <2>0. Queue # <<>>
    BY <1>1, <1>3, <1>8
  <2>1. u \in Seq(Data) /\ Len(u) = Level - 1
    BY <1>1, <1>3, <2>0
  <2>2. t \in Seq(Data) /\ Len(t) = Level
    BY <1>3, <2>1
  <2>3. \A k \in 1 .. Level - 1 : t[k] = Queue[k + 1]
    BY <1>1, <1>3, <2>0, <2>1
  <2>4. t[Level] = wdata_i
    BY <1>3, <2>1
  <2>5. \A k \in 1 .. Len(Queue') : Queue'[k] = t[k]
    BY <1>1, <1>2, <1>3, <1>4, <1>8, <2>3, <2>4
  <2>6. Queue' = t
    BY <1>1, <1>2, <1>3, <1>8, <2>2, <2>5, SeqExt
  <2>7. QED
    BY <1>1, <1>3, <1>8, <2>0, <2>6 DEF Q!Next, Q!PushPop
<1>9. QED
  BY <1>5, <1>6, <1>7, <1>8

(* neorv32_prim_fifo implements the bounded queue, for every depth. *)
THEOREM FifoImplementsQueue == FifoSpec => Refinement
<1>1. FifoInit => Q!Init
  <2> SUFFICES ASSUME FifoInit PROVE Queue = <<>>
    BY DEF Q!Init
  <2>1. Level = 0
    BY DEF FifoInit, Level, Zero
  <2>2. QED
    BY <2>1 DEF Queue
<1>2. IInv /\ IInv' /\ [FifoNext]_fifoVars => [Q!Next]_Queue
  <2> SUFFICES ASSUME IInv, IInv', [FifoNext]_fifoVars PROVE [Q!Next]_Queue
    OBVIOUS
  <2>1. CASE UNCHANGED fifoVars
    BY <2>1 DEF fifoVars, Queue, Level, Slot
  <2>2. ASSUME NEW clear_i \in BOOLEAN, NEW we_i \in BOOLEAN,
               NEW re_i \in BOOLEAN, NEW wdata_i \in Data,
               Clock(clear_i, we_i, wdata_i, re_i)
        PROVE [Q!Next]_Queue
    <3>1. CASE clear_i
      <4>1. Level' = 0
        BY <2>2, <3>1, PointerStep DEF IInv, Clock
      <4>2. Queue' = <<>>
        BY <4>1 DEF Queue
      <4>3. QED
        BY <4>2 DEF Q!Next, Q!Clear
    <3>2. CASE ~clear_i
      <4>1. memory_core(we_i, wdata_i) /\ pointer_reg(FALSE, we_i, re_i)
        BY <2>2, <3>2 DEF Clock, pointer_reg
      <4>2. QED
        BY <4>1, StepSimulation
    <3>3. QED
      BY <3>1, <3>2
  <2>3. QED
    BY <2>1, <2>2 DEF FifoNext
<1>3. QED
  BY <1>1, <1>2, Inductive, PTL DEF FifoSpec, Refinement, Q!Spec

=============================================================================
