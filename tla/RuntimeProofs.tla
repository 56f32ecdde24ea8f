--------------------------- MODULE RuntimeProofs ----------------------------
(***************************************************************************)
(* The software that runs under the traps of the processor.  The trap      *)
(* handling of the runtime environment for every set of causes, every      *)
(* content of the data memory and every stack: what the trapped program    *)
(* finds when __neorv32_rte_core has returned; its invariant follows the   *)
(* registers of the program into the frame, through the handler, and back. *)
(* The dual-core demo for every stack, every number of polls and every     *)
(* number of timer interrupts: the launch of core 1, the spinlock and the  *)
(* shared vector table; its invariant says what core 1 can be doing at     *)
(* each step of the launch on core 0, that a hart accepts interrupts only  *)
(* in its sleep loop, who holds the lock, and who prints without it.       *)
(* The 1-Wire driver for every number of devices and ROM bits: every       *)
(* blocking function takes the answer to the operation it has issued.      *)
(***************************************************************************)
EXTENDS Rte, DualCore, OneWire, TLAPS

-----------------------------------------------------------------------------
(* The runtime environment *)

RteHandlers == {"panic", "user", "emulate_unaligned_lw"}
Modes == RteHandlers \cup {"app", "core_entry", "core_exit", "resumed", "panic_halt"}
Inst == [load : Loads, compressed : BOOLEAN]
Csrs == [mie : SUBSET TrapCodes, mcause : TrapCodes, mepc : Nat, mscratch : Nat, mtinst : Inst]

RteTypeOK ==
  /\ lut \in [TrapCodes -> RteHandlers]
  /\ rf \in [Reg -> Nat]
  /\ stack \in [0 .. StackTop -> Nat]
  /\ csr \in Csrs
  /\ pc \in Nat
  /\ mode \in Modes
  /\ before \in [rf : [Reg -> Nat], pc : Nat, cause : TrapCodes, inst : Inst]

(* The emulation handler is installed for its cause only, and that cause   *)
(* has no other one.                                                       *)
LutInv ==
  \A c \in TrapCodes : /\ lut[c] = "emulate_unaligned_lw" => c = "L_MISALIGNED"
                       /\ lut[c] = "user" => c # "L_MISALIGNED"

(* What the hart has recorded of the program it has interrupted. *)
Recorded ==
  /\ before.rf[0] = 0 /\ before.rf[sp] = StackTop
  /\ csr.mcause = before.cause /\ csr.mtinst = before.inst
  /\ before.cause = "L_MISALIGNED" =>
       CanRead(before.rf[before.inst.load.rs1] + before.inst.load.imm)

Frame == StackTop - FrameSize
InCore == rf[sp] = Frame /\ csr.mscratch = Frame /\ csr.mepc = before.pc

(* The value that a register has when the trap is over. *)
Emulated == before.cause = "L_MISALIGNED" /\ before.inst.load.lw /\ lut["L_MISALIGNED"] # "panic"
Result(x) ==
  IF Emulated /\ x = before.inst.load.rd /\ x # 0
  THEN DataWord(before.rf[before.inst.load.rs1] + before.inst.load.imm) ELSE before.rf[x]

Saved == 1 .. FrameSize - 1

RteInv ==
  /\ RteTypeOK /\ LutInv
  /\ rf[0] = 0
  /\ mode = "app" => rf[sp] = StackTop
  /\ mode # "app" => Recorded
  /\ mode = "core_entry" => rf = before.rf /\ csr.mepc = before.pc
  /\ mode \in RteHandlers =>
       /\ InCore /\ mode = lut[before.cause]
       /\ \A x \in Saved : stack[Frame + x] = before.rf[x]
  /\ mode = "core_exit" => InCore /\ \A x \in Saved : stack[Frame + x] = Result(x)
  /\ mode = "resumed" => TrapTransparent /\ rf[sp] = StackTop

-----------------------------------------------------------------------------
(* The frame lies in the stack. *)
LEMMA FrameInStack ==
  /\ Frame \in Nat /\ \A x \in Saved : Frame + x \in 0 .. StackTop
  /\ StackTop \in Nat
BY RteAssumption DEF Frame, FrameSize, Saved

(* An index into the data memory, taken round, is a number. *)
LEMMA WrapIsNat ==
  ASSUME NEW x \in Nat, NEW n \in Nat \ {0}
  PROVE  x % n \in Nat
OBVIOUS

(* An entry of a sequence is one of the set it is over. *)
LEMMA EntryOf ==
  ASSUME NEW X, NEW s \in Seq(X), NEW i \in 1 .. Len(s)
  PROVE  s[i] \in X
OBVIOUS

(* A cell of the data memory, and so a word of it, is a number. *)
LEMMA WordIsNat ==
  ASSUME NEW a \in Nat, CanRead(a)
  PROVE  DataWord(a) \in Nat
<1>1. a + 1 \in 1 .. Len(DataBlock) /\ a + 2 \in 1 .. Len(DataBlock)
  BY RteAssumption DEF CanRead, WordBytes
<1>2. DataBlock[a + 1] \in Nat /\ DataBlock[a + 2] \in Nat
  <2>1. DataBlock \in Seq(0 .. CellValues - 1)
    BY RteAssumption
  <2>2. DataBlock[a + 1] \in 0 .. CellValues - 1 /\ DataBlock[a + 2] \in 0 .. CellValues - 1
    BY <1>1, <2>1, EntryOf
  <2> QED
    BY <2>2 DEF CellValues
<1> QED
  BY <1>2 DEF DataWord, CellValues

(* One field of the CSRs at a time. *)
LEMMA SetMie ==
  ASSUME NEW c \in Csrs, NEW v \in SUBSET TrapCodes
  PROVE  LET d == [c EXCEPT !.mie = v] IN
         /\ d \in Csrs /\ d.mie = v /\ d.mcause = c.mcause /\ d.mepc = c.mepc
         /\ d.mscratch = c.mscratch /\ d.mtinst = c.mtinst
BY DEF Csrs

(* Writing mcause leaves the other registers alone. *)
LEMMA SetCause ==
  ASSUME NEW c \in Csrs, NEW v \in TrapCodes
  PROVE  LET d == [c EXCEPT !.mcause = v] IN
         /\ d \in Csrs /\ d.mie = c.mie /\ d.mcause = v /\ d.mepc = c.mepc
         /\ d.mscratch = c.mscratch /\ d.mtinst = c.mtinst
BY DEF Csrs

(* Writing mepc leaves the other registers alone. *)
LEMMA SetPc ==
  ASSUME NEW c \in Csrs, NEW v \in Nat
  PROVE  LET d == [c EXCEPT !.mepc = v] IN
         /\ d \in Csrs /\ d.mie = c.mie /\ d.mcause = c.mcause /\ d.mepc = v
         /\ d.mscratch = c.mscratch /\ d.mtinst = c.mtinst
BY DEF Csrs

(* Writing mscratch leaves the other registers alone. *)
LEMMA SetScratch ==
  ASSUME NEW c \in Csrs, NEW v \in Nat
  PROVE  LET d == [c EXCEPT !.mscratch = v] IN
         /\ d \in Csrs /\ d.mie = c.mie /\ d.mcause = c.mcause /\ d.mepc = c.mepc
         /\ d.mscratch = v /\ d.mtinst = c.mtinst
BY DEF Csrs

(* Writing mtinst leaves the other registers alone. *)
LEMMA SetInst ==
  ASSUME NEW c \in Csrs, NEW v \in Inst
  PROVE  LET d == [c EXCEPT !.mtinst = v] IN
         /\ d \in Csrs /\ d.mie = c.mie /\ d.mcause = c.mcause /\ d.mepc = c.mepc
         /\ d.mscratch = c.mscratch /\ d.mtinst = v
BY DEF Csrs

-----------------------------------------------------------------------------
(* The application at work: no step of it touches the core's promises.     *)
LEMMA AppKeeps ==
  ASSUME RteInv, mode = "app", mode' = "app", UNCHANGED <<rf, stack, pc, before>>,
         lut' \in [TrapCodes -> RteHandlers], LutInv', csr' \in Csrs
  PROVE  RteInv'
<1>1. RteTypeOK'
  BY DEF RteInv, RteTypeOK
<1> QED
  BY <1>1 DEF RteInv, RteHandlers

(* neorv32_rte_setup keeps the invariant. *)
LEMMA Keeps_setup ==
  ASSUME RteInv, neorv32_rte_setup
  PROVE  RteInv'
<1>1. csr' \in Csrs
  BY SetMie DEF RteInv, RteTypeOK, neorv32_rte_setup
<1>2. lut' \in [TrapCodes -> RteHandlers] /\ LutInv'
  BY DEF neorv32_rte_setup, LutInv, RteHandlers
<1> QED
  BY <1>1, <1>2, AppKeeps DEF neorv32_rte_setup

(* A handler goes where its code is valid. *)
LEMMA Keeps_install ==
  ASSUME RteInv, neorv32_rte_handler_install
  PROVE  RteInv'
<1>1. PICK c \in Causes \cup {"INVALID"}, h \in {"emulate_unaligned_lw", "user"} :
        (h = "emulate_unaligned_lw" <=> c = "L_MISALIGNED") /\ lut' = withHandler(c, h)
  BY DEF neorv32_rte_handler_install
<1>2. lut' \in [TrapCodes -> RteHandlers] /\ LutInv'
  BY <1>1 DEF withHandler, RteInv, RteTypeOK, LutInv, RteHandlers
<1>3. csr' \in Csrs
  BY DEF RteInv, RteTypeOK, neorv32_rte_handler_install
<1> QED
  BY <1>2, <1>3, AppKeeps DEF neorv32_rte_handler_install

(* neorv32_rte_handler_uninstall keeps the invariant. *)
LEMMA Keeps_uninstall ==
  ASSUME RteInv, neorv32_rte_handler_uninstall
  PROVE  RteInv'
<1>1. PICK c \in Causes \cup {"INVALID"} : lut' = withHandler(c, "panic")
  BY DEF neorv32_rte_handler_uninstall
<1>2. lut' \in [TrapCodes -> RteHandlers] /\ LutInv'
  BY <1>1 DEF withHandler, RteInv, RteTypeOK, LutInv, RteHandlers
<1>3. csr' \in Csrs
  BY DEF RteInv, RteTypeOK, neorv32_rte_handler_uninstall
<1> QED
  BY <1>2, <1>3, AppKeeps DEF neorv32_rte_handler_uninstall

(* Enabling an interrupt keeps the invariant. *)
LEMMA Keeps_enable ==
  ASSUME RteInv, EnableIrq
  PROVE  RteInv'
<1>1. PICK c \in Causes \cap Interrupts : csr' = [csr EXCEPT !.mie = csr.mie \cup {c}]
  BY DEF EnableIrq
<1>2. csr \in Csrs /\ csr.mie \cup {c} \in SUBSET TrapCodes
  BY DEF RteInv, RteTypeOK, Csrs, TrapCodes
<1>3. csr' \in Csrs
  BY <1>1, <1>2, SetMie
<1>4. lut' \in [TrapCodes -> RteHandlers] /\ LutInv'
  BY DEF RteInv, RteTypeOK, LutInv, EnableIrq
<1> QED
  BY <1>3, <1>4, AppKeeps DEF EnableIrq

(* The hart records the program it interrupts. *)
LEMMA TrapRaised ==
  ASSUME RteInv, NEW cause \in TrapCodes, NEW ti \in Inst, raiseTrap(cause, ti),
         cause = "L_MISALIGNED" => CanRead(rf[ti.load.rs1] + ti.load.imm)
  PROVE  RteInv'
<1> DEFINE a == [csr EXCEPT !.mcause = cause]
           b == [a EXCEPT !.mepc = pc]
           d == [b EXCEPT !.mtinst = ti]
<1>1. csr' = d
  BY DEF raiseTrap
<1>2. csr \in Csrs /\ pc \in Nat
  BY DEF RteInv, RteTypeOK
<1>3. a \in Csrs /\ a.mcause = cause
  BY <1>2, SetCause
<1> HIDE DEF a
<1>4. b \in Csrs /\ b.mcause = cause /\ b.mepc = pc
  BY <1>2, <1>3, SetPc
<1> HIDE DEF b
<1>5. d \in Csrs /\ d.mcause = cause /\ d.mepc = pc /\ d.mtinst = ti
  BY <1>4, SetInst
<1> HIDE DEF d
<1>6. /\ before'.rf = rf /\ before'.pc = pc /\ before'.cause = cause /\ before'.inst = ti
      /\ before' \in [rf : [Reg -> Nat], pc : Nat, cause : TrapCodes, inst : Inst]
  BY DEF raiseTrap, RteInv, RteTypeOK
<1>7. RteTypeOK'
  BY <1>1, <1>5, <1>6 DEF RteInv, RteTypeOK, raiseTrap, Modes
<1>8. Recorded'
  BY <1>1, <1>5, <1>6 DEF Recorded, RteInv, raiseTrap, CanRead
<1> QED
  BY <1>1, <1>5, <1>6, <1>7, <1>8 DEF RteInv, LutInv, raiseTrap, RteHandlers

(* Trap entry keeps the invariant. *)
LEMMA Keeps_trap ==
  ASSUME RteInv, TakeTrap
  PROVE  RteInv'
<1>1. PICK c \in Causes :
        IF c = "L_MISALIGNED"
        THEN \E i \in Loads : /\ (rf[i.rs1] + i.imm) % WordBytes # 0
                              /\ CanRead(rf[i.rs1] + i.imm)
                              /\ raiseTrap(c, [load |-> i, compressed |-> FALSE])
        ELSE \E z \in BOOLEAN : raiseTrap(c, [load |-> NoLoad, compressed |-> z])
  BY DEF TakeTrap
<1>2. c \in TrapCodes
  BY RteAssumption
<1>3. CASE c = "L_MISALIGNED"
  <2>1. PICK i \in Loads : /\ CanRead(rf[i.rs1] + i.imm)
                           /\ raiseTrap(c, [load |-> i, compressed |-> FALSE])
    BY <1>1, <1>3
  <2> DEFINE ti == [load |-> i, compressed |-> FALSE]
  <2>2. ti \in Inst /\ ti.load = i
    BY DEF Inst
  <2> HIDE DEF ti
  <2>3. raiseTrap(c, ti)
    BY <2>1 DEF ti
  <2> QED
    BY <1>2, <2>1, <2>2, <2>3, TrapRaised
<1>4. CASE c # "L_MISALIGNED"
  <2>1. PICK z \in BOOLEAN : raiseTrap(c, [load |-> NoLoad, compressed |-> z])
    BY <1>1, <1>4
  <2>2. [load |-> NoLoad, compressed |-> z] \in Inst
    BY DEF Inst, Loads, NoLoad, Reg, sp
  <2> QED
    BY <1>2, <1>4, <2>1, <2>2, TrapRaised
<1> QED
  BY <1>3, <1>4

-----------------------------------------------------------------------------
(* The core and the handlers. *)

(* The frame takes the registers of the program. *)
LEMMA Keeps_enter ==
  ASSUME RteInv, CoreEnter
  PROVE  RteInv'
<1>1. /\ rf = before.rf /\ rf[sp] = StackTop /\ rf[0] = 0 /\ csr.mepc = before.pc
      /\ Recorded /\ rf \in [Reg -> Nat] /\ csr \in Csrs
  BY DEF RteInv, RteTypeOK, CoreEnter, Recorded
<1>2. csr' = [csr EXCEPT !.mscratch = Frame]
  BY <1>1 DEF CoreEnter, saveContext, Frame
<1>3. /\ csr' \in Csrs /\ csr'.mscratch = Frame /\ csr'.mcause = csr.mcause
      /\ csr'.mepc = csr.mepc /\ csr'.mtinst = csr.mtinst
  BY <1>1, <1>2, FrameInStack, SetScratch
<1>4. rf' \in [Reg -> Nat] /\ rf'[sp] = Frame /\ rf'[0] = 0
  BY <1>1, FrameInStack DEF CoreEnter, saveContext, Frame, Reg, sp
<1>5. stack' = [a \in 0 .. StackTop |->
                  IF a \in Frame + 1 .. Frame + FrameSize - 1 THEN rf[a - Frame] ELSE stack[a]]
  BY <1>1 DEF CoreEnter, saveContext, Frame, RteInv, RteTypeOK
<1>6. stack' \in [0 .. StackTop -> Nat]
  <2> SUFFICES ASSUME NEW a \in 0 .. StackTop
               PROVE  (IF a \in Frame + 1 .. Frame + FrameSize - 1 THEN rf[a - Frame]
                       ELSE stack[a]) \in Nat
    BY <1>5
  <2>1. CASE a \in Frame + 1 .. Frame + FrameSize - 1
    <3>1. a - Frame \in Reg
      BY <2>1, FrameInStack DEF Reg, FrameSize
    <3> QED
      BY <1>1, <2>1, <3>1
  <2>2. CASE a \notin Frame + 1 .. Frame + FrameSize - 1
    BY <2>2 DEF RteInv, RteTypeOK
  <2> QED
    BY <2>1, <2>2
<1>7. ASSUME NEW x \in Saved PROVE stack'[Frame + x] = before'.rf[x]
  <2>1. /\ Frame + x \in 0 .. StackTop /\ Frame + x \in Frame + 1 .. Frame + FrameSize - 1
        /\ (Frame + x) - Frame = x
    BY FrameInStack DEF Saved, FrameSize
  <2>2. stack'[Frame + x] = rf[x]
    BY <1>5, <2>1
  <2> QED
    BY <1>1, <2>2 DEF CoreEnter
<1>8. mode' = lut[before.cause] /\ lut[before.cause] \in RteHandlers
  BY <1>1 DEF CoreEnter, RteInv, RteTypeOK, Recorded
<1>9. RteTypeOK'
  BY <1>3, <1>4, <1>6, <1>8 DEF RteInv, RteTypeOK, CoreEnter, Modes
<1>10. Recorded' /\ InCore'
  BY <1>1, <1>3, <1>4 DEF Recorded, InCore, Frame, CoreEnter, CanRead
<1> QED
  BY <1>4, <1>7, <1>8, <1>9, <1>10 DEF RteInv, LutInv, CoreEnter, RteHandlers

(* A handler may leave anything in the registers but sp. *)
LEMMA Clobbers ==
  ASSUME RteInv, rf' = Clobbered
  PROVE  rf' \in [Reg -> Nat] /\ rf'[0] = 0 /\ rf'[sp] = rf[sp]
BY DEF Clobbered, RteInv, RteTypeOK, Reg, sp

(* What a handler has to do for the core to resume the program: leave in   *)
(* the frame what the program is to find.                                  *)
LEMMA HandlerDone ==
  ASSUME RteInv, mode \in RteHandlers, mode' \in {"core_exit", "panic_halt"}, rf' = Clobbered,
         csr' \in Csrs, UNCHANGED <<csr.mcause, csr.mepc, csr.mscratch, csr.mtinst>>,
         stack' \in [0 .. StackTop -> Nat],
         \A x \in Saved : stack'[Frame + x] = Result(x),
         UNCHANGED <<lut, pc, before>>
  PROVE  RteInv'
<1>1. rf' \in [Reg -> Nat] /\ rf'[0] = 0 /\ rf'[sp] = rf[sp]
  BY Clobbers
<1>2. RteTypeOK'
  BY <1>1 DEF RteInv, RteTypeOK, Modes
<1>3. Recorded /\ InCore
  BY DEF RteInv, RteHandlers
<1>4. Recorded' /\ InCore'
  BY <1>1, <1>3 DEF Recorded, InCore, Frame, CanRead
<1>5. \A x \in Saved : Result(x)' = Result(x)
  BY DEF Result, Emulated, DataWord
<1> QED
  BY <1>1, <1>2, <1>4, <1>5 DEF RteInv, LutInv, RteHandlers

(* The panic handler keeps the invariant. *)
LEMMA Keeps_panic ==
  ASSUME RteInv, rte_panic
  PROVE  RteInv'
<1>1. mode = "panic" /\ lut[before.cause] = "panic"
  BY DEF RteInv, rte_panic, RteHandlers
<1>2. \A x \in Saved : stack[Frame + x] = Result(x)
  BY <1>1 DEF RteInv, Result, Emulated, RteHandlers
<1>3. /\ csr' \in Csrs /\ csr'.mcause = csr.mcause /\ csr'.mepc = csr.mepc
      /\ csr'.mscratch = csr.mscratch /\ csr'.mtinst = csr.mtinst
  <2>1. csr \in Csrs /\ csr.mie \ {csr.mcause} \in SUBSET TrapCodes
    BY DEF RteInv, RteTypeOK, Csrs
  <2>2. CASE csr.mcause \in Interrupts
    <3>1. csr' = [csr EXCEPT !.mie = csr.mie \ {csr.mcause}]
      BY <2>2 DEF rte_panic
    <3> QED
      BY <2>1, <3>1, SetMie
  <2>3. CASE csr.mcause \notin Interrupts
    BY <2>1, <2>3 DEF rte_panic
  <2> QED
    BY <2>2, <2>3
<1>4. stack' \in [0 .. StackTop -> Nat] /\ stack' = stack
  BY DEF RteInv, RteTypeOK, rte_panic
<1>5. mode' \in {"core_exit", "panic_halt"} /\ mode \in RteHandlers
  BY DEF rte_panic, RteHandlers
<1> QED
  BY <1>2, <1>3, <1>4, <1>5, HandlerDone DEF rte_panic

(* A user handler keeps the invariant. *)
LEMMA Keeps_user ==
  ASSUME RteInv, UserHandler
  PROVE  RteInv'
<1>1. mode = "user" /\ lut[before.cause] = "user" /\ before.cause \in TrapCodes
  BY DEF RteInv, RteTypeOK, UserHandler, RteHandlers
<1>2. before.cause # "L_MISALIGNED"
  BY <1>1 DEF RteInv, LutInv
<1>3. \A x \in Saved : stack[Frame + x] = Result(x)
  BY <1>1, <1>2 DEF RteInv, Result, Emulated, RteHandlers
<1>4. stack' \in [0 .. StackTop -> Nat] /\ csr' \in Csrs
  BY DEF RteInv, RteTypeOK, UserHandler
<1>5. mode' \in {"core_exit", "panic_halt"} /\ mode \in RteHandlers
  BY DEF UserHandler, RteHandlers
<1> QED
  BY <1>3, <1>4, <1>5, HandlerDone DEF UserHandler

(* The emulated load finds its base in the frame and leaves the word there. *)
LEMMA Keeps_emulate ==
  ASSUME RteInv, trap_handler_emulate_unaligned_lw
  PROVE  RteInv'
<1> DEFINE i == before.inst.load
           w == DataWord(before.rf[i.rs1] + i.imm)
<1>1. /\ mode = "emulate_unaligned_lw" /\ lut[before.cause] = "emulate_unaligned_lw"
      /\ before.cause \in TrapCodes /\ InCore /\ Recorded
      /\ \A x \in Saved : stack[Frame + x] = before.rf[x]
  BY DEF RteInv, RteTypeOK, trap_handler_emulate_unaligned_lw, RteHandlers
<1>2. before.cause = "L_MISALIGNED" /\ (Emulated <=> i.lw)
  BY <1>1 DEF RteInv, LutInv, Emulated
<1>3. i \in Loads /\ before.rf \in [Reg -> Nat] /\ csr.mtinst.load = i /\ csr.mscratch = Frame
  BY <1>1 DEF RteInv, RteTypeOK, Inst, Recorded, InCore
<1>4. i.rs1 \in {3, 4} /\ i.imm \in 0 .. 1 /\ i.rd \in Reg /\ i.rd # sp /\ i.lw \in BOOLEAN
  BY <1>3 DEF Loads
<1>5. w \in Nat
  <2>1. before.rf[i.rs1] + i.imm \in Nat
    BY <1>3, <1>4 DEF Reg
  <2>2. CanRead(before.rf[i.rs1] + i.imm)
    BY <1>1, <1>2 DEF Recorded
  <2> QED
    BY <2>1, <2>2, WordIsNat
<1>6. neorv32_rte_context_get(i.rs1) = before.rf[i.rs1]
  BY <1>1, <1>3, <1>4 DEF neorv32_rte_context_get, Saved, FrameSize
<1> HIDE DEF i
<1>7. stack' = IF ~i.lw THEN stack ELSE neorv32_rte_context_put(i.rd, w)
  BY <1>3, <1>6 DEF trap_handler_emulate_unaligned_lw
<1> HIDE DEF w
<1>8. stack \in [0 .. StackTop -> Nat]
  BY DEF RteInv, RteTypeOK
<1>9. stack' \in [0 .. StackTop -> Nat]
  BY <1>3, <1>5, <1>7, <1>8 DEF neorv32_rte_context_put
<1>10. ASSUME NEW x \in Saved PROVE stack'[Frame + x] = Result(x)
  <2>1. Result(x) = IF i.lw /\ x = i.rd /\ x # 0 THEN w ELSE before.rf[x]
    BY <1>2 DEF Result, i, w
  <2>2. x # 0 /\ Frame + x \in 0 .. StackTop /\ stack[Frame + x] = before.rf[x]
    BY <1>1, FrameInStack DEF Saved, FrameSize
  <2>3. CASE ~i.lw \/ i.rd = 0
    BY <1>7, <2>1, <2>2, <2>3 DEF neorv32_rte_context_put
  <2>4. CASE i.lw /\ i.rd # 0
    <3>1. stack' = [stack EXCEPT ![Frame + i.rd] = w]
      BY <1>3, <1>7, <2>4 DEF neorv32_rte_context_put
    <3>2. Frame + x = Frame + i.rd <=> x = i.rd
      BY <1>4, FrameInStack DEF Saved, FrameSize, Reg
    <3> QED
      BY <1>8, <2>1, <2>2, <2>4, <3>1, <3>2
  <2> QED
    BY <1>4, <2>3, <2>4
<1>11. csr' \in Csrs /\ mode' \in {"core_exit", "panic_halt"} /\ mode \in RteHandlers
  BY DEF RteInv, RteTypeOK, trap_handler_emulate_unaligned_lw, RteHandlers
<1> QED
  BY <1>9, <1>10, <1>11, HandlerDone DEF trap_handler_emulate_unaligned_lw

(* The registers come back from the frame, sp with the rest.               *)
LEMMA Keeps_exit ==
  ASSUME RteInv, CoreExit
  PROVE  RteInv'
<1>1. /\ mode = "core_exit" /\ InCore /\ Recorded
      /\ \A x \in Saved : stack[Frame + x] = Result(x)
      /\ before.rf \in [Reg -> Nat] /\ csr \in Csrs /\ csr.mtinst.compressed \in BOOLEAN
      /\ before.pc \in Nat
  BY DEF RteInv, RteTypeOK, CoreExit, Csrs, Inst
<1>2. rf' = [x \in Reg |-> IF x = 0 THEN 0 ELSE stack[Frame + x]]
  BY <1>1 DEF CoreExit, restoreContext, InCore
<1>3. \A x \in Reg : rf'[x] = Result(x)
  <2> SUFFICES ASSUME NEW x \in Reg PROVE rf'[x] = Result(x)
    OBVIOUS
  <2>1. CASE x = 0
    BY <1>1, <1>2, <2>1 DEF Result, Recorded
  <2>2. CASE x # 0
    BY <1>1, <1>2, <2>2 DEF Reg, Saved, FrameSize
  <2> QED
    BY <2>1, <2>2
<1>4. rf' \in [Reg -> Nat]
  BY <1>2, FrameInStack DEF RteInv, RteTypeOK, Reg, Saved, FrameSize
<1>5. rf'[0] = 0 /\ rf'[sp] = StackTop
  <2>1. before.inst.load.rd # sp
    BY DEF RteInv, RteTypeOK, Inst, Loads
  <2> QED
    BY <1>1, <1>3, <2>1 DEF Result, Recorded, Reg, sp
<1>6. pc' \in Nat /\ pc' = IF before.cause \in Interrupts THEN before.pc
                           ELSE before.pc + IF before.inst.compressed THEN 2 ELSE 4
  BY <1>1 DEF CoreExit, resumeAddress, Recorded, InCore
<1>7. /\ csr' \in Csrs /\ csr'.mcause = csr.mcause /\ csr'.mtinst = csr.mtinst
  BY <1>1, <1>6, SetPc DEF CoreExit
<1>8. RteTypeOK'
  BY <1>4, <1>6, <1>7 DEF RteInv, RteTypeOK, CoreExit, Modes
<1>9. Recorded'
  BY <1>1, <1>7 DEF Recorded, CoreExit, CanRead
<1>10. TrapTransparent'
  BY <1>3, <1>6 DEF TrapTransparent, Result, Emulated, CoreExit, DataWord
<1> QED
  BY <1>5, <1>8, <1>9, <1>10 DEF RteInv, LutInv, CoreExit, RteHandlers

(* Every line of neorv32_rte_core keeps the invariant. *)
LEMMA Keeps_proceed ==
  ASSUME RteInv, Proceed
  PROVE  RteInv'
<1>1. rf \in [Reg -> Nat] /\ before.rf \in [Reg -> Nat] /\ rf[sp] = StackTop /\ rf[0] = 0
  BY DEF RteInv, RteTypeOK, Proceed
<1>2. Len(DataBlock) \in Nat \ {0}
  BY RteAssumption DEF WordBytes
<1>3. before.rf[4] \in Nat /\ (before.rf[3] + 1) % Len(DataBlock) \in Nat
  <2>1. before.rf[4] \in Nat /\ before.rf[3] + 1 \in Nat
    BY <1>1 DEF Reg
  <2> QED
    BY <1>2, <2>1, WrapIsNat
<1>4. rf' \in [Reg -> Nat] /\ rf'[0] = 0 /\ rf'[sp] = StackTop
  <2> DEFINE u == before.rf[4]
             v == (before.rf[3] + 1) % Len(DataBlock)
             g == [rf EXCEPT ![3] = u]
             h == [g EXCEPT ![4] = v]
  <2>1. rf' = h /\ u \in Nat /\ v \in Nat
    BY <1>3 DEF Proceed
  <2> HIDE DEF u, v
  <2>2. g \in [Reg -> Nat] /\ g[0] = 0 /\ g[sp] = StackTop
    BY <1>1, <2>1 DEF Reg, sp
  <2> HIDE DEF g
  <2>3. h \in [Reg -> Nat] /\ h[0] = 0 /\ h[sp] = StackTop
    BY <2>1, <2>2 DEF Reg, sp
  <2> QED
    BY <2>1, <2>3
<1>5. pc' \in Nat
  BY DEF Proceed, MaxPc, RteInv, RteTypeOK
<1>6. RteTypeOK'
  BY <1>4, <1>5 DEF RteInv, RteTypeOK, Proceed, Modes
<1> QED
  BY <1>4, <1>6 DEF RteInv, LutInv, Proceed, RteHandlers

-----------------------------------------------------------------------------
(* The invariant, from the start of the application on. *)
LEMMA RteStarts == RteInit => RteInv
<1> SUFFICES ASSUME RteInit PROVE RteInv
  OBVIOUS
<1>1. NoLoad \in Loads
  BY DEF NoLoad, Loads, Reg, sp
<1>2. rf \in [Reg -> Nat] /\ rf[0] = 0 /\ rf[sp] = StackTop
  BY FrameInStack DEF RteInit, Reg, sp
<1>3. csr \in Csrs /\ csr.mtinst \in Inst
  BY <1>1 DEF RteInit, Csrs, Inst, TrapCodes
<1>4. RteTypeOK
  BY <1>2, <1>3, FrameInStack DEF RteInit, RteTypeOK, Modes, RteHandlers, TrapCodes
<1> QED
  BY <1>2, <1>4 DEF RteInit, RteInv, LutInv, RteHandlers

(* No step of the application, the hart, the core or a handler breaks it. *)
LEMMA RteInductive == RteInv /\ [RteNext]_rteVars => RteInv'
<1> SUFFICES ASSUME RteInv, [RteNext]_rteVars PROVE RteInv'
  OBVIOUS
<1>1. CASE UNCHANGED rteVars
  BY <1>1 DEF rteVars, RteInv, RteTypeOK, LutInv, Recorded, InCore, Result, Emulated, DataWord,
              TrapTransparent, CanRead
<1>2. CASE RteNext
  BY <1>2, Keeps_setup, Keeps_install, Keeps_uninstall, Keeps_enable, Keeps_trap, Keeps_enter,
     Keeps_panic, Keeps_user, Keeps_emulate, Keeps_exit, Keeps_proceed DEF RteNext
<1> QED
  BY <1>1, <1>2

(* So it holds in every state. *)
LEMMA RteInvariant == RteSpec => []RteInv
BY RteStarts, RteInductive, PTL DEF RteSpec

(* The vector table has a handler for every cause, the frame lies in the   *)
(* stack, and registers, memory and CSRs keep their types.                 *)
THEOREM RteTypeCorrect == RteSpec => []RteTypeOK
BY RteInvariant, PTL DEF RteInv

(* Whatever handlers are installed, whatever they leave in the registers   *)
(* and whichever load is emulated, the trapped program finds its registers *)
(* and goes on where it has to (__neorv32_rte_core, context_put).          *)
THEOREM RteTrapTransparent == RteSpec => []TrapTransparent
<1>1. RteInv => TrapTransparent
  BY DEF RteInv, TrapTransparent
<1> QED
  BY <1>1, RteInvariant, PTL

-----------------------------------------------------------------------------
(* The dual-core demo *)

Handlers == {"mtmi", "mswi", "ecall", "panic"}
Demo == {"app_main"} \cup Handlers
Routines == {"main", "launch_failed", "crt0", "smp_wakeup", "halt"} \cup Demo

LengthOf(r) == CASE r = "main" -> 15 [] r = "app_main" -> 16 [] r = "crt0" -> 5
                 [] r = "smp_wakeup" -> 5 [] r = "mtmi" -> 6 [] r = "mswi" -> 5
                 [] r = "ecall" -> 4 [] r = "panic" -> 4 [] r = "halt" -> 1
                 [] r = "launch_failed" -> 2

Place == [in : Routines, pos : Nat]
Csr == [mie : SUBSET TrapOf, enabled : BOOLEAN,
        mtvec : {"crt0_panic", "rte_core", "smp_wakeup"}, mcause : TrapOf]
Images == {"crt0", "app_main"}

DualTypeOK ==
  /\ loc \in [Core -> Place]
  /\ resume \in [Core -> [to : Place, enabled : BOOLEAN]]
  /\ hartCsr \in [Core -> Csr]
  /\ regs \in [Core -> [sp : Nat, entry : Images]]
  /\ mailbox \in [lo : Nat, hi : Images]
  /\ msi \in [Core -> BOOLEAN] /\ due \in [Core -> BOOLEAN] /\ irqsLeft \in [Core -> Nat]
  /\ table \in [TrapOf -> Handlers]
  /\ locked \in BOOLEAN /\ polls \in Nat

In(c, r) == loc[c].in = r
Is(c, r, k) == loc[c].in = r /\ loc[c].pos = k
InDemo(c) == loc[c].in \in Demo

(* Where a hart can be, with interrupts on only in a sleep loop; what it   *)
(* has set up by then; and where a handler returns to.                     *)
HartInv(c) ==
  /\ loc[c].pos \in 1 .. LengthOf(loc[c].in)
  /\ hartCsr[c].enabled => Is(c, "app_main", 16) \/ Is(c, "crt0", 5)
  /\ In(c, "crt0") /\ loc[c].pos >= 3 => hartCsr[c].mtvec = "smp_wakeup"
  /\ In(c, "crt0") /\ loc[c].pos >= 4 => hartCsr[c].mie = {"MSI"}
  /\ In(c, "app_main") /\ loc[c].pos >= 2 => hartCsr[c].mtvec = "rte_core"
  /\ loc[c].in \in Handlers =>
       /\ hartCsr[c].mtvec = "rte_core"
       /\ resume[c].to.in = "app_main"
       /\ \/ resume[c].to.pos = 16
          \/ resume[c].to.pos = 15 /\ ~resume[c].enabled

(* Core 0 never runs the start-up code of the others, and from each        *)
(* installation on it finds its handler in the table.                      *)
Past(k) == (In(0, "app_main") /\ loc[0].pos > k) \/ loc[0].in \in Handlers
TableInv ==
  /\ loc[0].in \notin {"crt0", "smp_wakeup", "panic"}
  /\ loc[1].in \notin {"main", "launch_failed", "halt"}
  /\ Past(9) => table["MTI"] = "mtmi"
  /\ Past(11) => table["MSI"] = "mswi"
  /\ Past(13) => table["MENV_CALL"] = "ecall"

(* Exactly the hart between lock and unlock has the lock. *)
Holds(c) ==
  \/ Is(c, "app_main", 6) \/ Is(c, "app_main", 7)
  \/ loc[c].in \in Handlers \ {"panic"} /\ loc[c].pos \in 2 .. 3
LockInv ==
  /\ locked <=> Holds(0) \/ Holds(1)
  /\ ~(Holds(0) /\ Holds(1))

(* Core 1 waits for its order, or is about to start over. *)
Waits == In(1, "crt0") \/ (Is(1, "smp_wakeup", 5) /\ regs[1].entry = "crt0")
(* Core 1 takes the order to run image: it has not acknowledged yet. *)
Takes(image) ==
  In(1, "smp_wakeup") /\ loc[1].pos < 5 /\ (loc[1].pos = 4 => regs[1].entry = image)
(* Core 1 has the order to run the demo. *)
Runs1 == InDemo(1) \/ (Is(1, "smp_wakeup", 5) /\ regs[1].entry = "app_main")

(* What the steps of neorv32_smp_launch on core 0 mean for core 1. *)
LaunchInv ==
  /\ In(0, "main") /\ loc[0].pos <= 9 => ~msi[1] /\ In(1, "crt0")
  /\ In(0, "main") /\ loc[0].pos \in 9 .. 10 => mailbox.hi = "crt0"
  /\ Is(0, "main", 10) => IF msi[1] THEN In(1, "crt0") \/ Takes("crt0") ELSE Waits
  /\ In(0, "main") /\ loc[0].pos \in 11 .. 13 => ~msi[1] /\ Waits
  /\ In(0, "main") /\ loc[0].pos \in 13 .. 14 => mailbox.hi = "app_main"
  /\ Is(0, "main", 14) => IF msi[1] THEN Waits \/ Takes("app_main") ELSE Runs1
  /\ Is(0, "main", 15) => Runs1
  /\ InDemo(0) => Runs1

(* The stack that core 1 gets. *)
StackInv ==
  /\ ~(In(0, "main") /\ loc[0].pos <= 7) => mailbox.lo = stack_top
  /\ (In(1, "smp_wakeup") /\ loc[1].pos >= 3) \/ InDemo(1) => regs[1].sp = stack_top

DualInv ==
  /\ DualTypeOK
  /\ \A c \in Core : HartInv(c)
  /\ TableInv /\ LockInv /\ LaunchInv /\ StackInv

-----------------------------------------------------------------------------
(* The listings of the routines, as the places of a hart see them. *)
LEMMA MainListing ==
  /\ Code["main"][1] = <<"csr_setup">> /\ Code["main"][2] = <<"default", "MSI">>
  /\ Code["main"][3] = <<"default", "MTI">> /\ Code["main"][4] = <<"default", "MENV_CALL">>
  /\ Code["main"][5] = <<"print">> /\ Code["main"][6] = <<"print">>
  /\ Code["main"][7] = <<"post_stack">> /\ Code["main"][8] = <<"post_entry", "crt0">>
  /\ Code["main"][9] = <<"raise_msi">> /\ Code["main"][10] = <<"poll">>
  /\ Code["main"][11] = <<"post_stack">> /\ Code["main"][12] = <<"post_entry", "app_main">>
  /\ Code["main"][13] = <<"raise_msi">> /\ Code["main"][14] = <<"poll">>
  /\ Code["main"][15] = <<"call", "app_main">>
BY DEF Code, main, rte_setup, smp_launch, smp_boot

(* app_main: set-up, a message, the handlers, interrupts on, sleep. *)
LEMMA AppListing ==
  /\ Code["app_main"][1] = <<"csr_setup">> /\ Code["app_main"][2] = <<"default", "MSI">>
  /\ Code["app_main"][3] = <<"default", "MTI">>
  /\ Code["app_main"][4] = <<"default", "MENV_CALL">> /\ Code["app_main"][5] = <<"lock">>
  /\ Code["app_main"][6] = <<"print">> /\ Code["app_main"][7] = <<"unlock">>
  /\ Code["app_main"][8] = <<"timer_now">> /\ Code["app_main"][9] = <<"install", "MTI", "mtmi">>
  /\ Code["app_main"][10] = <<"enable", "MTI">>
  /\ Code["app_main"][11] = <<"install", "MSI", "mswi">>
  /\ Code["app_main"][12] = <<"enable", "MSI">>
  /\ Code["app_main"][13] = <<"install", "MENV_CALL", "ecall">>
  /\ Code["app_main"][14] = <<"ecall">> /\ Code["app_main"][15] = <<"irq_on">>
  /\ Code["app_main"][16] = <<"sleep">>
BY DEF Code, app_main, rte_setup, Console

(* crt0 of core 1. *)
LEMMA StartListing ==
  /\ Code["crt0"][1] = <<"reset">> /\ Code["crt0"][2] = <<"vector", "smp_wakeup">>
  /\ Code["crt0"][3] = <<"only_msi">> /\ Code["crt0"][4] = <<"irq_on">>
  /\ Code["crt0"][5] = <<"sleep">>
BY DEF Code, crt0

(* smp_wakeup of crt0.S. *)
LEMMA WakeupListing ==
  /\ Code["smp_wakeup"][1] = <<"vector", "crt0_panic">> /\ Code["smp_wakeup"][2] = <<"load_sp">>
  /\ Code["smp_wakeup"][3] = <<"load_entry">> /\ Code["smp_wakeup"][4] = <<"ack">>
  /\ Code["smp_wakeup"][5] = <<"jump">>
BY DEF Code, smp_wakeup

(* trap_handler_mtmi. *)
LEMMA TimerListing ==
  /\ Code["mtmi"][1] = <<"lock">> /\ Code["mtmi"][2] = <<"print">>
  /\ Code["mtmi"][3] = <<"unlock">> /\ Code["mtmi"][4] = <<"timer_next">>
  /\ Code["mtmi"][5] = <<"msi_other">> /\ Code["mtmi"][6] = <<"mret">>
BY DEF Code, trap_handler_mtmi, Console

(* trap_handler_mswi. *)
LEMMA SoftwareListing ==
  /\ Code["mswi"][1] = <<"lock">> /\ Code["mswi"][2] = <<"print">>
  /\ Code["mswi"][3] = <<"unlock">> /\ Code["mswi"][4] = <<"msi_own">>
  /\ Code["mswi"][5] = <<"mret">>
BY DEF Code, trap_handler_mswi, Console

(* trap_handler_ecall. *)
LEMMA EcallListing ==
  /\ Code["ecall"][1] = <<"lock">> /\ Code["ecall"][2] = <<"print">>
  /\ Code["ecall"][3] = <<"unlock">> /\ Code["ecall"][4] = <<"mret">>
BY DEF Code, trap_handler_ecall, Console

(* The default handler. *)
LEMMA PanicListing ==
  /\ Code["panic"][1] = <<"print">> /\ Code["panic"][2] = <<"disable">>
  /\ Code["panic"][3] = <<"print">> /\ Code["panic"][4] = <<"mret">>
BY DEF Code, rte_panic_routine

(* main after a failed launch, and the end of a hart without a handler. *)
LEMMA HaltListing ==
  /\ Code["launch_failed"][1] = <<"print">> /\ Code["launch_failed"][2] = <<"halted">>
  /\ Code["halt"][1] = <<"halted">>
BY DEF Code, launch_failed

(* Where each instruction occurs, and with which operand. *)
Op(r, k) == Code[r][k][1]
Arg(r, k) == Code[r][k][2]
Speaking == {"mtmi", "mswi", "ecall"}

(* Where the instructions that matter stand in the routines. *)
LEMMA Occurrences ==
  ASSUME NEW r \in Routines, NEW k \in 1 .. LengthOf(r)
  PROVE  /\ Op(r, k) = "csr_setup" => k = 1 /\ r \in {"main", "app_main"}
         /\ Op(r, k) = "default" =>
              r \in {"main", "app_main"} /\ k \in {2, 3, 4} /\ Arg(r, k) \in TrapOf
         /\ Op(r, k) = "post_stack" => r = "main" /\ k \in {7, 11}
         /\ Op(r, k) = "post_entry" =>
              r = "main" /\ ((k = 8 /\ Arg(r, k) = "crt0") \/ (k = 12 /\ Arg(r, k) = "app_main"))
         /\ Op(r, k) = "raise_msi" => r = "main" /\ k \in {9, 13}
         /\ Op(r, k) = "poll" => r = "main" /\ k \in {10, 14}
         /\ Op(r, k) = "call" => r = "main" /\ k = 15 /\ Arg(r, k) = "app_main"
         /\ Op(r, k) = "lock" => (r = "app_main" /\ k = 5) \/ (r \in Speaking /\ k = 1)
         /\ Op(r, k) = "print" =>
              \/ (r = "app_main" /\ k = 6) \/ (r \in Speaking /\ k = 2)
              \/ (r = "main" /\ k \in {5, 6}) \/ (r = "launch_failed" /\ k = 1)
              \/ (r = "panic" /\ k \in {1, 3})
         /\ Op(r, k) = "unlock" => (r = "app_main" /\ k = 7) \/ (r \in Speaking /\ k = 3)
         /\ Op(r, k) = "timer_now" => r = "app_main" /\ k = 8
         /\ Op(r, k) = "timer_next" => r = "mtmi" /\ k = 4
         /\ Op(r, k) = "msi_other" => r = "mtmi" /\ k = 5
         /\ Op(r, k) = "msi_own" => r = "mswi" /\ k = 4
         /\ Op(r, k) = "install" =>
              /\ r = "app_main"
              /\ \/ k = 9 /\ Arg(r, k) = "MTI" /\ Code[r][k][3] = "mtmi"
                 \/ k = 11 /\ Arg(r, k) = "MSI" /\ Code[r][k][3] = "mswi"
                 \/ k = 13 /\ Arg(r, k) = "MENV_CALL" /\ Code[r][k][3] = "ecall"
         /\ Op(r, k) = "enable" => r = "app_main" /\ k \in {10, 12} /\ Arg(r, k) \in TrapOf
         /\ Op(r, k) = "ecall" => r = "app_main" /\ k = 14
         /\ Op(r, k) = "irq_on" => (r = "app_main" /\ k = 15) \/ (r = "crt0" /\ k = 4)
         /\ Op(r, k) = "reset" => r = "crt0" /\ k = 1
         /\ Op(r, k) = "vector" =>
              \/ r = "crt0" /\ k = 2 /\ Arg(r, k) = "smp_wakeup"
              \/ r = "smp_wakeup" /\ k = 1 /\ Arg(r, k) = "crt0_panic"
         /\ Op(r, k) = "only_msi" => r = "crt0" /\ k = 3
         /\ Op(r, k) = "load_sp" => r = "smp_wakeup" /\ k = 2
         /\ Op(r, k) = "load_entry" => r = "smp_wakeup" /\ k = 3
         /\ Op(r, k) = "ack" => r = "smp_wakeup" /\ k = 4
         /\ Op(r, k) = "jump" => r = "smp_wakeup" /\ k = 5
         /\ Op(r, k) = "disable" => r = "panic" /\ k = 2
         /\ Op(r, k) = "mret" => r \in Handlers /\ k > 3
<1>1. CASE r = "main"
  BY <1>1, MainListing, SMTT(60) DEF Op, Arg, TrapOf, LengthOf
<1>2. CASE r = "app_main"
  BY <1>2, AppListing, SMTT(60) DEF Op, Arg, TrapOf, LengthOf
<1>3. CASE r = "crt0"
  BY <1>3, StartListing DEF Op, Arg, TrapOf, LengthOf
<1>4. CASE r = "smp_wakeup"
  BY <1>4, WakeupListing DEF Op, Arg, TrapOf, LengthOf
<1>5. CASE r = "mtmi"
  BY <1>5, TimerListing DEF Op, Arg, TrapOf, LengthOf, Speaking, Handlers
<1>6. CASE r = "mswi"
  BY <1>6, SoftwareListing DEF Op, Arg, TrapOf, LengthOf, Speaking, Handlers
<1>7. CASE r = "ecall"
  BY <1>7, EcallListing DEF Op, Arg, TrapOf, LengthOf, Speaking, Handlers
<1>8. CASE r = "panic"
  BY <1>8, PanicListing DEF Op, Arg, TrapOf, LengthOf, Handlers
<1>9. CASE r = "halt"
  BY <1>9, HaltListing DEF Op, Arg, TrapOf, LengthOf
<1>10. CASE r = "launch_failed"
  BY <1>10, HaltListing DEF Op, Arg, TrapOf, LengthOf
<1> QED
  BY <1>1, <1>2, <1>3, <1>4, <1>5, <1>6, <1>7, <1>8, <1>9, <1>10 DEF Routines, Demo, Handlers

-----------------------------------------------------------------------------
(* One step of a hart. *)

(* The instruction of a hart is the one its listing has at its place. *)
LEMMA Here ==
  ASSUME NEW c \in Core, DualTypeOK, HartInv(c)
  PROVE  /\ loc[c].in \in Routines /\ loc[c].pos \in 1 .. LengthOf(loc[c].in)
         /\ Insn(c)[1] = Op(loc[c].in, loc[c].pos)
         /\ Insn(c)[2] = Arg(loc[c].in, loc[c].pos)
         /\ Insn(c)[3] = Code[loc[c].in][loc[c].pos][3]
BY DEF DualTypeOK, HartInv, Place, Insn, Op, Arg

(* Moving a hart leaves the other one where it is. *)
LEMMA Moved ==
  ASSUME NEW c \in Core, DualTypeOK, NEW p \in Place, Go(c, p)
  PROVE  /\ loc' \in [Core -> Place]
         /\ loc'[c].in = p.in /\ loc'[c].pos = p.pos
         /\ \A d \in Core : d # c => loc'[d] = loc[d]
BY DEF DualTypeOK, Go

(* A step goes to the next place of the routine. *)
LEMMA Stepped ==
  ASSUME NEW c \in Core, DualTypeOK, Step(c)
  PROVE  /\ loc' \in [Core -> Place]
         /\ loc'[c].in = loc[c].in /\ loc'[c].pos = loc[c].pos + 1
         /\ \A d \in Core : d # c => loc'[d] = loc[d]
<1>1. loc[c] \in Place
  BY DEF DualTypeOK
<1>2. After(loc[c]) \in Place /\ After(loc[c]).in = loc[c].in /\ After(loc[c]).pos = loc[c].pos + 1
  BY <1>1 DEF After, Place
<1> QED
  BY <1>2, Moved DEF Step

(* A call starts a routine at its first place. *)
LEMMA Entered ==
  ASSUME NEW r \in Routines
  PROVE  Entry(r) \in Place /\ Entry(r).in = r /\ Entry(r).pos = 1
BY DEF Entry, Place

(* A step that does not touch a hart keeps what is said of that hart. *)
LEMMA Unmoved ==
  ASSUME NEW d \in Core, HartInv(d),
         loc'[d] = loc[d], hartCsr'[d] = hartCsr[d], resume'[d] = resume[d]
  PROVE  HartInv(d)'
BY DEF HartInv, In, Is

(* Rounding the end of the stack down keeps it in the array, because the   *)
(* array is aligned and has room for a frame.                              *)
LEMMA TopOfStack ==
  /\ stack_top \in Nat /\ stack_top % 16 = 0
  /\ StackBase <= stack_top /\ stack_top < StackBase + StackSize
BY DualCoreAssumption DEF stack_top

(* Core 0 resets the table before it installs its handlers. *)
LEMMA Keeps_default ==
  ASSUME NEW c \in Core, DualInv, default(c)
  PROVE  DualInv'
<1>1. loc[c].in \in {"main", "app_main"} /\ loc[c].pos \in {2, 3, 4} /\ Insn(c)[2] \in TrapOf
  BY Here, Occurrences DEF default, At, DualInv
<1>2. /\ loc' \in [Core -> Place]
      /\ loc'[c].in = loc[c].in /\ loc'[c].pos = loc[c].pos + 1
      /\ \A d \in Core : d # c => loc'[d] = loc[d]
  BY Stepped DEF default, DualInv
<1>3. DualTypeOK'
  BY <1>1, <1>2 DEF DualInv, DualTypeOK, default, Handlers
<1>4. ASSUME NEW d \in Core PROVE HartInv(d)'
  <2>1. CASE d = c
    BY <1>1, <1>2, <2>1 DEF DualInv, DualTypeOK, HartInv, In, Is, LengthOf, Handlers,
                            Speaking, default
  <2>2. CASE d # c
    BY <1>1, <1>2, <2>2, Unmoved DEF DualInv, default
  <2> QED
    BY <2>1, <2>2
<1>5. TableInv'
  BY <1>1, <1>2 DEF DualInv, DualTypeOK, TableInv, Past, In, Core, Handlers, Speaking, default
<1>6. LockInv'
  BY <1>1, <1>2 DEF DualInv, DualTypeOK, LockInv, Holds, Is, Core, Handlers, Speaking, default
<1>7. LaunchInv'
  BY <1>1, <1>2 DEF DualInv, DualTypeOK, TableInv, LaunchInv, In, Is, Waits, Takes, Runs1,
                    InDemo, Demo, Core, Handlers, Speaking, default
<1>8. StackInv'
  BY <1>1, <1>2 DEF DualInv, DualTypeOK, TableInv, StackInv, In, InDemo, Demo, Core,
                    Handlers, Speaking, default
<1> QED
  BY <1>3, <1>4, <1>5, <1>6, <1>7, <1>8 DEF DualInv

(* Both cores install the same handlers. *)
LEMMA Keeps_handler_install ==
  ASSUME NEW c \in Core, DualInv, handler_install(c)
  PROVE  DualInv'
<1>1. /\ loc[c].in = "app_main"
      /\ \/ loc[c].pos = 9 /\ Insn(c)[2] = "MTI" /\ Insn(c)[3] = "mtmi"
         \/ loc[c].pos = 11 /\ Insn(c)[2] = "MSI" /\ Insn(c)[3] = "mswi"
         \/ loc[c].pos = 13 /\ Insn(c)[2] = "MENV_CALL" /\ Insn(c)[3] = "ecall"
  BY Here, Occurrences DEF handler_install, At, DualInv
<1>2. /\ loc' \in [Core -> Place]
      /\ loc'[c].in = loc[c].in /\ loc'[c].pos = loc[c].pos + 1
      /\ \A d \in Core : d # c => loc'[d] = loc[d]
  BY Stepped DEF handler_install, DualInv
<1>3. DualTypeOK'
  BY <1>1, <1>2 DEF DualInv, DualTypeOK, handler_install, Handlers, TrapOf
<1>4. ASSUME NEW d \in Core PROVE HartInv(d)'
  <2>1. CASE d = c
    BY <1>1, <1>2, <2>1 DEF DualInv, DualTypeOK, HartInv, In, Is, LengthOf, Handlers,
                            Speaking, handler_install
  <2>2. CASE d # c
    BY <1>1, <1>2, <2>2, Unmoved DEF DualInv, handler_install
  <2> QED
    BY <2>1, <2>2
<1>5. TableInv'
  BY <1>1, <1>2 DEF DualInv, DualTypeOK, TableInv, Past, In, Core, Handlers, Speaking,
                    handler_install, TrapOf
<1>6. LockInv'
  BY <1>1, <1>2 DEF DualInv, DualTypeOK, LockInv, Holds, Is, Core, Handlers, Speaking,
                    handler_install
<1>7. LaunchInv'
  BY <1>1, <1>2 DEF DualInv, DualTypeOK, TableInv, LaunchInv, In, Is, Waits, Takes, Runs1,
                    InDemo, Demo, Core, Handlers, Speaking, handler_install
<1>8. StackInv'
  BY <1>1, <1>2 DEF DualInv, DualTypeOK, TableInv, StackInv, In, InDemo, Demo, Core,
                    Handlers, Speaking, handler_install
<1> QED
  BY <1>3, <1>4, <1>5, <1>6, <1>7, <1>8 DEF DualInv

(* Core 1 finds the stack of the launch in the mailbox. *)
LEMMA Keeps_load_sp ==
  ASSUME NEW c \in Core, DualInv, load_sp(c)
  PROVE  DualInv'
<1>1. loc[c].in = "smp_wakeup" /\ loc[c].pos = 2
  BY Here, Occurrences DEF load_sp, At, DualInv
<1>2. /\ loc' \in [Core -> Place]
      /\ loc'[c].in = loc[c].in /\ loc'[c].pos = loc[c].pos + 1
      /\ \A d \in Core : d # c => loc'[d] = loc[d]
  BY Stepped DEF load_sp, DualInv
<1>3. DualTypeOK'
  BY <1>1, <1>2 DEF DualInv, DualTypeOK, load_sp
<1>4. ASSUME NEW d \in Core PROVE HartInv(d)'
  <2>1. CASE d = c
    BY <1>1, <1>2, <2>1 DEF DualInv, DualTypeOK, HartInv, In, Is, LengthOf, Handlers,
                            Speaking, load_sp
  <2>2. CASE d # c
    BY <1>1, <1>2, <2>2, Unmoved DEF DualInv, load_sp
  <2> QED
    BY <2>1, <2>2
<1>5. TableInv'
  BY <1>1, <1>2 DEF DualInv, DualTypeOK, TableInv, Past, In, Core, Handlers, Speaking, load_sp
<1>6. LockInv'
  BY <1>1, <1>2 DEF DualInv, DualTypeOK, LockInv, Holds, Is, Core, Handlers, Speaking, load_sp
<1>7. LaunchInv'
  BY <1>1, <1>2 DEF DualInv, DualTypeOK, TableInv, LaunchInv, In, Is, Waits, Takes, Runs1,
                    InDemo, Demo, Core, Handlers, Speaking, load_sp
<1>8. StackInv'
  <2>1. c = 1 /\ In(1, "smp_wakeup")
    BY <1>1 DEF DualInv, TableInv, Core, In
  <2>2. ~(In(0, "main") /\ loc[0].pos <= 7)
    BY <2>1 DEF DualInv, DualTypeOK, LaunchInv, In, Core, Place
  <2>3. regs'[1].sp = stack_top
    BY <2>1, <2>2 DEF DualInv, DualTypeOK, StackInv, load_sp, Core
  <2>4. mailbox' = mailbox /\ loc'[0] = loc[0]
    BY <2>1, <1>2 DEF load_sp, Core
  <2> QED
    BY <2>2, <2>3, <2>4 DEF DualInv, StackInv, In
<1> QED
  BY <1>3, <1>4, <1>5, <1>6, <1>7, <1>8 DEF DualInv

(* The entry point is the one of the order that core 1 takes. *)
LEMMA Keeps_load_entry ==
  ASSUME NEW c \in Core, DualInv, load_entry(c)
  PROVE  DualInv'
<1>1. loc[c].in = "smp_wakeup" /\ loc[c].pos = 3
  BY Here, Occurrences DEF load_entry, At, DualInv
<1>2. /\ loc' \in [Core -> Place]
      /\ loc'[c].in = loc[c].in /\ loc'[c].pos = loc[c].pos + 1
      /\ \A d \in Core : d # c => loc'[d] = loc[d]
  BY Stepped DEF load_entry, DualInv
<1>3. DualTypeOK'
  BY <1>1, <1>2 DEF DualInv, DualTypeOK, load_entry
<1>4. ASSUME NEW d \in Core PROVE HartInv(d)'
  <2>1. CASE d = c
    BY <1>1, <1>2, <2>1 DEF DualInv, DualTypeOK, HartInv, In, Is, LengthOf, Handlers,
                            Speaking, load_entry
  <2>2. CASE d # c
    BY <1>1, <1>2, <2>2, Unmoved DEF DualInv, load_entry
  <2> QED
    BY <2>1, <2>2
<1>5. TableInv'
  BY <1>1, <1>2 DEF DualInv, DualTypeOK, TableInv, Past, In, Core, Handlers, Speaking,
                    load_entry
<1>6. LockInv'
  BY <1>1, <1>2 DEF DualInv, DualTypeOK, LockInv, Holds, Is, Core, Handlers, Speaking,
                    load_entry
<1>7. LaunchInv'
  BY <1>1, <1>2 DEF DualInv, DualTypeOK, TableInv, LaunchInv, In, Is, Waits, Takes, Runs1,
                    InDemo, Demo, Core, Handlers, Speaking, load_entry
<1>8. StackInv'
  BY <1>1, <1>2 DEF DualInv, DualTypeOK, TableInv, StackInv, In, InDemo, Demo, Core,
                    Handlers, Speaking, load_entry
<1> QED
  BY <1>3, <1>4, <1>5, <1>6, <1>7, <1>8 DEF DualInv

(* The acknowledgement ends the order. *)
LEMMA Keeps_ack ==
  ASSUME NEW c \in Core, DualInv, ack(c)
  PROVE  DualInv'
<1>1. loc[c].in = "smp_wakeup" /\ loc[c].pos = 4
  BY Here, Occurrences DEF ack, At, DualInv
<1>2. /\ loc' \in [Core -> Place]
      /\ loc'[c].in = loc[c].in /\ loc'[c].pos = loc[c].pos + 1
      /\ \A d \in Core : d # c => loc'[d] = loc[d]
  BY Stepped DEF ack, DualInv
<1>3. DualTypeOK'
  BY <1>1, <1>2 DEF DualInv, DualTypeOK, ack
<1>4. ASSUME NEW d \in Core PROVE HartInv(d)'
  <2>1. CASE d = c
    BY <1>1, <1>2, <2>1 DEF DualInv, DualTypeOK, HartInv, In, Is, LengthOf, Handlers,
                            Speaking, ack
  <2>2. CASE d # c
    BY <1>1, <1>2, <2>2, Unmoved DEF DualInv, ack
  <2> QED
    BY <2>1, <2>2
<1>5. TableInv'
  BY <1>1, <1>2 DEF DualInv, DualTypeOK, TableInv, Past, In, Core, Handlers, Speaking, ack
<1>6. LockInv'
  BY <1>1, <1>2 DEF DualInv, DualTypeOK, LockInv, Holds, Is, Core, Handlers, Speaking, ack
<1>7. LaunchInv'
  BY <1>1, <1>2 DEF DualInv, DualTypeOK, TableInv, LaunchInv, In, Is, Waits, Takes, Runs1,
                    InDemo, Demo, Core, Handlers, Speaking, ack
<1>8. StackInv'
  BY <1>1, <1>2 DEF DualInv, DualTypeOK, TableInv, StackInv, In, InDemo, Demo, Core,
                    Handlers, Speaking, ack
<1> QED
  BY <1>3, <1>4, <1>5, <1>6, <1>7, <1>8 DEF DualInv

(* The order goes out when its entry point is in the mailbox. *)
LEMMA Keeps_raise_msi ==
  ASSUME NEW c \in Core, DualInv, raise_msi(c)
  PROVE  DualInv'
<1>1. loc[c].in = "main" /\ loc[c].pos \in {9, 13}
  BY Here, Occurrences DEF raise_msi, At, DualInv
<1>2. /\ loc' \in [Core -> Place]
      /\ loc'[c].in = loc[c].in /\ loc'[c].pos = loc[c].pos + 1
      /\ \A d \in Core : d # c => loc'[d] = loc[d]
  BY Stepped DEF raise_msi, DualInv
<1>3. DualTypeOK'
  BY <1>1, <1>2, DualCoreAssumption DEF DualInv, DualTypeOK, raise_msi
<1>4. ASSUME NEW d \in Core PROVE HartInv(d)'
  <2>1. CASE d = c
    BY <1>1, <1>2, <2>1 DEF DualInv, DualTypeOK, HartInv, In, Is, LengthOf, Handlers,
                            Speaking, raise_msi
  <2>2. CASE d # c
    BY <1>1, <1>2, <2>2, Unmoved DEF DualInv, raise_msi
  <2> QED
    BY <2>1, <2>2
<1>5. TableInv'
  BY <1>1, <1>2 DEF DualInv, DualTypeOK, TableInv, Past, In, Core, Handlers, Speaking, raise_msi
<1>6. LockInv'
  BY <1>1, <1>2 DEF DualInv, DualTypeOK, LockInv, Holds, Is, Core, Handlers, Speaking, raise_msi
<1>7. LaunchInv'
  BY <1>1, <1>2 DEF DualInv, DualTypeOK, TableInv, LaunchInv, In, Is, Waits, Takes, Runs1,
                    InDemo, Demo, Core, Handlers, Speaking, raise_msi
<1>8. StackInv'
  BY <1>1, <1>2 DEF DualInv, DualTypeOK, TableInv, StackInv, In, InDemo, Demo, Core,
                    Handlers, Speaking, raise_msi
<1> QED
  BY <1>3, <1>4, <1>5, <1>6, <1>7, <1>8 DEF DualInv

(* The mailbox is written while core 1 waits. *)
LEMMA Keeps_post ==
  ASSUME NEW c \in Core, DualInv, post(c)
  PROVE  DualInv'
<1>1. /\ loc[c].in = "main"
      /\ \/ loc[c].pos \in {7, 11} /\ mailbox' = [mailbox EXCEPT !.lo = stack_top]
         \/ loc[c].pos = 8 /\ mailbox' = [mailbox EXCEPT !.hi = "crt0"]
         \/ loc[c].pos = 12 /\ mailbox' = [mailbox EXCEPT !.hi = "app_main"]
  BY Here, Occurrences DEF post, At, DualInv
<1>2. /\ loc' \in [Core -> Place]
      /\ loc'[c].in = loc[c].in /\ loc'[c].pos = loc[c].pos + 1
      /\ \A d \in Core : d # c => loc'[d] = loc[d]
  BY Stepped DEF post, DualInv
<1>3. DualTypeOK'
  BY <1>1, <1>2, TopOfStack DEF DualInv, DualTypeOK, post, Images
<1>4. ASSUME NEW d \in Core PROVE HartInv(d)'
  <2>1. CASE d = c
    BY <1>1, <1>2, <2>1 DEF DualInv, DualTypeOK, HartInv, In, Is, LengthOf, Handlers,
                            Speaking, post
  <2>2. CASE d # c
    BY <1>1, <1>2, <2>2, Unmoved DEF DualInv, post
  <2> QED
    BY <2>1, <2>2
<1>5. TableInv'
  BY <1>1, <1>2 DEF DualInv, DualTypeOK, TableInv, Past, In, Core, Handlers, Speaking, post
<1>6. LockInv'
  BY <1>1, <1>2 DEF DualInv, DualTypeOK, LockInv, Holds, Is, Core, Handlers, Speaking, post
<1>7. LaunchInv'
  BY <1>1, <1>2 DEF DualInv, DualTypeOK, TableInv, LaunchInv, In, Is, Waits, Takes, Runs1,
                    InDemo, Demo, Core, Handlers, Speaking, post
<1>8. StackInv'
  BY <1>1, <1>2 DEF DualInv, DualTypeOK, TableInv, StackInv, In, InDemo, Demo, Core,
                    Handlers, Speaking, post
<1> QED
  BY <1>3, <1>4, <1>5, <1>6, <1>7, <1>8 DEF DualInv

(* Only a hart that finds the lock free goes on. *)
LEMMA Keeps_spin_lock ==
  ASSUME NEW c \in Core, DualInv, spin_lock(c)
  PROVE  DualInv'
<1>1. (loc[c].in = "app_main" /\ loc[c].pos = 5) \/ (loc[c].in \in Speaking /\ loc[c].pos = 1)
  BY Here, Occurrences DEF spin_lock, At, DualInv
<1>2. /\ loc' \in [Core -> Place]
      /\ loc'[c].in = loc[c].in /\ loc'[c].pos = loc[c].pos + 1
      /\ \A d \in Core : d # c => loc'[d] = loc[d]
  BY Stepped DEF spin_lock, DualInv
<1>3. DualTypeOK'
  BY <1>1, <1>2 DEF DualInv, DualTypeOK, spin_lock
<1>4. ASSUME NEW d \in Core PROVE HartInv(d)'
  <2>1. CASE d = c
    BY <1>1, <1>2, <2>1 DEF DualInv, DualTypeOK, HartInv, In, Is, LengthOf, Handlers,
                            Speaking, spin_lock
  <2>2. CASE d # c
    BY <1>1, <1>2, <2>2, Unmoved DEF DualInv, spin_lock
  <2> QED
    BY <2>1, <2>2
<1>5. TableInv'
  BY <1>1, <1>2 DEF DualInv, DualTypeOK, TableInv, Past, In, Core, Handlers, Speaking, spin_lock
<1>6. LockInv'
  BY <1>1, <1>2 DEF DualInv, DualTypeOK, LockInv, Holds, Is, Core, Handlers, Speaking, spin_lock
<1>7. LaunchInv'
  BY <1>1, <1>2 DEF DualInv, DualTypeOK, TableInv, LaunchInv, In, Is, Waits, Takes, Runs1,
                    InDemo, Demo, Core, Handlers, Speaking, spin_lock
<1>8. StackInv'
  BY <1>1, <1>2 DEF DualInv, DualTypeOK, TableInv, StackInv, In, InDemo, Demo, Core,
                    Handlers, Speaking, spin_lock
<1> QED
  BY <1>3, <1>4, <1>5, <1>6, <1>7, <1>8 DEF DualInv

(* A message moves the hart only: the holder keeps the lock while it prints, *)
(* and the messages of main and of the panic handler do not touch it.        *)
LEMMA Keeps_print ==
  ASSUME NEW c \in Core, DualInv, print(c)
  PROVE  DualInv'
<1>1. \/ (loc[c].in = "app_main" /\ loc[c].pos = 6) \/ (loc[c].in \in Speaking /\ loc[c].pos = 2)
      \/ (loc[c].in = "main" /\ loc[c].pos \in {5, 6})
      \/ (loc[c].in = "launch_failed" /\ loc[c].pos = 1)
      \/ (loc[c].in = "panic" /\ loc[c].pos \in {1, 3})
  BY Here, Occurrences DEF print, At, DualInv
<1>2. /\ loc' \in [Core -> Place]
      /\ loc'[c].in = loc[c].in /\ loc'[c].pos = loc[c].pos + 1
      /\ \A d \in Core : d # c => loc'[d] = loc[d]
  BY Stepped DEF print, DualInv
<1>3. DualTypeOK'
  BY <1>1, <1>2 DEF DualInv, DualTypeOK, print
<1>4. ASSUME NEW d \in Core PROVE HartInv(d)'
  <2>1. CASE d = c
    BY <1>1, <1>2, <2>1 DEF DualInv, DualTypeOK, HartInv, In, Is, LengthOf, Handlers,
                            Speaking, print
  <2>2. CASE d # c
    BY <1>1, <1>2, <2>2, Unmoved DEF DualInv, print
  <2> QED
    BY <2>1, <2>2
<1>5. TableInv'
  BY <1>1, <1>2 DEF DualInv, DualTypeOK, TableInv, Past, In, Core, Handlers, Speaking, print
<1>6. LockInv'
  BY <1>1, <1>2 DEF DualInv, DualTypeOK, LockInv, Holds, Is, Core, Handlers, Speaking, print
<1>7. LaunchInv'
  BY <1>1, <1>2 DEF DualInv, DualTypeOK, TableInv, LaunchInv, In, Is, Waits, Takes, Runs1,
                    InDemo, Demo, Core, Handlers, Speaking, print
<1>8. StackInv'
  BY <1>1, <1>2 DEF DualInv, DualTypeOK, TableInv, StackInv, In, InDemo, Demo, Core,
                    Handlers, Speaking, print
<1> QED
  BY <1>3, <1>4, <1>5, <1>6, <1>7, <1>8 DEF DualInv

(* The holder, and nobody else, gives the lock back. *)
LEMMA Keeps_spin_unlock ==
  ASSUME NEW c \in Core, DualInv, spin_unlock(c)
  PROVE  DualInv'
<1>1. (loc[c].in = "app_main" /\ loc[c].pos = 7) \/ (loc[c].in \in Speaking /\ loc[c].pos = 3)
  BY Here, Occurrences DEF spin_unlock, At, DualInv
<1>2. /\ loc' \in [Core -> Place]
      /\ loc'[c].in = loc[c].in /\ loc'[c].pos = loc[c].pos + 1
      /\ \A d \in Core : d # c => loc'[d] = loc[d]
  BY Stepped DEF spin_unlock, DualInv
<1>3. DualTypeOK'
  BY <1>1, <1>2 DEF DualInv, DualTypeOK, spin_unlock
<1>4. ASSUME NEW d \in Core PROVE HartInv(d)'
  <2>1. CASE d = c
    BY <1>1, <1>2, <2>1 DEF DualInv, DualTypeOK, HartInv, In, Is, LengthOf, Handlers,
                            Speaking, spin_unlock
  <2>2. CASE d # c
    BY <1>1, <1>2, <2>2, Unmoved DEF DualInv, spin_unlock
  <2> QED
    BY <2>1, <2>2
<1>5. TableInv'
  BY <1>1, <1>2 DEF DualInv, DualTypeOK, TableInv, Past, In, Core, Handlers, Speaking,
                    spin_unlock
<1>6. LockInv'
  BY <1>1, <1>2 DEF DualInv, DualTypeOK, LockInv, Holds, Is, Core, Handlers, Speaking,
                    spin_unlock
<1>7. LaunchInv'
  BY <1>1, <1>2 DEF DualInv, DualTypeOK, TableInv, LaunchInv, In, Is, Waits, Takes, Runs1,
                    InDemo, Demo, Core, Handlers, Speaking, spin_unlock
<1>8. StackInv'
  BY <1>1, <1>2 DEF DualInv, DualTypeOK, TableInv, StackInv, In, InDemo, Demo, Core,
                    Handlers, Speaking, spin_unlock
<1> QED
  BY <1>3, <1>4, <1>5, <1>6, <1>7, <1>8 DEF DualInv

(* The timer is no part of the launch any more. *)
LEMMA Keeps_mtimecmp_set ==
  ASSUME NEW c \in Core, DualInv, mtimecmp_set(c)
  PROVE  DualInv'
<1>1. (loc[c].in = "app_main" /\ loc[c].pos = 8) \/ (loc[c].in = "mtmi" /\ loc[c].pos = 4)
  BY Here, Occurrences DEF mtimecmp_set, At, DualInv
<1>2. /\ loc' \in [Core -> Place]
      /\ loc'[c].in = loc[c].in /\ loc'[c].pos = loc[c].pos + 1
      /\ \A d \in Core : d # c => loc'[d] = loc[d]
  BY Stepped DEF mtimecmp_set, DualInv
<1>3. DualTypeOK'
  BY <1>1, <1>2 DEF DualInv, DualTypeOK, mtimecmp_set
<1>4. ASSUME NEW d \in Core PROVE HartInv(d)'
  <2>1. CASE d = c
    BY <1>1, <1>2, <2>1 DEF DualInv, DualTypeOK, HartInv, In, Is, LengthOf, Handlers,
                            Speaking, mtimecmp_set
  <2>2. CASE d # c
    BY <1>1, <1>2, <2>2, Unmoved DEF DualInv, mtimecmp_set
  <2> QED
    BY <2>1, <2>2
<1>5. TableInv'
  BY <1>1, <1>2 DEF DualInv, DualTypeOK, TableInv, Past, In, Core, Handlers, Speaking,
                    mtimecmp_set
<1>6. LockInv'
  BY <1>1, <1>2 DEF DualInv, DualTypeOK, LockInv, Holds, Is, Core, Handlers, Speaking,
                    mtimecmp_set
<1>7. LaunchInv'
  BY <1>1, <1>2 DEF DualInv, DualTypeOK, TableInv, LaunchInv, In, Is, Waits, Takes, Runs1,
                    InDemo, Demo, Core, Handlers, Speaking, mtimecmp_set
<1>8. StackInv'
  BY <1>1, <1>2 DEF DualInv, DualTypeOK, TableInv, StackInv, In, InDemo, Demo, Core,
                    Handlers, Speaking, mtimecmp_set
<1> QED
  BY <1>3, <1>4, <1>5, <1>6, <1>7, <1>8 DEF DualInv

(* The software interrupts of the demo come after the launch. *)
LEMMA Keeps_msi_access ==
  ASSUME NEW c \in Core, DualInv, msi_access(c)
  PROVE  DualInv'
<1>1. (loc[c].in = "mtmi" /\ loc[c].pos = 5) \/ (loc[c].in = "mswi" /\ loc[c].pos = 4)
  BY Here, Occurrences DEF msi_access, At, DualInv
<1>2. /\ loc' \in [Core -> Place]
      /\ loc'[c].in = loc[c].in /\ loc'[c].pos = loc[c].pos + 1
      /\ \A d \in Core : d # c => loc'[d] = loc[d]
  BY Stepped DEF msi_access, DualInv
<1>3. DualTypeOK'
  BY <1>1, <1>2 DEF DualInv, DualTypeOK, msi_access
<1>4. ASSUME NEW d \in Core PROVE HartInv(d)'
  <2>1. CASE d = c
    BY <1>1, <1>2, <2>1 DEF DualInv, DualTypeOK, HartInv, In, Is, LengthOf, Handlers,
                            Speaking, msi_access
  <2>2. CASE d # c
    BY <1>1, <1>2, <2>2, Unmoved DEF DualInv, msi_access
  <2> QED
    BY <2>1, <2>2
<1>5. TableInv'
  BY <1>1, <1>2 DEF DualInv, DualTypeOK, TableInv, Past, In, Core, Handlers, Speaking,
                    msi_access
<1>6. LockInv'
  BY <1>1, <1>2 DEF DualInv, DualTypeOK, LockInv, Holds, Is, Core, Handlers, Speaking,
                    msi_access
<1>7. LaunchInv'
  BY <1>1, <1>2 DEF DualInv, DualTypeOK, TableInv, LaunchInv, In, Is, Waits, Takes, Runs1,
                    InDemo, Demo, Core, Handlers, Speaking, msi_access
<1>8. StackInv'
  BY <1>1, <1>2 DEF DualInv, DualTypeOK, TableInv, StackInv, In, InDemo, Demo, Core,
                    Handlers, Speaking, msi_access
<1> QED
  BY <1>3, <1>4, <1>5, <1>6, <1>7, <1>8 DEF DualInv

(* The set-up of the runtime environment turns interrupts off.             *)
LEMMA Keeps_csr_setup ==
  ASSUME NEW c \in Core, DualInv, csr_setup(c)
  PROVE  DualInv'
<1>1. loc[c].in \in {"main", "app_main"} /\ loc[c].pos = 1
  BY Here, Occurrences DEF csr_setup, At, DualInv
<1>2. /\ loc' \in [Core -> Place]
      /\ loc'[c].in = loc[c].in /\ loc'[c].pos = loc[c].pos + 1
      /\ \A d \in Core : d # c => loc'[d] = loc[d]
  BY Stepped DEF csr_setup, DualInv
<1>3. /\ hartCsr' \in [Core -> Csr]
      /\ ~hartCsr'[c].enabled /\ hartCsr'[c].mtvec = "rte_core"
      /\ \A d \in Core : d # c => hartCsr'[d] = hartCsr[d]
  <2> DEFINE a == [hartCsr EXCEPT ![c].mie = {}]
             b == [a EXCEPT ![c].enabled = FALSE]
             e == [b EXCEPT ![c].mtvec = "rte_core"]
  <2>1. hartCsr' = e
    BY DEF csr_setup
  <2>2. hartCsr \in [Core -> Csr]
    BY DEF DualInv, DualTypeOK
  <2>3. a \in [Core -> Csr] /\ \A d \in Core : d # c => a[d] = hartCsr[d]
    BY <2>2 DEF Csr
  <2> HIDE DEF a
  <2>4. b \in [Core -> Csr] /\ b[c].enabled = FALSE /\ \A d \in Core : d # c => b[d] = a[d]
    BY <2>3 DEF Csr
  <2> HIDE DEF b
  <2>5. /\ e \in [Core -> Csr] /\ e[c].mtvec = "rte_core" /\ e[c].enabled = b[c].enabled
        /\ \A d \in Core : d # c => e[d] = b[d]
    BY <2>4 DEF Csr
  <2> HIDE DEF e
  <2> QED
    BY <2>1, <2>3, <2>4, <2>5
<1>4. DualTypeOK'
  BY <1>2, <1>3 DEF DualInv, DualTypeOK, csr_setup
<1>5. ASSUME NEW d \in Core PROVE HartInv(d)'
  <2>1. CASE d = c
    BY <1>1, <1>2, <1>3, <2>1 DEF HartInv, In, Is, LengthOf, Handlers
  <2>2. CASE d # c
    BY <1>2, <1>3, <2>2, Unmoved DEF DualInv, csr_setup
  <2> QED
    BY <2>1, <2>2
<1>6. TableInv'
  BY <1>1, <1>2 DEF DualInv, DualTypeOK, TableInv, Past, In, Core, Handlers, csr_setup
<1>7. LockInv'
  BY <1>1, <1>2 DEF DualInv, DualTypeOK, LockInv, Holds, Is, Core, Handlers, csr_setup
<1>8. LaunchInv'
  BY <1>1, <1>2 DEF DualInv, DualTypeOK, TableInv, LaunchInv, In, Is, Waits, Takes, Runs1,
                    InDemo, Demo, Core, Handlers, csr_setup
<1>9. StackInv'
  BY <1>1, <1>2 DEF DualInv, DualTypeOK, TableInv, StackInv, In, InDemo, Demo, Core, Handlers,
                    csr_setup
<1> QED
  BY <1>4, <1>5, <1>6, <1>7, <1>8, <1>9 DEF DualInv

(* Interrupts are turned on last, before a sleep loop, when the vector and *)
(* the interrupts that may wake the hart are set.                          *)
LEMMA Keeps_CsrStep ==
  ASSUME NEW c \in Core, DualInv, CsrStep(c)
  PROVE  DualInv'
<1>1. \/ At(c, "enable") /\ loc[c].in = "app_main" /\ loc[c].pos \in {10, 12} /\ Insn(c)[2] \in TrapOf
      \/ At(c, "disable") /\ loc[c].in = "panic" /\ loc[c].pos = 2
      \/ At(c, "irq_on") /\ loc[c].in = "app_main" /\ loc[c].pos = 15
      \/ At(c, "irq_on") /\ loc[c].in = "crt0" /\ loc[c].pos = 4
      \/ At(c, "vector") /\ loc[c].in = "crt0" /\ loc[c].pos = 2 /\ Insn(c)[2] = "smp_wakeup"
      \/ At(c, "vector") /\ loc[c].in = "smp_wakeup" /\ loc[c].pos = 1 /\ Insn(c)[2] = "crt0_panic"
      \/ At(c, "only_msi") /\ loc[c].in = "crt0" /\ loc[c].pos = 3
      \/ At(c, "reset") /\ loc[c].in = "crt0" /\ loc[c].pos = 1
  BY Here, Occurrences DEF CsrStep, At, DualInv
<1>2. /\ loc' \in [Core -> Place]
      /\ loc'[c].in = loc[c].in /\ loc'[c].pos = loc[c].pos + 1
      /\ \A d \in Core : d # c => loc'[d] = loc[d]
  BY Stepped DEF CsrStep, DualInv
<1>3. /\ hartCsr \in [Core -> Csr] /\ hartCsr[c] \in Csr
      /\ \A d \in Core : d # c => hartCsr'[d] = hartCsr[d]
  BY DEF DualInv, DualTypeOK, CsrStep
<1>4. /\ hartCsr' \in [Core -> Csr]
      /\ hartCsr'[c].enabled => hartCsr[c].enabled \/ At(c, "irq_on")
      /\ At(c, "vector") \/ At(c, "reset") \/ hartCsr'[c].mtvec = hartCsr[c].mtvec
      /\ At(c, "vector") => hartCsr'[c].mtvec = Insn(c)[2]
      /\ At(c, "only_msi") => hartCsr'[c].mie = {"MSI"}
      /\ At(c, "irq_on") => hartCsr'[c].mie = hartCsr[c].mie
  <2>1. CASE At(c, "enable")
    <3>1. hartCsr' = [hartCsr EXCEPT ![c] =
                      [hartCsr[c] EXCEPT !.mie = hartCsr[c].mie \cup {Insn(c)[2]}]]
      BY <1>3, <2>1 DEF CsrStep, At
    <3>2. hartCsr[c].mie \cup {Insn(c)[2]} \in SUBSET TrapOf
      BY <1>1, <1>3, <2>1 DEF At, Csr
    <3> QED
      BY <1>3, <2>1, <3>1, <3>2 DEF At, Csr
  <2>2. CASE At(c, "disable")
    <3>1. hartCsr' = [hartCsr EXCEPT ![c] =
                      [hartCsr[c] EXCEPT !.mie = hartCsr[c].mie \ {hartCsr[c].mcause}]]
      BY <1>3, <2>2 DEF CsrStep, At
    <3>2. hartCsr[c].mie \ {hartCsr[c].mcause} \in SUBSET TrapOf
      BY <1>3 DEF Csr
    <3> QED
      BY <1>3, <2>2, <3>1, <3>2 DEF At, Csr
  <2>3. CASE At(c, "irq_on")
    <3>1. hartCsr' = [hartCsr EXCEPT ![c].enabled = TRUE]
      BY <2>3 DEF CsrStep, At
    <3> QED
      BY <1>3, <2>3, <3>1 DEF At, Csr
  <2>4. CASE At(c, "vector")
    <3>1. hartCsr' = [hartCsr EXCEPT ![c].mtvec = Insn(c)[2]]
      BY <2>4 DEF CsrStep, At
    <3>2. Insn(c)[2] \in {"crt0_panic", "rte_core", "smp_wakeup"}
      BY <1>1, <2>4 DEF At
    <3> QED
      BY <1>3, <2>4, <3>1, <3>2 DEF At, Csr
  <2>5. CASE At(c, "only_msi")
    <3>1. hartCsr' = [hartCsr EXCEPT ![c].mie = {"MSI"}]
      BY <2>5 DEF CsrStep, At
    <3>2. {"MSI"} \in SUBSET TrapOf
      BY DEF TrapOf
    <3> QED
      BY <1>3, <2>5, <3>1, <3>2 DEF At, Csr
  <2>6. CASE At(c, "reset")
    <3> DEFINE a == [hartCsr EXCEPT ![c].mie = {}]
               b == [a EXCEPT ![c].enabled = FALSE]
               e == [b EXCEPT ![c].mtvec = "crt0_panic"]
    <3>1. hartCsr' = e
      BY <1>3, <2>6 DEF CsrStep, At
    <3>2. a \in [Core -> Csr]
      BY <1>3 DEF Csr
    <3> HIDE DEF a
    <3>3. b \in [Core -> Csr] /\ b[c].enabled = FALSE
      BY <3>2 DEF Csr
    <3> HIDE DEF b
    <3>4. e \in [Core -> Csr] /\ e[c].enabled = b[c].enabled
      BY <3>3 DEF Csr
    <3> QED
      BY <2>6, <3>1, <3>3, <3>4 DEF At
  <2> QED
    BY <2>1, <2>2, <2>3, <2>4, <2>5, <2>6 DEF CsrStep, At
<1>5. DualTypeOK'
  BY <1>2, <1>4 DEF DualInv, DualTypeOK, CsrStep
<1>6. ASSUME NEW d \in Core PROVE HartInv(d)'
  <2>1. CASE d = c
    <3>1. HartInv(c) /\ resume' = resume
      BY DEF DualInv, CsrStep
    <3>2. CASE loc[c].in = "app_main"
      BY <1>1, <1>2, <1>4, <2>1, <3>1, <3>2 DEF HartInv, In, Is, LengthOf, Handlers, At
    <3>3. CASE loc[c].in = "crt0"
      BY <1>1, <1>2, <1>4, <2>1, <3>1, <3>3 DEF HartInv, In, Is, LengthOf, Handlers, At
    <3>4. CASE loc[c].in = "smp_wakeup"
      BY <1>1, <1>2, <1>4, <2>1, <3>1, <3>4 DEF HartInv, In, Is, LengthOf, Handlers, At
    <3>5. CASE loc[c].in = "panic"
      BY <1>1, <1>2, <1>4, <2>1, <3>1, <3>5 DEF HartInv, In, Is, LengthOf, Handlers, At
    <3> QED
      BY <1>1, <3>2, <3>3, <3>4, <3>5
  <2>2. CASE d # c
    BY <1>2, <1>3, <2>2, Unmoved DEF DualInv, CsrStep
  <2> QED
    BY <2>1, <2>2
<1>7. TableInv'
  BY <1>1, <1>2 DEF DualInv, DualTypeOK, TableInv, Past, In, Core, Handlers, CsrStep
<1>8. LockInv'
  BY <1>1, <1>2 DEF DualInv, DualTypeOK, LockInv, Holds, Is, Core, Handlers, CsrStep
<1>9. LaunchInv'
  BY <1>1, <1>2 DEF DualInv, DualTypeOK, TableInv, LaunchInv, In, Is, Waits, Takes, Runs1,
                    InDemo, Demo, Core, Handlers, CsrStep
<1>10. StackInv'
  BY <1>1, <1>2 DEF DualInv, DualTypeOK, TableInv, StackInv, In, InDemo, Demo, Core, Handlers,
                    CsrStep
<1> QED
  BY <1>5, <1>6, <1>7, <1>8, <1>9, <1>10 DEF DualInv

(* Core 1 jumps to the entry point of the order it took, on the stack that *)
(* came with it; core 0 calls app_main.                                    *)
LEMMA Keeps_jump ==
  ASSUME NEW c \in Core, DualInv, jump(c)
  PROVE  DualInv'
<1>1. \/ c = 1 /\ loc[1].in = "smp_wakeup" /\ loc[1].pos = 5 /\ Go(1, Entry(regs[1].entry))
      \/ c = 0 /\ loc[0].in = "main" /\ loc[0].pos = 15 /\ Go(0, Entry("app_main"))
  BY Here, Occurrences DEF jump, At, DualInv, TableInv, Core
<1>2. regs[1].entry \in Images /\ Images \subseteq Routines
  BY DEF DualInv, DualTypeOK, Images, Core, Routines, Demo
<1>3. /\ loc' \in [Core -> Place]
      /\ \A d \in Core : d # c => loc'[d] = loc[d]
      /\ loc'[c].pos = 1
      /\ \/ c = 1 /\ loc[1].in = "smp_wakeup" /\ loc[1].pos = 5 /\ loc'[1].in = regs[1].entry
         \/ c = 0 /\ loc[0].in = "main" /\ loc[0].pos = 15 /\ loc'[0].in = "app_main"
  <2>1. CASE c = 1
    <3>1. Entry(regs[1].entry) \in Place /\ Entry(regs[1].entry).in = regs[1].entry
          /\ Entry(regs[1].entry).pos = 1
      BY <1>2, Entered
    <3> QED
      BY <1>1, <2>1, <3>1, Moved DEF DualInv
  <2>2. CASE c = 0
    <3>1. Entry("app_main") \in Place /\ Entry("app_main").in = "app_main"
          /\ Entry("app_main").pos = 1
      BY Entered DEF Routines, Demo
    <3> QED
      BY <1>1, <2>2, <3>1, Moved DEF DualInv
  <2> QED
    BY <2>1, <2>2 DEF Core
<1>4. DualTypeOK'
  BY <1>3 DEF DualInv, DualTypeOK, jump
<1>5. ASSUME NEW d \in Core PROVE HartInv(d)'
  <2>1. CASE d = c
    <3>1. HartInv(c) /\ hartCsr' = hartCsr /\ loc'[c].in \in Images
      BY <1>2, <1>3 DEF DualInv, jump, Images
    <3> QED
      BY <1>3, <2>1, <3>1 DEF HartInv, In, Is, LengthOf, Handlers, Images
  <2>2. CASE d # c
    BY <1>3, <2>2, Unmoved DEF DualInv, jump
  <2> QED
    BY <2>1, <2>2
<1>6. TableInv'
  BY <1>2, <1>3 DEF DualInv, DualTypeOK, TableInv, Past, In, Core, Handlers, jump, Images
<1>7. LockInv'
  BY <1>2, <1>3 DEF DualInv, DualTypeOK, LockInv, Holds, Is, Core, Handlers, jump, Images
<1>8. LaunchInv'
  BY <1>2, <1>3 DEF DualInv, DualTypeOK, TableInv, LaunchInv, In, Is, Waits, Takes, Runs1,
                    InDemo, Demo, Core, Handlers, jump, Images
<1>9. StackInv'
  BY <1>2, <1>3 DEF DualInv, DualTypeOK, TableInv, StackInv, In, InDemo, Demo, Core, Handlers,
                    jump, Images
<1> QED
  BY <1>4, <1>5, <1>6, <1>7, <1>8, <1>9 DEF DualInv

(* Core 0 goes on when core 1 has acknowledged, and else gives up.         *)
LEMMA Keeps_poll ==
  ASSUME NEW c \in Core, DualInv, poll(c)
  PROVE  DualInv'
<1>1. c = 0 /\ loc[0].in = "main" /\ loc[0].pos \in {10, 14}
  BY Here, Occurrences DEF poll, At, DualInv, TableInv, Core
<1>2. /\ loc' \in [Core -> Place] /\ loc'[1] = loc[1]
      /\ \/ ~msi[1] /\ loc'[0].in = "main" /\ loc'[0].pos = loc[0].pos + 1
         \/ loc' = loc
         \/ loc'[0].in = "launch_failed" /\ loc'[0].pos = 1
  <2>1. ASSUME Step(0) PROVE loc' \in [Core -> Place] /\ loc'[1] = loc[1] /\ loc'[0].in = "main"
                             /\ loc'[0].pos = loc[0].pos + 1
    BY <1>1, <2>1, Stepped DEF DualInv, Core
  <2>2. Entry("launch_failed") \in Place /\ Entry("launch_failed").in = "launch_failed" /\ Entry("launch_failed").pos = 1
    BY Entered DEF Routines
  <2>3. ASSUME Go(0, Entry("launch_failed")) PROVE loc' \in [Core -> Place] /\ loc'[1] = loc[1]
                             /\ loc'[0].in = "launch_failed" /\ loc'[0].pos = 1
    BY <2>2, <2>3, Moved DEF DualInv, Core
  <2>4. loc \in [Core -> Place]
    BY DEF DualInv, DualTypeOK
  <2> QED
    BY <1>1, <2>1, <2>3, <2>4 DEF poll
<1>3. DualTypeOK'
  BY <1>1, <1>2 DEF DualInv, DualTypeOK, poll
<1>4. ASSUME NEW d \in Core PROVE HartInv(d)'
  <2>1. CASE d = 0
    BY <1>1, <1>2, <2>1 DEF DualInv, DualTypeOK, HartInv, In, Is, LengthOf, Handlers, Core, poll
  <2>2. CASE d # 0
    BY <1>2, <2>2, Unmoved DEF DualInv, poll, Core
  <2> QED
    BY <2>1, <2>2
<1>5. TableInv'
  BY <1>1, <1>2 DEF DualInv, DualTypeOK, TableInv, Past, In, Core, Handlers, poll
<1>6. LockInv'
  BY <1>1, <1>2 DEF DualInv, DualTypeOK, LockInv, Holds, Is, Core, Handlers, poll
<1>7. LaunchInv'
  BY <1>1, <1>2 DEF DualInv, DualTypeOK, TableInv, LaunchInv, In, Is, Waits, Takes, Runs1,
                    InDemo, Demo, Core, Handlers, poll
<1>8. StackInv'
  BY <1>1, <1>2 DEF DualInv, DualTypeOK, TableInv, StackInv, In, InDemo, Demo, Core, Handlers,
                    poll
<1> QED
  BY <1>3, <1>4, <1>5, <1>6, <1>7, <1>8 DEF DualInv

(* A trap turns interrupts off and keeps the rest of the CSRs.             *)
LEMMA TrapEntered ==
  ASSUME NEW c \in Core, DualTypeOK, NEW cause \in TrapOf, NEW back \in Place,
         EnterTrap(c, cause, back)
  PROVE  /\ hartCsr' \in [Core -> Csr] /\ ~hartCsr'[c].enabled
         /\ hartCsr'[c].mtvec = hartCsr[c].mtvec
         /\ \A d \in Core : d # c => hartCsr'[d] = hartCsr[d]
         /\ resume' \in [Core -> [to : Place, enabled : BOOLEAN]]
         /\ resume'[c].to = back /\ resume'[c].enabled = hartCsr[c].enabled
         /\ \A d \in Core : d # c => resume'[d] = resume[d]
<1> DEFINE a == [hartCsr EXCEPT ![c].enabled = FALSE]
           b == [a EXCEPT ![c].mcause = cause]
<1>1. hartCsr' = b
  BY DEF EnterTrap
<1>2. hartCsr \in [Core -> Csr] /\ hartCsr[c].enabled \in BOOLEAN
  BY DEF DualTypeOK, Csr
<1>3. /\ a \in [Core -> Csr] /\ ~a[c].enabled /\ a[c].mtvec = hartCsr[c].mtvec
      /\ \A d \in Core : d # c => a[d] = hartCsr[d]
  BY <1>2 DEF Csr
<1> HIDE DEF a
<1>4. /\ b \in [Core -> Csr] /\ b[c].enabled = a[c].enabled /\ b[c].mtvec = a[c].mtvec
      /\ \A d \in Core : d # c => b[d] = a[d]
  BY <1>3 DEF Csr
<1> HIDE DEF b
<1>5. /\ resume' \in [Core -> [to : Place, enabled : BOOLEAN]]
      /\ resume'[c].to = back /\ resume'[c].enabled = hartCsr[c].enabled
      /\ \A d \in Core : d # c => resume'[d] = resume[d]
  BY <1>2 DEF EnterTrap, DualTypeOK
<1> QED
  BY <1>1, <1>3, <1>4, <1>5

(* The demo traps outside its critical sections, with its handlers in the  *)
(* table, and with a place to come back to.                                *)
LEMMA DemoTrap ==
  ASSUME NEW c \in Core, DualInv, NEW cause \in TrapOf, NEW back \in Place,
         EnterTrap(c, cause, back), loc[c].in = "app_main", loc[c].pos \in {14, 16},
         back.in = "app_main", back.pos = 16 \/ (back.pos = 15 /\ ~hartCsr[c].enabled)
  PROVE  DualInv'
<1>1. hartCsr[c].mtvec = "rte_core"
  BY DEF DualInv, DualTypeOK, HartInv, In
<1>2. table[cause] \in Handlers /\ (c = 0 => table[cause] # "panic")
  BY DEF DualInv, DualTypeOK, TableInv, Past, In, TrapOf
<1>3. /\ loc' \in [Core -> Place] /\ loc'[c].in = table[cause] /\ loc'[c].pos = 1
      /\ \A d \in Core : d # c => loc'[d] = loc[d]
  <2>1. Entry(table[cause]) \in Place /\ Entry(table[cause]).in = table[cause]
        /\ Entry(table[cause]).pos = 1
    BY <1>2, Entered DEF Routines, Demo
  <2>2. Go(c, Entry(table[cause]))
    BY <1>1 DEF EnterTrap
  <2> QED
    BY <2>1, <2>2, Moved DEF DualInv
<1>4. /\ hartCsr' \in [Core -> Csr] /\ ~hartCsr'[c].enabled
      /\ hartCsr'[c].mtvec = "rte_core"
      /\ resume' \in [Core -> [to : Place, enabled : BOOLEAN]]
      /\ resume'[c].to = back /\ resume'[c].enabled = hartCsr[c].enabled
      /\ \A d \in Core : d # c => resume'[d] = resume[d] /\ hartCsr'[d] = hartCsr[d]
  BY <1>1, TrapEntered DEF DualInv
<1>5. DualTypeOK'
  BY <1>3, <1>4 DEF DualInv, DualTypeOK, EnterTrap
<1>6. ASSUME NEW d \in Core PROVE HartInv(d)'
  <2>1. CASE d = c
    BY <1>2, <1>3, <1>4, <2>1 DEF HartInv, In, Is, LengthOf, Handlers
  <2>2. CASE d # c
    BY <1>3, <1>4, <2>2, Unmoved DEF DualInv
  <2> QED
    BY <2>1, <2>2
<1>7. TableInv'
  BY <1>2, <1>3 DEF DualInv, DualTypeOK, TableInv, Past, In, Core, Handlers, EnterTrap
<1>8. LockInv'
  BY <1>2, <1>3 DEF DualInv, DualTypeOK, LockInv, Holds, Is, Core, Handlers, EnterTrap
<1>9. LaunchInv'
  BY <1>2, <1>3 DEF DualInv, DualTypeOK, TableInv, LaunchInv, In, Is, Waits, Takes, Runs1,
                    InDemo, Demo, Core, Handlers, EnterTrap
<1>10. StackInv'
  BY <1>2, <1>3 DEF DualInv, DualTypeOK, TableInv, StackInv, In, InDemo, Demo, Core, Handlers,
                    EnterTrap
<1> QED
  BY <1>5, <1>6, <1>7, <1>8, <1>9, <1>10 DEF DualInv

(* In crt0 only the order of core 0 wakes core 1.                          *)
LEMMA WakeupTrap ==
  ASSUME NEW c \in Core, DualInv, TakeInterrupt(c), loc[c].in = "crt0"
  PROVE  DualInv'
<1>1. c = 1 /\ loc[1].pos = 5 /\ hartCsr[1].mie = {"MSI"} /\ hartCsr[1].mtvec = "smp_wakeup"
  BY DEF DualInv, DualTypeOK, HartInv, TableInv, In, Is, Core, TakeInterrupt, Irq
<1>2. msi[1] /\ "MSI" \in Raised(1)
  BY <1>1 DEF TakeInterrupt, Irq, Raised
<1>3. EnterTrap(1, "MSI", loc[1]) /\ loc[1] \in Place
  BY <1>1, <1>2 DEF TakeInterrupt, DualInv, DualTypeOK, Core
<1>4. /\ loc' \in [Core -> Place] /\ loc'[1].in = "smp_wakeup" /\ loc'[1].pos = 1
      /\ loc'[0] = loc[0]
  <2>1. /\ Entry("smp_wakeup") \in Place /\ Entry("smp_wakeup").in = "smp_wakeup"
        /\ Entry("smp_wakeup").pos = 1
    BY Entered DEF Routines
  <2>2. Go(1, Entry("smp_wakeup"))
    BY <1>1, <1>3 DEF EnterTrap
  <2> QED
    BY <2>1, <2>2, Moved DEF DualInv, Core
<1>5. /\ hartCsr' \in [Core -> Csr] /\ ~hartCsr'[1].enabled
      /\ resume' \in [Core -> [to : Place, enabled : BOOLEAN]]
      /\ hartCsr'[0] = hartCsr[0] /\ resume'[0] = resume[0]
  BY <1>3, TrapEntered DEF DualInv, Core, TrapOf
<1>6. DualTypeOK'
  BY <1>3, <1>4, <1>5 DEF DualInv, DualTypeOK, EnterTrap
<1>7. ASSUME NEW d \in Core PROVE HartInv(d)'
  <2>1. CASE d = 1
    BY <1>4, <1>5, <2>1 DEF HartInv, In, Is, LengthOf, Handlers
  <2>2. CASE d = 0
    BY <1>4, <1>5, <2>2, Unmoved DEF DualInv
  <2> QED
    BY <2>1, <2>2 DEF Core
<1>8. TableInv'
  BY <1>1, <1>2, <1>3, <1>4 DEF DualInv, DualTypeOK, TableInv, Past, In, Core, Handlers,
                                EnterTrap
<1>9. LockInv'
  BY <1>1, <1>2, <1>3, <1>4 DEF DualInv, DualTypeOK, LockInv, Holds, Is, Core, Handlers,
                                EnterTrap
<1>10. LaunchInv'
  BY <1>1, <1>2, <1>3, <1>4 DEF DualInv, DualTypeOK, TableInv, LaunchInv, In, Is, Waits,
                                Takes, Runs1,
                    InDemo, Demo, Core, Handlers, EnterTrap
<1>11. StackInv'
  BY <1>1, <1>2, <1>3, <1>4 DEF DualInv, DualTypeOK, TableInv, StackInv, In, InDemo, Demo,
                                Core, Handlers,
                    EnterTrap
<1> QED
  BY <1>6, <1>7, <1>8, <1>9, <1>10, <1>11 DEF DualInv

(* An interrupt is taken in a sleep loop only.                             *)
LEMMA Keeps_TakeInterrupt ==
  ASSUME NEW c \in Core, DualInv, TakeInterrupt(c)
  PROVE  DualInv'
<1>1. Is(c, "app_main", 16) \/ Is(c, "crt0", 5)
  BY DEF DualInv, HartInv, TakeInterrupt, Irq
<1>2. CASE Is(c, "crt0", 5)
  BY <1>2, WakeupTrap DEF Is
<1>3. CASE Is(c, "app_main", 16)
  <2>1. loc[c] \in Place
    BY DEF DualInv, DualTypeOK
  <2>2. PICK cause \in TrapOf : EnterTrap(c, cause, loc[c])
    BY DEF TakeInterrupt, TrapOf
  <2> QED
    BY <1>3, <2>1, <2>2, DemoTrap DEF Is
<1> QED
  BY <1>1, <1>2, <1>3

(* The environment call comes before interrupts are on.                    *)
LEMMA Keeps_ecall ==
  ASSUME NEW c \in Core, DualInv, ecall(c)
  PROVE  DualInv'
<1>1. loc[c].in = "app_main" /\ loc[c].pos = 14
  BY Here, Occurrences DEF ecall, At, DualInv
<1>2. ~hartCsr[c].enabled
  BY <1>1 DEF DualInv, HartInv, Is
<1>3. loc[c] \in Place
  BY DEF DualInv, DualTypeOK
<1>4. After(loc[c]) \in Place /\ After(loc[c]).in = "app_main" /\ After(loc[c]).pos = 15
  BY <1>1, <1>3 DEF After, Place
<1>5. EnterTrap(c, "MENV_CALL", After(loc[c])) /\ "MENV_CALL" \in TrapOf
  BY DEF ecall, TrapOf
<1> QED
  BY <1>1, <1>2, <1>4, <1>5, DemoTrap

(* A handler returns to the sleep loop, or behind the environment call.    *)
LEMMA Keeps_mret ==
  ASSUME NEW c \in Core, DualInv, mret(c)
  PROVE  DualInv'
<1>1. loc[c].in \in Handlers /\ loc[c].pos > 3
  BY Here, Occurrences DEF mret, At, DualInv
<1>2. /\ hartCsr[c].mtvec = "rte_core"
      /\ resume[c].to.in = "app_main" /\ resume[c].to \in Place /\ resume[c].enabled \in BOOLEAN
      /\ resume[c].to.pos = 16 \/ (resume[c].to.pos = 15 /\ ~resume[c].enabled)
  BY <1>1 DEF DualInv, DualTypeOK, HartInv
<1>3. /\ loc' \in [Core -> Place] /\ loc'[c].in = "app_main" /\ loc'[c].pos = resume[c].to.pos
      /\ \A d \in Core : d # c => loc'[d] = loc[d]
  BY <1>2, Moved DEF mret, DualInv
<1>4. /\ hartCsr' \in [Core -> Csr] /\ hartCsr'[c].enabled = resume[c].enabled
      /\ hartCsr'[c].mtvec = "rte_core"
      /\ \A d \in Core : d # c => hartCsr'[d] = hartCsr[d]
  <2>1. hartCsr \in [Core -> Csr]
    BY DEF DualInv, DualTypeOK
  <2>2. hartCsr' = [hartCsr EXCEPT ![c] = [@ EXCEPT !.enabled = resume[c].enabled]]
    BY DEF mret
  <2>3. [hartCsr[c] EXCEPT !.enabled = resume[c].enabled] \in Csr
    BY <1>2, <2>1 DEF Csr
  <2>4. /\ hartCsr'[c] = [hartCsr[c] EXCEPT !.enabled = resume[c].enabled]
        /\ \A d \in Core : d # c => hartCsr'[d] = hartCsr[d]
    BY <2>1, <2>2
  <2>5. hartCsr' \in [Core -> Csr]
    BY <2>1, <2>2, <2>3
  <2>6. hartCsr'[c].enabled = resume[c].enabled /\ hartCsr'[c].mtvec = hartCsr[c].mtvec
    BY <2>1, <2>4 DEF Csr
  <2> QED
    BY <1>2, <2>4, <2>5, <2>6
<1>5. DualTypeOK'
  <2>1. UNCHANGED <<resume, regs, mailbox, msi, due, irqsLeft, table, locked, polls>>
    BY DEF mret
  <2> QED
    BY <1>3, <1>4, <2>1 DEF DualInv, DualTypeOK
<1>6. ASSUME NEW d \in Core PROVE HartInv(d)'
  <2>1. CASE d = c
    BY <1>2, <1>3, <1>4, <2>1 DEF HartInv, In, Is, LengthOf, Handlers
  <2>2. CASE d # c
    BY <1>3, <1>4, <2>2, Unmoved DEF DualInv, mret
  <2> QED
    BY <2>1, <2>2
<1>7. TableInv'
  BY <1>1, <1>2, <1>3 DEF DualInv, DualTypeOK, TableInv, Past, In, Core, Handlers, mret
<1>8. LockInv'
  BY <1>1, <1>2, <1>3 DEF DualInv, DualTypeOK, LockInv, Holds, Is, Core, Handlers, mret
<1>9. LaunchInv'
  BY <1>1, <1>2, <1>3 DEF DualInv, DualTypeOK, TableInv, LaunchInv, In, Is, Waits, Takes, Runs1,
                    InDemo, Demo, Core, Handlers, mret
<1>10. StackInv'
  BY <1>1, <1>2, <1>3 DEF DualInv, DualTypeOK, TableInv, StackInv, In, InDemo, Demo, Core,
                          Handlers,
                    mret
<1> QED
  BY <1>5, <1>6, <1>7, <1>8, <1>9, <1>10 DEF DualInv

(* Time moves no hart.                                                     *)
LEMMA Keeps_TimePasses ==
  ASSUME NEW c \in Core, DualInv, TimePasses(c)
  PROVE  DualInv'
<1>1. DualTypeOK'
  BY DEF DualInv, DualTypeOK, TimePasses
<1>2. \A d \in Core : HartInv(d)'
  BY Unmoved DEF DualInv, TimePasses
<1>3. TableInv' /\ LockInv' /\ LaunchInv' /\ StackInv'
  BY DEF DualInv, TimePasses, TableInv, LockInv, LaunchInv, StackInv, Past, Holds, Waits, Takes,
         Runs1, In, Is, InDemo
<1> QED
  BY <1>1, <1>2, <1>3 DEF DualInv

-----------------------------------------------------------------------------
(* The invariant, from reset on. *)
LEMMA DualStarts == DualInit => DualInv
<1> SUFFICES ASSUME DualInit PROVE DualInv
  OBVIOUS
<1>1. /\ loc \in [Core -> Place] /\ loc[0] = Entry("main") /\ loc[1] = Entry("crt0")
      /\ loc[0].in = "main" /\ loc[1].in = "crt0" /\ loc[0].pos = 1 /\ loc[1].pos = 1
  BY DEF DualInit, Entry, Place, Core, Routines
<1>2. DualTypeOK
  BY <1>1, DualCoreAssumption
     DEF DualInit, DualTypeOK, Csr, TrapOf, Images, Handlers
<1>3. ASSUME NEW c \in Core PROVE HartInv(c)
  BY <1>1, <1>3 DEF DualInit, HartInv, In, Is, LengthOf, Handlers, Core
<1>4. TableInv /\ LockInv /\ LaunchInv /\ StackInv
  BY <1>1 DEF DualInit, TableInv, LockInv, LaunchInv, StackInv, Past, Holds, Waits, Takes,
              Runs1, In, Is, InDemo, Demo, Handlers, Core
<1> QED
  BY <1>2, <1>3, <1>4 DEF DualInv

(* No step of a hart, and no passing of time, breaks it. *)
LEMMA DualInductive == DualInv /\ [DualNext]_dualVars => DualInv'
<1> SUFFICES ASSUME DualInv, [DualNext]_dualVars PROVE DualInv'
  OBVIOUS
<1>1. CASE UNCHANGED dualVars
  <2>1. DualTypeOK'
    BY <1>1 DEF dualVars, DualInv, DualTypeOK
  <2>2. ASSUME NEW c \in Core PROVE HartInv(c)'
    BY <1>1 DEF dualVars, DualInv, HartInv, In, Is, InDemo
  <2>3. TableInv' /\ LockInv'
    BY <1>1 DEF dualVars, DualInv, TableInv, LockInv, Past, Holds, In, Is
  <2>4. LaunchInv' /\ StackInv'
    BY <1>1 DEF dualVars, DualInv, LaunchInv, StackInv, Waits, Takes, Runs1, Past, In, Is, InDemo
  <2> QED
    BY <2>1, <2>2, <2>3, <2>4 DEF DualInv
<1>2. ASSUME NEW c \in Core, CoreStep(c) PROVE DualInv'
  BY <1>2, Keeps_TakeInterrupt, Keeps_csr_setup, Keeps_default, Keeps_handler_install,
     Keeps_CsrStep, Keeps_load_sp, Keeps_load_entry, Keeps_ack, Keeps_jump, Keeps_post,
     Keeps_raise_msi, Keeps_poll, Keeps_spin_lock, Keeps_spin_unlock, Keeps_print,
     Keeps_mtimecmp_set, Keeps_msi_access, Keeps_ecall, Keeps_mret DEF CoreStep
<1>3. ASSUME NEW c \in Core, TimePasses(c) PROVE DualInv'
  BY <1>3, Keeps_TimePasses
<1> QED
  BY <1>1, <1>2, <1>3 DEF DualNext

(* So it holds in every state the two cores reach. *)
LEMMA DualInvariant == DualSpec => []DualInv
BY DualStarts, DualInductive, PTL DEF DualSpec

-----------------------------------------------------------------------------
(* Every hart stays inside the listing of a routine it can be in, and the  *)
(* CSRs, the mailbox and the vector table keep their types: the table has  *)
(* a handler for every trap, whatever the cores install and reset.         *)
THEOREM DualTypeCorrect == DualSpec => []DualTypeOK
BY DualInvariant, PTL DEF DualInv

(* neorv32_smp_launch never reports success before core 1 has its order,   *)
(* and core 1 runs the application on the aligned stack it was given.      *)
THEOREM DualLaunchSound == DualSpec => []LaunchSound
<1>1. DualInv => LaunchSound
  <2> SUFFICES ASSUME DualInv PROVE LaunchSound
    OBVIOUS
  <2>1. \A c \in Core : loc[c].in \notin {"main", "launch_failed", "crt0", "smp_wakeup", "halt"}
         <=> InDemo(c)
    BY DEF DualInv, DualTypeOK, Place, Routines, InDemo, Demo, Handlers
  <2>2. Is(1, "smp_wakeup", 5) => Insn(1) = <<"jump">>
    BY WakeupListing DEF Is, Insn
  <2>3. InDemo(0) => InDemo(1) \/ (Insn(1) = <<"jump">> /\ regs[1].entry = "app_main")
    BY <2>2 DEF DualInv, LaunchInv, Runs1
  <2>4. InDemo(1) => regs[1].sp = stack_top
    BY DEF DualInv, StackInv
  <2> QED
    BY <2>1, <2>3, <2>4, TopOfStack DEF LaunchSound, Core
<1> QED
  BY <1>1, DualInvariant, PTL

(* No interrupt and no handler makes the two cores print at once: between  *)
(* lock and unlock a hart holds __spin_locked, and only that hart; core 0  *)
(* is never sent to the panic handler, its messages of main come before    *)
(* core 1 runs the program, and the two outputs that remain without a lock *)
(* are those the property names (neorv32_rte.c, __neorv32_rte_panic, on    *)
(* core 1; the demo's main after a failed launch).                         *)
THEOREM DualConsoleExclusive == DualSpec => []ConsoleExclusive
<1>1. ASSUME DualInv, NEW c \in Core, Insn(c)[1] \in {"print", "unlock"}
      PROVE \/ Holds(c) \/ In(c, "panic") \/ In(c, "launch_failed")
            \/ (In(c, "main") /\ loc[c].pos \in {5, 6})
  BY <1>1, Here, Occurrences DEF DualInv, Holds, Is, In, Speaking, Handlers
<1>2. ASSUME DualInv, Holds(1) PROVE ~(In(0, "main") /\ loc[0].pos \in {5, 6})
  BY <1>2 DEF DualInv, LaunchInv, Holds, Is, In, Handlers
<1>3. DualInv => ConsoleExclusive
  BY <1>1, <1>2 DEF DualInv, LockInv, TableInv, ConsoleExclusive, In, Core
<1> QED
  BY <1>3, DualInvariant, PTL

(* Core 0 is never sent to the default handler: core 1 sets up its runtime *)
(* environment without touching the entries that core 0 has installed.     *)
THEOREM DualPrimaryServed == DualSpec => []PrimaryServed
<1>1. DualInv => PrimaryServed
  BY DEF DualInv, TableInv, PrimaryServed
<1> QED
  BY <1>1, DualInvariant, PTL

-----------------------------------------------------------------------------
(* The 1-Wire driver: each blocking function takes its own answer.         *)

Bit == {0, 1}
Families == [1 .. FamilyBits -> Bit]
Operations == {"reset", "id", "cmp", "read_byte", "write_bit", "write_byte"}
Walking == {"reset", "command", "next_bit", "read_id", "read_cmp"}
Searching == {"scan", "verify", "target", "skip"}

SearchType == [step : Walking \cup {"none", "start", "done"}, id : Bit, number : Nat,
               last_zero : Nat, result : BOOLEAN]
ConsoleType ==
  [cmd : Searching \cup {"none", "single", "scanned", "verified", "targeted", "skipped"},
   rom : Rom \cup Families \cup {<<>>},
   keep : (Nat \X Nat \X BOOLEAN) \cup {<<>>}, answer : BOOLEAN]
CountType == [devices : Nat, running : BOOLEAN, calls : Nat]
OwTypeOK ==
  /\ present \subseteq Rom
  /\ listening \subseteq present /\ bitPos \in 1 .. RomBits
  /\ dcmd = Idle \/ dcmd \in Operations \X Bit
  /\ ROM_NO \in Rom
  /\ LastDiscrepancy \in Nat /\ LastFamilyDiscrepancy \in Nat /\ LastDeviceFlag \in BOOLEAN
  /\ search \in SearchType
  /\ console \in ConsoleType
  /\ console.cmd = "verify" => console.rom \in Rom /\ console.keep \in Nat \X Nat \X BOOLEAN
  /\ console.cmd = "target" => console.rom \in Families
  /\ found \in Seq(Rom)
  /\ unplugged \in CountType

(* A blocking function has one command or one answer outstanding; nobody   *)
(* else has any, and a search runs for a command of the console only.      *)
Waiting == search.step \in Walking \/ console.cmd = "single"
QueueInv ==
  /\ Waiting => (dcmd # Idle /\ rx = <<>>) \/ (dcmd = Idle /\ \E b \in Bit : rx = <<b>>)
  /\ ~Waiting => dcmd = Idle /\ rx = <<>>
  /\ console.cmd \in Searching <=> search.step # "none"

(* The search is at a bit of the ROM number whenever it reads or writes it *)
(* (onewire_aux.h, the loop over rom_byte_number).                         *)
NumberInv ==
  /\ search.step \in {"start", "reset", "command"} => search.number = 1
  /\ search.step = "next_bit" => search.number > 1
  /\ search.step \in {"read_id", "read_cmp"} => search.number \in 1 .. RomBits

OwInv == OwTypeOK /\ QueueInv /\ NumberInv

(* Sizes of ROM numbers.                                                   *)
LEMMA RomSize ==
  RomBits \in Nat /\ FamilyBits \in Nat /\ 0 < FamilyBits /\ FamilyBits < RomBits
BY OneWireAssumption

-----------------------------------------------------------------------------
(* Types, and the one command or answer under way. *)

(* What an answer and a written command look like.                         *)
LEMMA OwShapes ==
  /\ Idle \notin Operations \X Bit
  /\ \A op \in Operations, b \in Bit : <<op, b>> \in Operations \X Bit
  /\ \A b \in Bit : Head(<<b>>) = b /\ Tail(<<b>>) = <<>> /\ <<b>> # <<>>
  /\ \A b : Append(<<>>, b) = <<b>>
  /\ 0 \in Bit /\ 1 \in Bit /\ \A b \in Bit : 1 - b \in Bit
<1>1. Idle \notin Operations \X Bit
  <2> SUFFICES ASSUME Idle \in Operations \X Bit PROVE FALSE
    OBVIOUS
  <2>1. Len(Idle) = 1
    BY DEF Idle
  <2>2. \E o \in Operations, b \in Bit : Idle = <<o, b>>
    OBVIOUS
  <2> QED
    BY <2>1, <2>2
<1> QED
  BY <1>1 DEF Bit

(* Whatever listens, the bus shows a bit.                                  *)
LEMMA WiredBit == \A bits : wiredAnd(bits) \in Bit
BY DEF wiredAnd, Bit

(* The serial engine takes the command and leaves an answer.               *)
LEMMA SerialBasics ==
  ASSUME OwTypeOK, QueueInv, Serial
  PROVE  (OwTypeOK /\ QueueInv)' /\ rx = <<>> /\ dcmd[1] \in Operations /\ dcmd[2] \in Bit
<1>1. dcmd \in Operations \X Bit /\ dcmd' = Idle /\ Waiting /\ rx = <<>>
  BY DEF Serial, OwTypeOK, QueueInv
<1>2. dcmd[1] \in Operations /\ dcmd[2] \in Bit
  BY <1>1
<1>3. \E b \in Bit : rx' = <<b>>
  <2>1. PICK b :
          /\ rx' = Append(rx, b)
          /\ b = CASE dcmd[1] = "reset" -> IF present # {} THEN 1 ELSE 0
                [] dcmd[1] = "id" -> wiredAnd({d[bitPos] : d \in listening})
                [] dcmd[1] = "cmp" -> wiredAnd({1 - d[bitPos] : d \in listening})
                [] OTHER -> dcmd[2]
    BY DEF Serial
  <2>2. 0 \in Bit /\ 1 \in Bit
    BY OwShapes
  <2>3. b \in Bit
    BY <1>2, <2>1, <2>2, WiredBit
  <2> QED
    BY <1>1, <2>1, <2>3, OwShapes
<1>4. listening' \subseteq present
  BY DEF Serial, OwTypeOK
<1>5. bitPos' \in 1 .. RomBits
  BY OneWireAssumption DEF Serial, OwTypeOK
<1>6. UNCHANGED <<present, searchState, search, console, found, unplugged>>
  BY DEF Serial
<1>7. OwTypeOK'
  BY <1>1, <1>4, <1>5, <1>6 DEF OwTypeOK, searchState
<1>8. QueueInv'
  BY <1>1, <1>3, <1>6 DEF QueueInv, Waiting
<1> QED
  BY <1>1, <1>2, <1>7, <1>8

(* A device is removed.                                                    *)
LEMMA UnplugBasics ==
  ASSUME OwTypeOK, QueueInv, Unplug
  PROVE  (OwTypeOK /\ QueueInv)'
<1>1. /\ present' \subseteq present /\ listening' \subseteq present'
      /\ UNCHANGED <<bitPos, dcmd, rx, searchState, search, console, found>>
  BY DEF Unplug, OwTypeOK
<1>2. unplugged' \in CountType
  <2> DEFINE k == unplugged.devices + 1
  <2>1. unplugged \in CountType /\ k \in Nat
    BY DEF OwTypeOK, CountType
  <2>2. PICK b \in BOOLEAN : unplugged' = [unplugged EXCEPT !.devices = k, !.running = b]
    BY <2>1 DEF Unplug, CountType
  <2> HIDE DEF k
  <2> QED
    BY <2>1, <2>2 DEF CountType
<1>3. OwTypeOK'
  BY <1>1, <1>2 DEF OwTypeOK, searchState
<1>4. QueueInv'
  BY <1>1 DEF QueueInv, Waiting
<1> QED
  BY <1>3, <1>4

(* The running search.                                                     *)
SearchStep ==
  \/ OWSearch_start \/ OWSearch_reset \/ OWSearch_command \/ OWSearch_id
  \/ OWSearch_direction

(* What the steps of the search leave alone, and what they wait for.       *)
LEMMA SearchFrame ==
  ASSUME OwTypeOK, QueueInv, SearchStep
  PROVE  /\ UNCHANGED <<present, listening, bitPos, unplugged, console, found>>
         /\ console.cmd \in Searching /\ search.step \in Walking \cup {"start"}
         /\ search.step # "start" =>
              dcmd = Idle /\ rx' = <<>> /\ Head(rx) \in Bit /\ rx = <<Head(rx)>>
         /\ search.step = "start" => rx' = <<>> /\ dcmd = Idle
<1>1. UNCHANGED <<present, listening, bitPos, unplugged, console, found>>
  BY DEF SearchStep, OWSearch_start, OWSearch_reset, OWSearch_command, OWSearch_id,
         OWSearch_direction, issue, conclude
<1>2. search.step \in Walking \cup {"start"}
  BY DEF SearchStep, OWSearch_start, OWSearch_reset, OWSearch_command, OWSearch_id,
         OWSearch_direction, Walking
<1>3. console.cmd \in Searching
  BY <1>2 DEF QueueInv, Walking
<1>4. ASSUME search.step # "start"
      PROVE  dcmd = Idle /\ rx' = <<>> /\ Head(rx) \in Bit /\ rx = <<Head(rx)>>
  <2>1. dcmd = Idle /\ rx # <<>> /\ rx' = Tail(rx)
    BY <1>4 DEF SearchStep, OWSearch_start, OWSearch_reset, OWSearch_command, OWSearch_id,
         OWSearch_direction, collected, discard
  <2>2. \E b \in Bit : rx = <<b>>
    BY <1>2, <1>4, <2>1 DEF QueueInv, Waiting
  <2> QED
    BY <2>1, <2>2, OwShapes
<1>5. search.step = "start" => rx' = <<>> /\ dcmd = Idle
  <2> SUFFICES ASSUME search.step = "start" PROVE rx' = <<>> /\ dcmd = Idle
    OBVIOUS
  <2>1. ~Waiting
    BY <1>3 DEF Waiting, Walking, Searching
  <2>2. rx' = rx
    BY DEF SearchStep, OWSearch_start, OWSearch_reset, OWSearch_command, OWSearch_id,
         OWSearch_direction
  <2> QED
    BY <2>1, <2>2 DEF QueueInv
<1> QED
  BY <1>1, <1>2, <1>3, <1>4, <1>5

(* Every step of the search goes on with a command, or ends it.            *)
LEMMA SearchGoes ==
  ASSUME OwTypeOK, QueueInv, NumberInv, SearchStep
  PROVE  /\ ROM_NO' \in Rom /\ search' \in SearchType
         /\ LastDiscrepancy' \in Nat /\ LastFamilyDiscrepancy' \in Nat /\ LastDeviceFlag' \in BOOLEAN
         /\ \/ search'.step \in Walking /\ dcmd' \in Operations \X Bit
            \/ search'.step = "done" /\ dcmd' = dcmd
<1>0. /\ search \in SearchType /\ ROM_NO \in Rom /\ LastDiscrepancy \in Nat
      /\ LastFamilyDiscrepancy \in Nat /\ LastDeviceFlag \in BOOLEAN
  BY DEF OwTypeOK
<1>1. \A b \in BOOLEAN : Ended(b) \in SearchType /\ Ended(b).step = "done"
  BY DEF Ended, NoSearch, SearchType, Bit
<1>2. search.step # "start" => Head(rx) \in Bit
  BY SearchFrame
<1>3. searchReset =>
        LastDiscrepancy' \in Nat /\ LastFamilyDiscrepancy' \in Nat /\ LastDeviceFlag' \in BOOLEAN
  <2>1. 0 \in Nat /\ FALSE \in BOOLEAN
    OBVIOUS
  <2> QED
    BY <2>1, Zenon DEF searchReset
<1>4. CASE OWSearch_start
  <2>1. Begun \in SearchType /\ Begun.step \in Walking
    BY DEF Begun, NoSearch, SearchType, Bit, Walking
  <2>2. <<"reset", 1>> \in Operations \X Bit
    BY OwShapes DEF Operations
  <2> QED
    BY <1>0, <1>1, <1>3, <1>4, <2>1, <2>2 DEF OWSearch_start, issue, searchState
<1>5. CASE OWSearch_reset
  <2>1. [search EXCEPT !.step = "command"] \in SearchType
    BY <1>0 DEF SearchType, Walking
  <2>2. <<"write_byte", 1>> \in Operations \X Bit
    BY OwShapes DEF Operations
  <2> QED
    BY <1>0, <1>1, <1>3, <1>5, <2>1, <2>2 DEF OWSearch_reset, issue, searchState, Walking, SearchType
<1>6. CASE OWSearch_command
  <2>1. CASE search.number <= RomBits
    <3>1. [search EXCEPT !.step = "read_id"] \in SearchType
      BY <1>0 DEF SearchType, Walking
    <3>2. <<"id", 1>> \in Operations \X Bit
      BY OwShapes DEF Operations
    <3> QED
      BY <1>0, <1>6, <2>1, <3>1, <3>2 DEF OWSearch_command, issue, searchState, Walking, SearchType
  <2>2. CASE ~(search.number <= RomBits)
    <3>1. conclude /\ ROM_NO' = ROM_NO /\ dcmd' = dcmd
      BY <1>6, <2>2 DEF OWSearch_command, conclude
    <3>2. CASE crcError(ROM_NO) \/ Family(ROM_NO) = NoFamily
      BY <1>0, <1>1, <1>3, <3>1, <3>2 DEF conclude
    <3>3. CASE ~(crcError(ROM_NO) \/ Family(ROM_NO) = NoFamily)
      <4>1. search' = Ended(TRUE) /\ LastDiscrepancy' = search.last_zero
            /\ LastDeviceFlag' = (LastDeviceFlag \/ search.last_zero = 0)
            /\ LastFamilyDiscrepancy' = LastFamilyDiscrepancy
        BY <3>1, <3>3 DEF conclude
      <4>2. LastDiscrepancy' \in Nat
        BY <1>0, <4>1 DEF SearchType
      <4>3. LastDeviceFlag' \in BOOLEAN
        BY <1>0, <4>1, Zenon
      <4> QED
        BY <1>0, <1>1, <3>1, <4>1, <4>2, <4>3
    <3> QED
      BY <3>2, <3>3
  <2> QED
    BY <2>1, <2>2
<1>7. CASE OWSearch_id
  <2>1. [search EXCEPT !.step = "read_cmp", !.id = Head(rx)] \in SearchType
    BY <1>0, <1>2, <1>7 DEF SearchType, Walking, OWSearch_id
  <2>2. <<"cmp", 1>> \in Operations \X Bit
    BY OwShapes DEF Operations
  <2> QED
    BY <1>0, <1>7, <2>1, <2>2 DEF OWSearch_id, issue, searchState, Walking, SearchType
<1>8. CASE OWSearch_direction
  <2> DEFINE n == search.number
             cmp == Head(rx)
             dir == IF search.id # cmp THEN search.id ELSE discrepancyDirection(n)
             zero == search.id = cmp /\ dir = 0
  <2>1. CASE search.id = 1 /\ cmp = 1
    BY <1>0, <1>1, <1>3, <1>8, <2>1 DEF OWSearch_direction
  <2>2. CASE ~(search.id = 1 /\ cmp = 1)
    <3>1. /\ ROM_NO' = [ROM_NO EXCEPT ![n] = dir]
          /\ LastFamilyDiscrepancy' = IF zero /\ n <= FamilyBits THEN n ELSE LastFamilyDiscrepancy
          /\ search' = [search EXCEPT !.last_zero = IF zero THEN n ELSE @, !.number = n + 1,
                                      !.step = "next_bit"]
          /\ dcmd' = <<"write_bit", dir>> /\ UNCHANGED <<LastDiscrepancy, LastDeviceFlag>>
      BY <1>8, <2>2 DEF OWSearch_direction, issue
    <3> HIDE DEF cmp
    <3>2. n \in 1 .. RomBits /\ n \in Nat /\ search.id \in Bit
      BY <1>0, <1>8 DEF SearchType, NumberInv, OWSearch_direction
    <3>3. dir \in Bit /\ zero \in BOOLEAN
      BY <1>0, <3>2, RomSize DEF discrepancyDirection, Bit, Rom
    <3> HIDE DEF n, dir, zero
    <3>4. ROM_NO' \in Rom
      BY <1>0, <3>1, <3>2, <3>3 DEF Rom, Bit
    <3>5. search' \in SearchType /\ search'.step \in Walking
      <4>1. n + 1 \in Nat
        BY <3>2
      <4>2. PICK lz \in Nat, k \in Nat :
              search' = [search EXCEPT !.last_zero = lz, !.number = k, !.step = "next_bit"]
        BY <1>0, <3>1, <3>2, <4>1 DEF SearchType
      <4>3. search'.step = "next_bit"
        BY <1>0, <4>2 DEF SearchType
      <4> QED
        BY <1>0, <4>2, <4>3 DEF SearchType, Walking
    <3>6. dcmd' \in Operations \X Bit
      BY <3>1, <3>3, OwShapes DEF Operations
    <3>7. LastFamilyDiscrepancy' \in Nat
      BY <1>0, <3>1, <3>2
    <3> QED
      BY <1>0, <3>1, <3>4, <3>5, <3>6, <3>7
  <2> QED
    BY <2>1, <2>2
<1> QED
  BY <1>4, <1>5, <1>6, <1>7, <1>8 DEF SearchStep

(* The steps of the search keep types, queue and number.                   *)
LEMMA SearchBasics ==
  ASSUME OwTypeOK, QueueInv, NumberInv, SearchStep
  PROVE  (OwTypeOK /\ QueueInv)'
<1>1. /\ ROM_NO' \in Rom /\ search' \in SearchType
      /\ LastDiscrepancy' \in Nat /\ LastFamilyDiscrepancy' \in Nat /\ LastDeviceFlag' \in BOOLEAN
      /\ \/ search'.step \in Walking /\ dcmd' \in Operations \X Bit
         \/ search'.step = "done" /\ dcmd' = dcmd
  BY SearchGoes
<1>2. /\ UNCHANGED <<present, listening, bitPos, unplugged, console, found>>
      /\ console.cmd \in Searching
      /\ rx' = <<>> /\ dcmd = Idle
  BY SearchFrame
<1>3. OwTypeOK'
  BY <1>1, <1>2 DEF OwTypeOK
<1>4. QueueInv'
  <2>1. console'.cmd # "single" /\ search'.step # "none"
    BY <1>1, <1>2 DEF Searching, Walking
  <2>2. CASE search'.step \in Walking /\ dcmd' \in Operations \X Bit
    <3>1. dcmd' # Idle
      BY <2>2, OwShapes
    <3> QED
      BY <1>2, <2>1, <2>2, <3>1 DEF QueueInv, Waiting
  <2>3. CASE search'.step = "done" /\ dcmd' = dcmd
    BY <1>2, <2>1, <2>3 DEF QueueInv, Waiting, Walking
  <2> QED
    BY <1>1, <2>2, <2>3
<1> QED
  BY <1>3, <1>4

(* The console.                                                            *)
Commands == scan_bus \/ OWVerify \/ OWTargetSetup \/ OWFamilySkipSetup
Singles == console_bit \/ read_byte \/ write_byte
Results == scan_next \/ OWVerify_end \/ OWNext_end

(* A command of the console that starts a search.                          *)
LEMMA CommandBasics ==
  ASSUME OwTypeOK, QueueInv, Commands
  PROVE  /\ (OwTypeOK /\ QueueInv)'
         /\ console.cmd = "none" /\ console'.cmd \in Searching /\ search' = [NoSearch EXCEPT !.step = "start"]
         /\ UNCHANGED <<present, listening, bitPos, dcmd, rx>> /\ ~unplugged'.running
<1>1. console.cmd = "none" /\ search' = [NoSearch EXCEPT !.step = "start"]
      /\ unplugged' = [unplugged EXCEPT !.calls = @ + 1, !.running = FALSE]
      /\ UNCHANGED <<present, listening, bitPos, dcmd, rx>>
  BY DEF Commands, scan_bus, OWVerify, OWTargetSetup, OWFamilySkipSetup, Free, Starting, Called, BusAlone
<1>2. search' \in SearchType /\ search'.step = "start"
  BY <1>1 DEF NoSearch, SearchType, Bit
<1>3. unplugged' \in CountType /\ ~unplugged'.running
  <2> DEFINE k == unplugged.calls + 1
  <2>1. unplugged \in CountType /\ k \in Nat
    BY DEF OwTypeOK, CountType
  <2>2. unplugged' = [unplugged EXCEPT !.calls = k, !.running = FALSE]
    BY <1>1
  <2> HIDE DEF k
  <2> QED
    BY <2>1, <2>2 DEF CountType
<1>4. /\ \A name \in Searching : command(name) \in ConsoleType /\ command(name).cmd = name
      /\ \A f \in Families :
           /\ [command("target") EXCEPT !.rom = f] \in ConsoleType
           /\ [command("target") EXCEPT !.rom = f].cmd = "target"
           /\ [command("target") EXCEPT !.rom = f].rom = f
  BY DEF command, NoCommand, ConsoleType, Searching
<1>5. /\ ROM_NO \in Rom /\ LastDiscrepancy \in Nat /\ LastFamilyDiscrepancy \in Nat
      /\ LastDeviceFlag \in BOOLEAN /\ found \in Seq(Rom)
  BY DEF OwTypeOK
<1>6. /\ console' \in ConsoleType /\ console'.cmd \in Searching
      /\ console'.cmd = "verify" => console'.rom \in Rom /\ console'.keep \in Nat \X Nat \X BOOLEAN
      /\ console'.cmd = "target" => console'.rom \in Families
  <2>1. CASE scan_bus
    BY <1>4, <2>1 DEF scan_bus, Searching
  <2>2. CASE OWVerify
    <3>1. <<LastDiscrepancy, LastFamilyDiscrepancy, LastDeviceFlag>> \in Nat \X Nat \X BOOLEAN
      BY <1>5
    <3> DEFINE keep == <<LastDiscrepancy, LastFamilyDiscrepancy, LastDeviceFlag>>
               c == [command("verify") EXCEPT !.rom = ROM_NO, !.keep = keep]
    <3>2. console' = c
      BY <2>2 DEF OWVerify
    <3>3. keep \in Nat \X Nat \X BOOLEAN
      BY <3>1
    <3> HIDE DEF keep
    <3>4. c \in ConsoleType /\ c.cmd = "verify" /\ c.rom = ROM_NO /\ c.keep = keep
      BY <1>5, <3>3 DEF command, NoCommand, ConsoleType, Searching
    <3> HIDE DEF c
    <3> QED
      BY <1>5, <3>2, <3>3, <3>4 DEF Searching
  <2>3. CASE OWTargetSetup
    <3>1. PICK f \in {Family(d) : d \in UNION BusDevices} : console' = [command("target") EXCEPT !.rom = f]
      BY <2>3 DEF OWTargetSetup
    <3>2. f \in Families
      BY <3>1, OneWireAssumption, RomSize DEF Family, Families, Bit, Rom
    <3> QED
      BY <1>4, <3>1, <3>2 DEF Searching
  <2>4. CASE OWFamilySkipSetup
    BY <1>4, <2>4 DEF OWFamilySkipSetup, Searching
  <2> QED
    BY <2>1, <2>2, <2>3, <2>4 DEF Commands
<1>7. /\ ROM_NO' \in Rom /\ LastDiscrepancy' \in Nat /\ LastFamilyDiscrepancy' \in Nat
      /\ LastDeviceFlag' \in BOOLEAN /\ found' \in Seq(Rom)
  <2>1. CASE scan_bus
    <3>1. 0 \in Nat /\ FALSE \in BOOLEAN /\ <<>> \in Seq(Rom)
      OBVIOUS
    <3> QED
      BY <1>5, <2>1, <3>1, Zenon DEF scan_bus, searchReset
  <2>2. CASE OWVerify
    BY <1>5, <2>2, RomSize DEF OWVerify
  <2>3. CASE OWTargetSetup
    <3>1. PICK f \in {Family(d) : d \in UNION BusDevices} :
            ROM_NO' = [i \in 1 .. RomBits |-> IF i <= FamilyBits THEN f[i] ELSE 0]
      BY <2>3 DEF OWTargetSetup
    <3>2. f \in Families
      BY <3>1, OneWireAssumption, RomSize DEF Family, Families, Bit, Rom
    <3>3. ROM_NO' \in Rom
      BY <3>1, <3>2, RomSize DEF Families, Bit, Rom
    <3> QED
      BY <1>5, <2>3, <3>3, RomSize DEF OWTargetSetup
  <2>4. CASE OWFamilySkipSetup
    BY <1>5, <2>4 DEF OWFamilySkipSetup
  <2> QED
    BY <2>1, <2>2, <2>3, <2>4 DEF Commands
<1>8. OwTypeOK'
  BY <1>1, <1>2, <1>3, <1>6, <1>7 DEF OwTypeOK
<1>9. QueueInv'
  <2>1. search.step = "none" /\ ~Waiting
    BY <1>1 DEF QueueInv, Searching, Waiting, Walking
  <2>2. ~Waiting'
    BY <1>2, <1>6 DEF Waiting, Walking, Searching
  <2> QED
    BY <1>1, <1>2, <1>6, <2>1, <2>2 DEF QueueInv
<1> QED
  BY <1>1, <1>3, <1>6, <1>8, <1>9

(* Commands with one operation.                                            *)
LEMMA SingleBasics ==
  ASSUME OwTypeOK, QueueInv, Singles \/ console_answer \/ console_prompt
  PROVE  /\ (OwTypeOK /\ QueueInv)'
         /\ UNCHANGED <<present, listening, bitPos, searchState, search, found>> /\ search.step = "none"
         /\ console'.cmd \in {"none", "single"}
<1>1. CASE Singles
  <2>1. PICK commands \in SUBSET (Operations \X Bit) : console_single(commands)
    <3>1. \A op \in Operations, b \in Bit : <<op, b>> \in Operations \X Bit
      OBVIOUS
    <3> QED
      BY <1>1, <3>1 DEF Singles, console_bit, read_byte, write_byte, Operations, Bit
  <2>2. /\ console.cmd = "none" /\ dcmd' \in Operations \X Bit /\ console' = command("single")
        /\ UNCHANGED <<present, listening, bitPos, rx, searchState, search, found>>
        /\ unplugged' = [unplugged EXCEPT !.calls = @ + 1, !.running = FALSE]
    BY <2>1 DEF console_single, Free, Called
  <2>3. console' \in ConsoleType /\ console'.cmd = "single"
    BY <2>2 DEF command, NoCommand, ConsoleType
  <2>4. unplugged' \in CountType
    <3> DEFINE k == unplugged.calls + 1
    <3>1. unplugged \in CountType /\ k \in Nat
      BY DEF OwTypeOK, CountType
    <3>2. unplugged' = [unplugged EXCEPT !.calls = k, !.running = FALSE]
      BY <2>2
    <3> HIDE DEF k
    <3> QED
      BY <3>1, <3>2 DEF CountType
  <2>5. search.step = "none" /\ rx = <<>>
    BY <2>2 DEF QueueInv, Searching, Waiting, Walking
  <2>6. OwTypeOK'
    BY <2>2, <2>3, <2>4 DEF OwTypeOK, searchState
  <2>7. QueueInv'
    <3>1. dcmd' # Idle
      BY <2>2, OwShapes
    <3> QED
      BY <2>2, <2>3, <2>5, <3>1 DEF QueueInv, Searching, Waiting
  <2> QED
    BY <2>2, <2>3, <2>5, <2>6, <2>7
<1>2. CASE console_answer
  <2>1. /\ console.cmd = "single" /\ dcmd = Idle /\ rx # <<>> /\ rx' = Tail(rx) /\ console' = NoCommand
        /\ UNCHANGED <<present, listening, bitPos, dcmd, searchState, search, found, unplugged>>
    BY <1>2 DEF console_answer, collected
  <2>2. rx' = <<>> /\ search.step = "none"
    BY <2>1, OwShapes DEF QueueInv, Searching, Waiting
  <2>3. console' \in ConsoleType /\ console'.cmd = "none"
    BY <2>1 DEF NoCommand, ConsoleType
  <2>4. OwTypeOK'
    BY <2>1, <2>3 DEF OwTypeOK, searchState
  <2>5. QueueInv'
    BY <2>1, <2>2, <2>3 DEF QueueInv, Searching, Waiting, Walking
  <2> QED
    BY <2>1, <2>2, <2>3, <2>4, <2>5
<1>3. CASE console_prompt
  <2>1. /\ console.cmd \in {"scanned", "verified", "targeted", "skipped"} /\ console' = NoCommand
        /\ UNCHANGED <<present, listening, bitPos, dcmd, rx, searchState, search, found, unplugged>>
    BY <1>3 DEF console_prompt
  <2>2. search.step = "none" /\ ~Waiting
    BY <2>1 DEF QueueInv, Searching, Waiting, Walking
  <2>3. console' \in ConsoleType /\ console'.cmd = "none"
    BY <2>1 DEF NoCommand, ConsoleType
  <2>4. OwTypeOK'
    BY <2>1, <2>3 DEF OwTypeOK, searchState
  <2>5. QueueInv'
    BY <2>1, <2>2, <2>3 DEF QueueInv, Searching, Waiting, Walking
  <2> QED
    BY <2>1, <2>2, <2>3, <2>4, <2>5
<1> QED
  BY <1>1, <1>2, <1>3

(* The result of a search is taken.                                        *)
LEMMA ResultBasics ==
  ASSUME OwTypeOK, QueueInv, Results
  PROVE  /\ (OwTypeOK /\ QueueInv)'
         /\ UNCHANGED <<present, listening, bitPos, dcmd, rx, unplugged>> /\ search.step = "done"
         /\ \/ search'.step = "none" /\ console'.cmd \in {"scanned", "verified", "targeted", "skipped"}
            \/ search' = [NoSearch EXCEPT !.step = "start"] /\ console' = console /\ console.cmd = "scan"
<1>1. /\ search.step = "done" /\ UNCHANGED <<present, listening, bitPos, dcmd, rx, unplugged>>
      /\ console.cmd \in Searching
  BY DEF Results, scan_next, OWVerify_end, OWNext_end, BusAlone, Searching
<1>2. /\ ROM_NO \in Rom /\ LastDiscrepancy \in Nat /\ LastFamilyDiscrepancy \in Nat
      /\ LastDeviceFlag \in BOOLEAN /\ found \in Seq(Rom) /\ console \in ConsoleType
      /\ search \in SearchType
  BY DEF OwTypeOK
<1>3. NoSearch \in SearchType /\ NoSearch.step = "none"
      /\ [NoSearch EXCEPT !.step = "start"] \in SearchType
      /\ [NoSearch EXCEPT !.step = "start"].step = "start"
  BY DEF NoSearch, SearchType, Bit
<1>4. ASSUME search'.step = "none", search' \in SearchType, console' \in ConsoleType, OwTypeOK',
             console'.cmd \in {"scanned", "verified", "targeted", "skipped"}
      PROVE  QueueInv'
  <2>1. ~Waiting /\ ~Waiting'
    BY <1>1, <1>4 DEF Waiting, Walking, Searching
  <2> QED
    BY <1>1, <1>4, <2>1 DEF QueueInv, Searching
<1>5. CASE scan_next
  <2>1. CASE search.result
    <3>1. /\ found' = Append(found, ROM_NO) /\ search' = [NoSearch EXCEPT !.step = "start"]
          /\ console' = console /\ UNCHANGED searchState /\ console.cmd = "scan"
      BY <1>5, <2>1 DEF scan_next, Starting
    <3>2. OwTypeOK'
      BY <1>1, <1>2, <1>3, <3>1 DEF OwTypeOK, searchState
    <3>3. QueueInv'
      BY <1>1, <1>3, <3>1 DEF QueueInv, Waiting, Walking, Searching
    <3> QED
      BY <1>1, <3>1, <3>2, <3>3
  <2>2. CASE ~search.result
    <3>1. /\ found' = found /\ search' = NoSearch
          /\ console' = command("scanned") /\ UNCHANGED searchState
      BY <1>5, <2>2 DEF scan_next
    <3>2. console' \in ConsoleType /\ console'.cmd = "scanned"
      BY <3>1 DEF command, NoCommand, ConsoleType
    <3>3. OwTypeOK'
      BY <1>1, <1>2, <1>3, <3>1, <3>2 DEF OwTypeOK, searchState
    <3> QED
      BY <1>1, <1>3, <1>4, <3>1, <3>2, <3>3
  <2> QED
    BY <2>1, <2>2
<1>6. CASE OWNext_end
  <2>1. /\ search' = NoSearch /\ UNCHANGED <<searchState, found>>
        /\ console.cmd \in {"target", "skip"}
        /\ console' = [console EXCEPT !.cmd = IF @ = "target" THEN "targeted" ELSE "skipped",
                                      !.answer = search.result]
    BY <1>6 DEF OWNext_end
  <2>2. console' \in ConsoleType /\ console'.cmd \in {"targeted", "skipped"}
    BY <1>2, <2>1 DEF ConsoleType, SearchType
  <2>3. OwTypeOK'
    BY <1>1, <1>2, <1>3, <2>1, <2>2 DEF OwTypeOK, searchState
  <2> QED
    BY <1>1, <1>3, <1>4, <2>1, <2>2, <2>3
<1>7. CASE OWVerify_end
  <2>1. /\ search' = NoSearch /\ found' = found /\ console.cmd = "verify" /\ ROM_NO' = console.rom
        /\ LastDiscrepancy' = console.keep[1] /\ LastFamilyDiscrepancy' = console.keep[2]
        /\ LastDeviceFlag' = console.keep[3]
        /\ \E b \in BOOLEAN : console' = [console EXCEPT !.cmd = "verified", !.answer = b]
    BY <1>7 DEF OWVerify_end
  <2>2. console' \in ConsoleType /\ console'.cmd = "verified"
    BY <1>2, <2>1 DEF ConsoleType
  <2>3. console.rom \in Rom /\ console.keep \in Nat \X Nat \X BOOLEAN
    BY <2>1 DEF OwTypeOK
  <2>4. OwTypeOK'
    BY <1>1, <1>2, <1>3, <2>1, <2>2, <2>3 DEF OwTypeOK
  <2> QED
    BY <1>1, <1>3, <1>4, <2>1, <2>2, <2>4
<1> QED
  BY <1>5, <1>6, <1>7 DEF Results

(* The number of the bit.                                                  *)
LEMMA NumberStep ==
  ASSUME OwTypeOK, QueueInv, NumberInv, SearchStep
  PROVE  NumberInv'
<1>0. search \in SearchType
  BY DEF OwTypeOK
<1>1. \A b \in BOOLEAN : Ended(b).step = "done"
  BY DEF Ended, NoSearch
<1>2. CASE OWSearch_start
  BY <1>1, <1>2 DEF OWSearch_start, NumberInv, Begun, NoSearch
<1>3. CASE OWSearch_reset
  BY <1>0, <1>1, <1>3 DEF OWSearch_reset, NumberInv, SearchType
<1>4. CASE OWSearch_command
  <2>1. CASE search.number <= RomBits
    <3>1. search' = [search EXCEPT !.step = "read_id"]
      BY <1>4, <2>1 DEF OWSearch_command
    <3>2. search.number \in 1 .. RomBits
      BY <1>0, <1>4, <2>1, RomSize DEF OWSearch_command, NumberInv, SearchType
    <3> QED
      BY <1>0, <3>1, <3>2 DEF NumberInv, SearchType
  <2>2. CASE ~(search.number <= RomBits)
    BY <1>1, <1>4, <2>2 DEF OWSearch_command, conclude, NumberInv
  <2> QED
    BY <2>1, <2>2
<1>5. CASE OWSearch_id
  BY <1>0, <1>5 DEF OWSearch_id, NumberInv, SearchType
<1>6. CASE OWSearch_direction
  <2>1. \/ search'.step = "done"
        \/ search'.step = "next_bit" /\ search'.number = search.number + 1
    BY <1>0, <1>1, <1>6 DEF OWSearch_direction, SearchType
  <2>2. search.number \in 1 .. RomBits
    BY <1>6 DEF OWSearch_direction, NumberInv
  <2> QED
    BY <2>1, <2>2, RomSize DEF NumberInv
<1> QED
  BY <1>2, <1>3, <1>4, <1>5, <1>6 DEF SearchStep

(* It holds when the program starts.                                       *)
LEMMA OwInitial ==
  OwInit => OwInv
<1> SUFFICES ASSUME OwInit PROVE OwInv
  OBVIOUS
<1>1. present \subseteq Rom
  BY OneWireAssumption DEF OwInit
<1>2. ROM_NO \in Rom
  BY DEF OwInit, Rom
<1>3. search \in SearchType /\ console \in ConsoleType /\ search.step = "none" /\ console.cmd = "none"
  BY DEF OwInit, NoSearch, NoCommand, SearchType, ConsoleType, Bit
<1>4. unplugged \in CountType /\ found \in Seq(Rom)
  BY DEF OwInit, CountType
<1>5. LastDiscrepancy \in Nat /\ LastFamilyDiscrepancy \in Nat /\ LastDeviceFlag \in BOOLEAN
  <2>1. 0 \in Nat /\ FALSE \in BOOLEAN
    OBVIOUS
  <2> QED
    BY <2>1, Zenon DEF OwInit
<1>6. OwTypeOK
  <2>1. listening \subseteq present /\ bitPos \in 1 .. RomBits /\ dcmd = Idle
    BY RomSize DEF OwInit
  <2> QED
    BY <1>1, <1>2, <1>3, <1>4, <1>5, <2>1 DEF OwTypeOK
<1>7. QueueInv /\ NumberInv
  BY <1>3 DEF OwInit, QueueInv, NumberInv, Waiting, Walking, Searching
<1> QED
  BY <1>6, <1>7 DEF OwInv

(* Every action keeps it.                                                  *)
LEMMA OwStep ==
  OwInv /\ [OwNext]_owVars => OwInv'
<1> SUFFICES ASSUME OwInv, [OwNext]_owVars PROVE OwInv'
  OBVIOUS
<1>1. OwTypeOK /\ QueueInv /\ NumberInv
  BY DEF OwInv
<1>2. ASSUME search' = search PROVE NumberInv'
  BY <1>1, <1>2 DEF NumberInv
<1>3. CASE Serial
  <2>1. search' = search
    BY <1>3 DEF Serial
  <2> QED
    BY <1>1, <1>2, <1>3, <2>1, SerialBasics DEF OwInv
<1>4. CASE Unplug
  <2>1. search' = search
    BY <1>4 DEF Unplug
  <2> QED
    BY <1>1, <1>2, <1>4, <2>1, UnplugBasics DEF OwInv
<1>5. CASE SearchStep
  BY <1>1, <1>5, SearchBasics, NumberStep DEF OwInv
<1>6. CASE Commands
  <2>1. (OwTypeOK /\ QueueInv)' /\ search' = [NoSearch EXCEPT !.step = "start"]
    BY <1>1, <1>6, CommandBasics
  <2>2. NumberInv'
    BY <2>1 DEF NumberInv, NoSearch
  <2> QED
    BY <2>1, <2>2 DEF OwInv
<1>7. CASE Results
  <2>1. /\ (OwTypeOK /\ QueueInv)'
        /\ search'.step = "none" \/ search' = [NoSearch EXCEPT !.step = "start"]
    BY <1>1, <1>7, ResultBasics
  <2>2. NumberInv'
    BY <2>1 DEF NumberInv, NoSearch
  <2> QED
    BY <2>1, <2>2 DEF OwInv
<1>8. CASE Singles \/ console_answer \/ console_prompt
  BY <1>1, <1>2, <1>8, SingleBasics DEF OwInv
<1>9. CASE UNCHANGED owVars
  <2>1. UNCHANGED <<present, listening, bitPos, dcmd, rx, searchState, search, console, found, unplugged>>
    BY <1>9 DEF owVars
  <2>2. OwTypeOK'
    BY <1>1, <2>1 DEF OwTypeOK, searchState
  <2>3. QueueInv'
    BY <1>1, <2>1 DEF QueueInv, Waiting
  <2> QED
    BY <1>2, <2>1, <2>2, <2>3 DEF OwInv
<1> QED
  BY <1>3, <1>4, <1>5, <1>6, <1>7, <1>8, <1>9 DEF OwNext, SearchStep, Commands, Results, Singles

(* So it holds in every state the console reaches.                         *)
LEMMA OwInvariant == OwSpec => []OwInv
BY OwInitial, OwStep, PTL DEF OwSpec

(* Bus, FIFO and search state keep their types: the search writes bits of  *)
(* the ROM number only (onewire_aux.h, OWSearch), and a command of the     *)
(* console comes back to what it has saved.                                *)
THEOREM OneWireTypeCorrect == OwSpec => []OwTypeOK
BY OwInvariant, PTL DEF OwInv

(* For every number of devices and ROM bits, and whatever the console has  *)
(* done before, a blocking function of neorv32_onewire.c finds the answer  *)
(* to its own operation in the FIFO.                                       *)
THEOREM OneWireAnswersMatched == OwSpec => []AnswersMatched
<1>1. OwInv => AnswersMatched
  <2> SUFFICES ASSUME OwInv PROVE AnswersMatched
    OBVIOUS
  <2>1. (console.cmd = "single" \/ search.step \notin {"none", "start", "done"}) <=> Waiting
    BY DEF OwInv, OwTypeOK, SearchType, Waiting, Walking
  <2>2. Len(<<>>) = 0 /\ \A b \in Bit : Len(<<b>>) = 1
    OBVIOUS
  <2>3. CASE Waiting
    <3>1. Len(rx) + (IF dcmd = Idle THEN 0 ELSE 1) = 1
      BY <2>2, <2>3 DEF OwInv, QueueInv
    <3> QED
      BY <2>1, <2>3, <3>1 DEF AnswersMatched
  <2>4. CASE ~Waiting
    <3>1. Len(rx) + (IF dcmd = Idle THEN 0 ELSE 1) = 0
      BY <2>2, <2>4 DEF OwInv, QueueInv
    <3> QED
      BY <2>1, <2>4, <3>1 DEF AnswersMatched
  <2> QED
    BY <2>3, <2>4
<1> QED
  BY <1>1, OwInvariant, PTL
=============================================================================
