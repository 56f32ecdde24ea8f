--------------------------------- MODULE Rte ---------------------------------
(***************************************************************************)
(* The runtime environment of neorv32_rte.c on one hart: the two-level     *)
(* trap handling.  __neorv32_rte_core saves the registers of the trapped   *)
(* program in a frame on its stack, points mscratch at the frame, calls    *)
(* the handler that the vector table holds for mcause, advances mepc past  *)
(* a trapping instruction, restores the registers and returns.  Handlers   *)
(* reach the trapped program's registers through context_get/context_put.  *)
(* The handler installed here is the one of demo_emulate_unaligned, which  *)
(* completes an unaligned lw byte by byte.                                 *)
(*                                                                         *)
(* The hart has the registers x0..x4: zero, ra, sp and two more that stand *)
(* for x3..x31, which the core saves and restores alike.  Memory cells     *)
(* hold one value; a word is WordBytes cells.                              *)
(***************************************************************************)
EXTENDS Naturals, Sequences, FiniteSets

CONSTANTS
  Causes,       \* the trap causes that occur, among those TrapCodes names
  DataBlock,    \* data_block: what the data memory holds, a sequence of cells
  StackTop      \* the stack pointer of the application, in cells

VARIABLES
  lut,          \* __neorv32_rte_vector_lut: cause -> handler
  rf,           \* the register file x0..x4
  stack,        \* the memory the stack pointer walks, by address
  csr,          \* mie, mcause, mepc, mtinst, mscratch
  pc,           \* the application's instruction address
  mode,         \* what the hart executes
  before        \* the application's registers and pc when it trapped

rteVars == <<lut, rf, stack, csr, pc, mode, before>>

WordBytes == 2
CellValues == 16
Interrupts == {"MSI", "MTI", "MEI", "FIRQ"}
TrapCodes == Interrupts \cup
  {"I_ACCESS", "I_ILLEGAL", "I_MISALIGNED", "BREAKPOINT", "L_MISALIGNED",
   "L_ACCESS", "S_MISALIGNED", "S_ACCESS", "ENV_CALL", "UNKNOWN"}

ASSUME RteAssumption == /\ Causes \subseteq TrapCodes
                        /\ DataBlock \in Seq(0 .. CellValues - 1)
                        /\ Len(DataBlock) >= 2 * WordBytes
                        /\ StackTop \in Nat /\ StackTop > 4

Reg == 0 .. 4
FrameSize == 5
ra == 1
sp == 2

(* The word at an address of the data memory: its cells, least significant   *)
(* first (the handler's b0 | b1 << 8 | ...).                                 *)
DataWord(a) == DataBlock[a + 1] + CellValues * DataBlock[a + 2]
CanRead(a) == a + WordBytes <= Len(DataBlock)

(* A load: lw or another one (lh), the destination, the base register, the   *)
(* offset of the I-type word.  The demo's loads have non-negative offsets:   *)
(* the handler adds imm12 without extending its sign.                        *)
Loads == [lw : BOOLEAN, rd : Reg \ {sp}, rs1 : {3, 4}, imm : 0 .. 1]
NoLoad == [lw |-> FALSE, rd |-> 0, rs1 |-> 3, imm |-> 0]

-----------------------------------------------------------------------------
(* The frame of the application, and the accesses of a handler to it.        *)

(* neorv32_rte_context_get: x0 reads as zero whatever its slot holds.  *)
neorv32_rte_context_get(x) == IF x = 0 THEN 0 ELSE stack[csr.mscratch + x]

neorv32_rte_context_put(x, data) ==
  IF x = 0 THEN stack ELSE [stack EXCEPT ![csr.mscratch + x] = data]

(* The first half of __neorv32_rte_core: mscratch keeps the old sp until ra  *)
(* is saved, then takes the frame's base; sp's slot gets the old sp.         *)
saveContext ==
  LET base == rf[sp] - FrameSize
  IN  /\ stack' = [a \in DOMAIN stack |->
                     IF a \in base + 1 .. base + FrameSize - 1
                     THEN rf[a - base] ELSE stack[a]]
      /\ csr' = [csr EXCEPT !.mscratch = base]
      /\ rf' = [rf EXCEPT ![sp] = base]

(* The second half: everything is reloaded from the frame, sp at the end.    *)
restoreContext ==
  rf' = [x \in Reg |-> IF x = 0 THEN 0 ELSE stack[rf[sp] + x]]

(* mepc after the handler: past the instruction that trapped, 4 bytes or 2   *)
(* if it is compressed; an interrupted instruction is executed again.        *)
resumeAddress_Always(cause, mepc, compressed) ==  \* mutant: interrupts skip an instruction too
  IF compressed THEN mepc + 2 ELSE mepc + 4

resumeAddress(cause, mepc, compressed) ==
  CASE cause \in Interrupts -> mepc
    [] cause \notin Interrupts /\ compressed -> mepc + 2
    [] OTHER -> mepc + 4

(* Causes that __neorv32_rte_panic cannot return from.                       *)
fatal(cause) == cause \in {"I_ACCESS", "I_MISALIGNED", "UNKNOWN"}

-----------------------------------------------------------------------------
(* The application calls the library. *)

neorv32_rte_setup ==
  /\ mode = "app"
  /\ csr' = [csr EXCEPT !.mie = {}]
  /\ lut' = [c \in TrapCodes |-> "panic"]
  /\ UNCHANGED <<rf, stack, pc, mode, before>>

(* The table after an install or uninstall: an invalid code is refused.      *)
withHandler(code, h) == IF code \in TrapCodes THEN [lut EXCEPT ![code] = h] ELSE lut

neorv32_rte_handler_install ==
  /\ mode = "app"
  /\ \E c \in Causes \cup {"INVALID"}, h \in {"emulate_unaligned_lw", "user"} :
       /\ h = "emulate_unaligned_lw" <=> c = "L_MISALIGNED"
       /\ lut' = withHandler(c, h)
  /\ UNCHANGED <<rf, stack, csr, pc, mode, before>>

neorv32_rte_handler_uninstall ==
  /\ mode = "app"
  /\ \E c \in Causes \cup {"INVALID"} : lut' = withHandler(c, "panic")
  /\ UNCHANGED <<rf, stack, csr, pc, mode, before>>

(* The application enables an interrupt source. *)
EnableIrq ==
  /\ mode = "app"
  /\ \E c \in Causes \cap Interrupts : csr' = [csr EXCEPT !.mie = @ \cup {c}]
  /\ UNCHANGED <<lut, rf, stack, pc, mode, before>>

(* A trap: the hart records cause, address and instruction and enters the    *)
(* core.  An unaligned lw names its registers; other instructions are        *)
(* compressed or not.                                                        *)
raiseTrap(cause, inst) ==
  /\ mode = "app"
  /\ cause \in Interrupts => cause \in csr.mie
  /\ before' = [rf |-> rf, pc |-> pc, cause |-> cause, inst |-> inst]
  /\ csr' = [csr EXCEPT !.mcause = cause, !.mepc = pc, !.mtinst = inst]
  /\ mode' = "core_entry"
  /\ UNCHANGED <<lut, rf, stack, pc>>

TakeTrap ==
  \E c \in Causes :
    IF c = "L_MISALIGNED"
    THEN \E i \in Loads : /\ (rf[i.rs1] + i.imm) % WordBytes # 0
                          /\ CanRead(rf[i.rs1] + i.imm)
                          /\ raiseTrap(c, [load |-> i, compressed |-> FALSE])
    ELSE \E z \in BOOLEAN : raiseTrap(c, [load |-> NoLoad, compressed |-> z])

(* __neorv32_rte_core up to the call of the handler. *)
CoreEnter ==
  /\ mode = "core_entry"
  /\ saveContext
  /\ mode' = lut[csr.mcause]
  /\ UNCHANGED <<lut, pc, before>>

(* The handlers are compiled C: they may leave anything in the registers     *)
(* other than sp, which they restore.                                        *)
Clobbered == [x \in Reg |-> IF x \in {0, sp} THEN rf[x] ELSE 0]

(* __neorv32_rte_panic: reports, disables an interrupt without a handler and *)
(* halts on a fatal cause.                                                   *)
rte_panic ==
  /\ mode = "panic"
  /\ csr' = IF csr.mcause \in Interrupts
            THEN [csr EXCEPT !.mie = @ \ {csr.mcause}] ELSE csr
  /\ mode' = IF fatal(csr.mcause) THEN "panic_halt" ELSE "core_exit"
  /\ rf' = Clobbered
  /\ UNCHANGED <<lut, stack, pc, before>>

(* A handler that leaves the context of the trapped program alone. *)
UserHandler ==
  /\ mode = "user"
  /\ mode' = "core_exit"
  /\ rf' = Clobbered
  /\ UNCHANGED <<lut, stack, csr, pc, before>>

(* trap_handler_emulate_unaligned_lw: base and destination come from the     *)
(* instruction word, the base's value from the frame.  Any other instruction *)
(* is only reported.                                                         *)
trap_handler_emulate_unaligned_lw ==
  /\ mode = "emulate_unaligned_lw"
  /\ LET i == csr.mtinst.load
     IN  stack' = IF ~i.lw THEN stack
                  ELSE neorv32_rte_context_put(i.rd, DataWord(neorv32_rte_context_get(i.rs1) + i.imm))
  /\ mode' = "core_exit"
  /\ rf' = Clobbered
  /\ UNCHANGED <<lut, csr, pc, before>>

(* __neorv32_rte_core after the handler, up to mret. *)
CoreExit ==
  /\ mode = "core_exit"
  /\ restoreContext
  /\ pc' = resumeAddress(csr.mcause, csr.mepc, csr.mtinst.compressed)
  /\ csr' = [csr EXCEPT !.mepc = pc']
  /\ mode' = "resumed"
  /\ UNCHANGED <<lut, stack, before>>

(* The application goes on, with registers of its own choice (MaxPc bounds   *)
(* the addresses): x3 and x4 hold addresses of the data block.               *)
MaxPc == 4
Proceed ==
  /\ mode = "resumed"
  /\ pc' = pc % MaxPc
  /\ rf' = [rf EXCEPT ![3] = before.rf[4], ![4] = (before.rf[3] + 1) % Len(DataBlock)]
  /\ mode' = "app"
  /\ UNCHANGED <<lut, stack, csr, before>>

RteInit ==
  /\ lut = [c \in TrapCodes |-> "panic"]
  /\ rf = [x \in Reg |-> CASE x = sp -> StackTop [] x = 4 -> 1 [] OTHER -> 0]
  /\ stack = [a \in 0 .. StackTop |-> 0]
  /\ csr = [mie |-> {}, mcause |-> "UNKNOWN", mepc |-> 0, mscratch |-> 0,
            mtinst |-> [load |-> NoLoad, compressed |-> FALSE]]
  /\ pc = 0
  /\ mode = "app"
  /\ before = [rf |-> rf, pc |-> 0, cause |-> "UNKNOWN", inst |-> csr.mtinst]

RteNext ==
  \/ neorv32_rte_setup \/ neorv32_rte_handler_install \/ neorv32_rte_handler_uninstall
  \/ EnableIrq \/ TakeTrap \/ CoreEnter \/ rte_panic \/ UserHandler
  \/ trap_handler_emulate_unaligned_lw \/ CoreExit \/ Proceed

RteSpec == RteInit /\ [][RteNext]_rteVars

-----------------------------------------------------------------------------
(* A trap is transparent to the program it interrupts: when the core has     *)
(* returned, every register has the value it had before, except that an      *)
(* emulated unaligned lw has put the word at the requested address into its  *)
(* destination (and nothing into x0); execution goes on at the next          *)
(* instruction after an exception and at the same one after an interrupt     *)
(* (__neorv32_rte_core, context_put, trap_handler_emulate_unaligned_lw).     *)
TrapTransparent ==
  mode = "resumed" =>
    LET i == before.inst.load
        emulated == before.cause = "L_MISALIGNED" /\ i.lw /\ lut["L_MISALIGNED"] # "panic"
        step == IF before.inst.compressed THEN 2 ELSE 4
    IN  /\ \A x \in Reg :
             rf[x] = IF emulated /\ x = i.rd /\ x # 0
                     THEN DataWord(before.rf[i.rs1] + i.imm) ELSE before.rf[x]
        /\ pc = IF before.cause \in Interrupts THEN before.pc ELSE before.pc + step
=============================================================================
