--------------------------- MODULE PerformanceTest ---------------------------
(***************************************************************************)
(* The instruction benchmarks of sw/example/performance_tests.  Each       *)
(* program is a list of groups a build option selects; a group announces   *)
(* how many instructions it tests and then measures them one after the     *)
(* other: read the cycle counter, run instLoop rounds of instCalls copies, *)
(* read the counter again, add the difference to the total.                *)
(***************************************************************************)
EXTENDS Integers, Sequences

CONSTANTS CounterSize,  \* values of the 32 bit cycle counter and totals
          instLoop,     \* rounds of a measurement
          instCalls,    \* copies of the instruction in one round
          MaxCycles,    \* bound: cycles one instruction takes
          LoopCycles,   \* cycles of the loop control of one round
          Cores         \* what auipc, and jal with csrw, take on the cores that are measured

ASSUME PerformanceAssumption ==
    /\ CounterSize \in Nat \ {0} /\ instLoop \in Nat \ {0} /\ instCalls \in Nat \ {0}
    /\ MaxCycles \in Nat \ {0} /\ LoopCycles \in Nat
    /\ Cores \subseteq [auipc : Nat, jal_csrw : Nat]

(***************************************************************************)
(* The groups: the amount added to instToTest and the measurements.        *)
(***************************************************************************)
Group(announced, measured) == [announced |-> announced, measured |-> measured]

(* A conditional branch is measured not taken, taken forward and taken     *)
(* backward; the set-up of its operands is outside the measured interval.  *)
Branch(b) == Group(3, << <<b, "no branch">>, <<b, "forward">>, <<b, "backward">> >>)

rv32I_arith == Group(5, <<"add", "addi", "sub", "lui", "auipc">>)
rv32I_shift_Five == Group(5, <<"sll", "slli", "srl", "srli", "sra", "srai">>)  \* mutant: srai not counted
rv32I_shift == Group(6, <<"sll", "slli", "srl", "srli", "sra", "srai">>)
rv32I_logic == Group(6, <<"xor", "xori", "and", "andi", "or", "ori">>)
rv32I_comp == Group(4, <<"slt", "slti", "sltu", "sltiu">>)
rv32I_load == Group(5, <<"lb", "lh", "lbu", "lhu", "lw">>)
rv32I_store == Group(3, <<"sb", "sh", "sw">>)
rv32I_csr == Group(6, <<"csrrw", "csrrs", "csrrc", "csrrwi", "csrrsi", "csrrci">>)
rv32I_sync == Group(2, <<"fence", "fence.i">>)
rv32I_jump == Group(2, <<"jal", "jalr">>)
rv32I_branch_beq == Branch("beq")
rv32I_branch_bne == Branch("bne")
rv32I_branch_blt == Branch("blt")
rv32I_branch_bge == Branch("bge")
rv32I_branch_bltu == Branch("bltu")
rv32I_branch_bgeu == Branch("bgeu")
rv32I_mret == Group(1, <<"mret">>)

rv32M_mult == Group(4, <<"mul", "mulh", "mulhsu", "mulhu">>)
rv32M_div == Group(2, <<"div", "divu">>)
rv32M_rem == Group(2, <<"rem", "remu">>)

(* The floating-point additions and subtractions are measured with         *)
(* operands for the exception path, the shortest and the longest run.      *)
rv32Zfinx_addsub == << <<"fadd", "exception">>, <<"fadd", "min">>, <<"fadd", "max">>,
                       <<"fsub", "exception">>, <<"fsub", "min">> >>
rv32Zfinx_mul == << <<"fsub", "max">>, <<"fmul", "exception">>, <<"fmul", "normal">> >>
rv32Zfinx_arith == Group(8, rv32Zfinx_addsub \o rv32Zfinx_mul)
rv32Zfinx_sign == Group(3, <<"fsgnj", "fsgnjn", "fsgnjx">>)
(* Announces three instructions and measures two. *)
rv32Zfinx_minmax == Group(3, <<"fmin", "fmax">>)
rv32Zfinx_comp == Group(3, <<"feq", "flt", "fle">>)
rv32Zfinx_toFloat == << <<"fcvt.s.w", "min">>, <<"fcvt.s.w", "max">>,
                        <<"fcvt.s.wu", "min">>, <<"fcvt.s.wu", "max">> >>
rv32Zfinx_toInt == << <<"fcvt.w.s", "min">>, <<"fcvt.w.s", "max">>,
                      <<"fcvt.wu.s", "min">>, <<"fcvt.wu.s", "max">> >>
rv32Zfinx_conv == Group(8, rv32Zfinx_toFloat \o rv32Zfinx_toInt)
rv32Zfinx_cat == Group(1, <<"fclass">>)
rv32Zfinx_csrRead == <<"frcsr", "frrm", "frflags">>
rv32Zfinx_csrWrite == <<"fscsr", "fsrm", "fsflags", "fsrmi", "fsflagsi">>
rv32Zfinx_csr == Group(8, rv32Zfinx_csrRead \o rv32Zfinx_csrWrite)

(* The programs, as the groups in the order of their main functions, and   *)
(* the groups the option rv32_all leaves out.                              *)
PerformanceI == <<rv32I_arith, rv32I_shift, rv32I_logic, rv32I_comp, rv32I_load, rv32I_store,
                  rv32I_csr, rv32I_sync, rv32I_jump, rv32I_branch_beq, rv32I_branch_bne,
                  rv32I_branch_blt, rv32I_branch_bge, rv32I_branch_bltu, rv32I_branch_bgeu,
                  rv32I_mret>>
PerformanceM == <<rv32M_mult, rv32M_div, rv32M_rem>>
PerformanceZfinx == <<rv32Zfinx_arith, rv32Zfinx_sign, rv32Zfinx_minmax, rv32Zfinx_comp,
                      rv32Zfinx_conv, rv32Zfinx_cat, rv32Zfinx_csr>>
rv32_all(groups) == {g \in DOMAIN groups : groups[g] # rv32I_mret}

(***************************************************************************)
(* Some measurements need helper instructions: jalr an auipc in front of   *)
(* it, mret the jump to it and the write of mepc.  What they take is a     *)
(* figure kept by hand in the program, for the user to adapt to the core   *)
(* (performance_tests/I/README.md), and taken off the measured time.       *)
(***************************************************************************)
rv32I_jalr_auipc_cycles == 2
rv32I_mret_jal_csrw_cycles == 11

(* The offset the program subtracts from the measured interval.            *)
offset(inst) ==
    instCalls * instLoop * (CASE inst = "jalr" -> rv32I_jalr_auipc_cycles
                              [] inst = "mret" -> rv32I_mret_jal_csrw_cycles
                              [] OTHER -> 0)

VARIABLES suite,       \* the program: its sequence of groups
          options,     \* the groups that are compiled in
          core,        \* the core that is measured
          group, inst, \* the group and measurement that are next
          startTime,   \* cycle counter when the next measurement starts
          totalTime, instToTest,
          truth,       \* measurements made, and the cycles that their instructions take
          average      \* the summary, once printed

perfVars == <<suite, options, core, group, inst, startTime, totalTime, instToTest, truth, average>>

(* The two jumps into and out of the chain of backward branches of a round. *)
Chain(i) == IF i \in {"beq", "bne", "blt", "bge", "bltu", "bgeu"} \X {"backward"} THEN 2 ELSE 0

(* The cycles that pass on the core between the two reads of the counter.  *)
Elapsed(i, cycles) ==
    LET helpers == CASE i = "jalr" -> core.auipc [] i = "mret" -> core.jal_csrw [] OTHER -> 0
    IN  instLoop * (instCalls * (cycles + helpers) + LoopCycles + Chain(i))

PerfInit ==
    /\ suite \in {PerformanceI, PerformanceM, PerformanceZfinx}
    /\ options \in {{}, rv32_all(suite)} \cup {{g} : g \in DOMAIN suite}
    /\ core \in Cores
    /\ group = 1 /\ inst = 0
    /\ startTime \in {0, CounterSize - 1}
    /\ totalTime = 0 /\ instToTest = 0
    /\ truth = [measured |-> 0, cycles |-> 0]
    /\ average = <<>>

(* Enter a group: skipped when not compiled in.                            *)
EnterGroup ==
    /\ group <= Len(suite) /\ inst = 0
    /\ IF group \in options
         THEN /\ instToTest' = instToTest + suite[group].announced
              /\ inst' = 1 /\ UNCHANGED group
         ELSE /\ group' = group + 1
              /\ UNCHANGED <<inst, instToTest>>
    /\ UNCHANGED <<suite, options, core, startTime, totalTime, truth, average>>

(* One measurement.  The counter and the total are 32 bit wide; the cycle  *)
(* counter runs on while the result is printed.                            *)
Measure ==
    /\ group <= Len(suite) /\ inst > 0
    /\ \E cycles \in 1 .. MaxCycles :
         LET i == suite[group].measured[inst]
             stopTime == (startTime + Elapsed(i, cycles)) % CounterSize
         IN  /\ totalTime' = (totalTime + stopTime - startTime - offset(i)) % CounterSize
             /\ startTime' = stopTime
             /\ truth' = [measured |-> truth.measured + 1, cycles |-> truth.cycles + cycles]
    /\ IF inst < Len(suite[group].measured)
         THEN inst' = inst + 1 /\ UNCHANGED group
         ELSE inst' = 0 /\ group' = group + 1
    /\ UNCHANGED <<suite, options, core, instToTest, average>>

(* The summary: cycles per instruction, whole part and thousandths.  With  *)
(* no group compiled in the division is by zero, which RISC-V answers with *)
(* all bits set.                                                           *)
Summary ==
    LET instructions == instToTest * instLoop * instCalls IN
    /\ group > Len(suite) /\ average = <<>>
    /\ average' = IF instructions = 0 THEN <<CounterSize - 1, CounterSize - 1>>
                  ELSE <<totalTime \div instructions,
                         ((totalTime % instructions) * 1000) \div instructions>>
    /\ UNCHANGED <<suite, options, core, group, inst, startTime, totalTime, instToTest, truth>>

PerfNext == EnterGroup \/ Measure \/ Summary

PerfSpec == PerfInit /\ [][PerfNext]_perfVars

(***************************************************************************)
(* Properties.                                                             *)
(***************************************************************************)
(* The summary counts the instructions that were measured, and its average *)
(* is theirs: never below what they take on the core, and above it by no   *)
(* more than the loop control and the two jumps of a branch chain add, for *)
(* every selection of groups, across the wrap of the 32 bit counter.  It   *)
(* rests on figures kept by hand: the announced number of every group, and *)
(* the cycles of the helper instructions.  Two exceptions: the min/max     *)
(* group of the Zfinx program announces one instruction more than it       *)
(* measures, and a core with other helper cycles spoils jalr and mret.     *)
AverageSound ==
    LET minmax == \E g \in options : suite[g] = rv32Zfinx_minmax
        helped == \E g \in options : suite[g] \in {rv32I_jump, rv32I_mret}
        adapted == /\ core.auipc = rv32I_jalr_auipc_cycles
                   /\ core.jal_csrw = rv32I_mret_jal_csrw_cycles
        printed == 1000 * average[1] + average[2]
        m == truth.measured
    IN  average # <<>> =>
          /\ instToTest = m + (IF minmax THEN 1 ELSE 0)
          /\ m > 0 /\ ~minmax /\ (helped => adapted) =>
               /\ printed >= (1000 * truth.cycles) \div m
               /\ printed <= (1000 * (truth.cycles * instCalls + m * (LoopCycles + 2))) \div (m * instCalls)
=============================================================================
