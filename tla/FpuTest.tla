------------------------------- MODULE FpuTest -------------------------------
(***************************************************************************)
(* floating_point_test: the program that verifies the Zfinx extension by   *)
(* comparing the hardware's results with the software reference functions  *)
(* of neorv32_zfinx_extension_intrinsics.h, test after test, and counts    *)
(* the differences.                                                        *)
(*                                                                         *)
(* A number is its sign, its class and, if it is normal, one of two        *)
(* magnitudes; rounding arithmetic and conversions are uninterpreted.      *)
(* Where nothing is rounded the hardware follows the RISC-V specification  *)
(* with subnormal numbers flushed to zero, except for the operation that   *)
(* is faulty.                                                              *)
(***************************************************************************)
EXTENDS Integers, Sequences, FiniteSets

CONSTANTS
  NUM_TEST_CASES,   \* test cases for each instruction
  Switches          \* the combinations of RUN_*_TESTS that are built

VARIABLES
  runTests,         \* the RUN_*_TESTS switches
  badOp,            \* the operation that the hardware gets wrong, or "none"
  fpTest,           \* number of the running test
  fpCase,           \* i: test cases done
  err_cnt, err_cnt_total, test_cnt,
  wrong,            \* wrong results and missing or unexpected traps so far
  fpVerdict         \* "running", or what the final report says

fpuVars == <<runTests, badOp, fpTest, fpCase, err_cnt, err_cnt_total, test_cnt, wrong, fpVerdict>>

-----------------------------------------------------------------------------
(* Floating-point numbers *)

Classes == {"zero", "subnormal", "small", "large", "infinite", "qnan", "snan"}
Float == [sign : {0, 1}, class : Classes]
NaN == [sign |-> 0, class |-> "qnan"]
isNaN(x) == x.class \in {"qnan", "snan"}
isNormal(x) == x.class \in {"small", "large"}
zero(s) == [sign |-> s, class |-> "zero"]
neg(x) == [x EXCEPT !.sign = 1 - @]

(* The position of a number that is not NaN on the real line *)
value(x) ==
  LET m == CASE x.class = "zero" -> 0 [] x.class = "subnormal" -> 1 [] x.class = "small" -> 2
             [] x.class = "large" -> 3 [] x.class = "infinite" -> 4
  IN  IF x.sign = 1 THEN 0 - m ELSE m

subnormal_flush(x) == IF x.class = "subnormal" THEN zero(x.sign) ELSE x

(* Rounded arithmetic of the C compiler's library and of the hardware *)
Arithmetic(op, a, b) == <<op, a, b>>

-----------------------------------------------------------------------------
(* The reference functions *)

riscv_emulate_fadds(a, b) == Arithmetic("add", subnormal_flush(a), subnormal_flush(b))
riscv_emulate_fsubs(a, b) == Arithmetic("sub", subnormal_flush(a), subnormal_flush(b))
riscv_emulate_fmuls(a, b) == Arithmetic("mul", subnormal_flush(a), subnormal_flush(b))
riscv_emulate_fcvt_wus(a) == Arithmetic("to_unsigned", subnormal_flush(a), zero(0))
riscv_emulate_fcvt_ws(a) == Arithmetic("to_signed", subnormal_flush(a), zero(0))
riscv_emulate_fcvt_swu(a) == Arithmetic("from_unsigned", a, zero(0))
riscv_emulate_fcvt_sw(a) == Arithmetic("from_signed", a, zero(0))

(* fmin and fmax of the C library, on numbers that are not NaN *)
fmin(a, b) == IF value(a) <= value(b) THEN a ELSE b
fmax(a, b) == IF value(a) >= value(b) THEN a ELSE b
bothZero(a, b) == a.class = "zero" /\ b.class = "zero" /\ a.sign # b.sign

riscv_emulate_fmins(rs1, rs2) ==
  LET a == subnormal_flush(rs1)
      b == subnormal_flush(rs2)
  IN  CASE isNaN(a) /\ isNaN(b) -> NaN
        [] isNaN(a) /\ ~isNaN(b) -> b
        [] ~isNaN(a) /\ isNaN(b) -> a
        [] OTHER -> IF bothZero(a, b) THEN zero(1) ELSE fmin(a, b)

riscv_emulate_fmaxs_First(rs1, rs2) ==  \* mutant: leaves the zeros to fmax
  LET a == subnormal_flush(rs1)
      b == subnormal_flush(rs2)
  IN  CASE isNaN(a) /\ isNaN(b) -> NaN
        [] isNaN(a) /\ ~isNaN(b) -> b
        [] ~isNaN(a) /\ isNaN(b) -> a
        [] OTHER -> fmax(a, b)

riscv_emulate_fmaxs(rs1, rs2) ==
  LET a == subnormal_flush(rs1)
      b == subnormal_flush(rs2)
  IN  CASE isNaN(a) /\ isNaN(b) -> NaN
        [] isNaN(a) /\ ~isNaN(b) -> b
        [] ~isNaN(a) /\ isNaN(b) -> a
        [] OTHER -> IF bothZero(a, b) THEN zero(0) ELSE fmax(a, b)

one(p) == IF p THEN 1 ELSE 0
compared(p(_, _), a, b) ==
  one(~isNaN(a) /\ ~isNaN(b) /\ p(value(subnormal_flush(a)), value(subnormal_flush(b))))

riscv_emulate_feqs(a, b) == LET p(x, y) == ~(x < y) /\ ~(x > y) IN compared(p, a, b)
riscv_emulate_flts(a, b) == LET p(x, y) == x < y IN compared(p, a, b)
riscv_emulate_fles(a, b) == LET p(x, y) == x <= y IN compared(p, a, b)

riscv_emulate_fsgnjs(a, b) ==
  IF b.sign # 0 THEN (IF a.sign = 0 THEN neg(a) ELSE a) ELSE (IF a.sign = 0 THEN a ELSE neg(a))
riscv_emulate_fsgnjns(a, b) ==
  IF b.sign # 0 THEN (IF a.sign = 0 THEN a ELSE neg(a)) ELSE (IF a.sign = 0 THEN neg(a) ELSE a)
riscv_emulate_fsgnjxs(a, b) ==
  IF a.sign # b.sign THEN (IF a.sign = 0 THEN neg(a) ELSE a) ELSE (IF a.sign = 0 THEN a ELSE neg(a))

(* The one that the classification sets, counted from the negative side *)
riscv_emulate_fclasss(a) ==
  CASE a.class = "infinite" -> IF a.sign = 1 THEN 0 ELSE 7
    [] a.class = "zero" -> IF a.sign = 1 THEN 3 ELSE 4
    [] isNormal(a) -> IF a.sign = 1 THEN 1 ELSE 6
    [] a.class = "subnormal" -> IF a.sign = 1 THEN 2 ELSE 5
    [] isNaN(a) -> IF a.class = "qnan" THEN 9 ELSE 8

Reference(op, a, b) ==
  CASE op = "FCVT.S.WU" -> riscv_emulate_fcvt_swu(a)
    [] op = "FCVT.S.W" -> riscv_emulate_fcvt_sw(a)
    [] op = "FCVT.WU.S" -> riscv_emulate_fcvt_wus(a)
    [] op = "FCVT.W.S" -> riscv_emulate_fcvt_ws(a)
    [] op = "FADD" -> riscv_emulate_fadds(a, b)
    [] op = "FSUB" -> riscv_emulate_fsubs(a, b)
    [] op = "FMUL" -> riscv_emulate_fmuls(a, b)
    [] op = "FMIN" -> riscv_emulate_fmins(a, b)
    [] op = "FMAX" -> riscv_emulate_fmaxs(a, b)
    [] op = "FEQ" -> riscv_emulate_feqs(a, b)
    [] op = "FLT" -> riscv_emulate_flts(a, b)
    [] op = "FLE" -> riscv_emulate_fles(a, b)
    [] op = "FSGNJ" -> riscv_emulate_fsgnjs(a, b)
    [] op = "FSGNJN" -> riscv_emulate_fsgnjns(a, b)
    [] op = "FSGNJX" -> riscv_emulate_fsgnjxs(a, b)
    [] op = "FCLASS" -> riscv_emulate_fclasss(a)
    [] OTHER -> <<op, a>>

(* What the RISC-V specification requires, of the operations that do not     *)
(* round, of a unit that flushes subnormal operands: the order has -0 below  *)
(* +0 for min and max, NaN is unordered.                                     *)
Isa(op, rs1, rs2) ==
  LET a == subnormal_flush(rs1)
      b == subnormal_flush(rs2)
      below(x, y) == value(x) < value(y) \/ (value(x) = value(y) /\ x.sign > y.sign)
      ordered == ~isNaN(a) /\ ~isNaN(b)
      pick(least) == CASE isNaN(a) -> IF isNaN(b) THEN NaN ELSE b
                       [] isNaN(b) -> a
                       [] OTHER -> IF below(a, b) <=> least THEN a ELSE b
      withSign(s) == [rs1 EXCEPT !.sign = s]
  IN  CASE op = "FMIN" -> pick(TRUE)
        [] op = "FMAX" -> pick(FALSE)
        [] op = "FEQ" -> IF ordered THEN one(value(a) = value(b)) ELSE 0
        [] op = "FLT" -> IF ordered THEN one(value(a) < value(b)) ELSE 0
        [] op = "FLE" -> IF ordered THEN one(value(a) <= value(b)) ELSE 0
        [] op = "FSGNJ" -> withSign(rs2.sign)
        [] op = "FSGNJN" -> withSign(1 - rs2.sign)
        [] op = "FSGNJX" -> withSign((rs1.sign + rs2.sign) % 2)
        [] op = "FCLASS" ->
             CHOOSE k \in 0 .. 9 :
               LET table == << <<1, "infinite">>, <<1, "normal">>, <<1, "subnormal">>, <<1, "zero">>,
                               <<0, "zero">>, <<0, "subnormal">>, <<0, "normal">>, <<0, "infinite">> >>
                   class == IF isNormal(rs1) THEN "normal" ELSE rs1.class
               IN  \/ k < 8 /\ table[k + 1] = <<rs1.sign, class>>
                   \/ k = 8 /\ class = "snan"
                   \/ k = 9 /\ class = "qnan"

Comparable == {"FMIN", "FMAX", "FEQ", "FLT", "FLE", "FSGNJ", "FSGNJN", "FSGNJX", "FCLASS"}

(* The results of a faultless unit.  Rounded arithmetic, conversions and     *)
(* CSRs have no specification here: the hardware is taken to agree with the  *)
(* reference, and what is examined of their tests is the count of errors.    *)
Right(op, a, b) == IF op \in Comparable THEN Isa(op, a, b) ELSE Reference(op, a, b)

-----------------------------------------------------------------------------
(* The tests, group by group: what is executed and how it is judged.         *)

compare(op) == [op |-> op, kind |-> "compare"]
count(op) == [op |-> op, kind |-> "count_only"]
timeout(op) == [op |-> op, kind |-> "corner"]
trapped(op, executed) == [op |-> op, executed |-> executed, kind |-> "unavailable"]
timed(op) == [op |-> op, kind |-> "timed"]

csrTests == <<compare("FFLAGS"), compare("FRM"), compare("FCSR")>>
excTests == <<count("NX"), count("DZ"), count("UF"), count("OV"), compare("NV")>>
convTests == <<compare("FCVT.S.WU"), compare("FCVT.S.W"), compare("FCVT.WU.S"), compare("FCVT.W.S")>>
addsubTests == <<compare("FADD"), compare("FSUB")>>
mulTests == <<compare("FMUL")>>
minmaxTests == <<compare("FMIN"), compare("FMAX")>>
compareTests == <<compare("FEQ"), compare("FLT"), compare("FLE")>>
sgninjTests == <<compare("FSGNJ"), compare("FSGNJN"), compare("FSGNJX")>>
classifyTests == <<compare("FCLASS")>>
cornerTests == <<timeout("FADD"), timeout("FCVT.WU.S"), timeout("FCVT.W.S"), timeout("FADD"), timeout("FSUB")>>
(* The instruction that a test announces, and the one that it executes *)
unavailTests ==
  <<trapped("FDIV", "FDIV"), trapped("FSQRT", "FSQRT"), trapped("FMADD", "FMADD"),
    trapped("FMSUB", "FMSUB"), trapped("FNMSUB", "FNMADD"), trapped("FNMADD", "FNMADD")>>
timingConversions == <<timed("FCVT.S.W"), timed("FCVT.W.S")>>
timingArithmetic == <<timed("FADD"), timed("FSUB"), timed("FMUL")>>
timingOthers == <<timed("FMAX"), timed("FLE"), timed("FSGNJX")>>

Built(name, tests) == IF name \in runTests THEN tests ELSE <<>>
FpTests ==
  Built("CSR", csrTests) \o Built("EXC", excTests) \o Built("CONV", convTests)
  \o Built("ADDSUB", addsubTests) \o Built("MUL", mulTests) \o Built("MINMAX", minmaxTests)
  \o Built("COMPARE", compareTests) \o Built("SGNINJ", sgninjTests)
  \o Built("CLASSIFY", classifyTests) \o Built("CORNER", cornerTests)
  \o Built("UNAVAIL", unavailTests)
  \o Built("TIMING", timingConversions \o timingArithmetic \o timingOthers)

FpRunning == fpVerdict = "running" /\ fpTest <= Len(FpTests)
Current == FpTests[fpTest]

(* get_test_vector: a special value now and then, of which the two bits of   *)
(* the selector reach the first four, and a random word otherwise.  Random   *)
(* words have numbers of every class, NaN included; the generator's state is *)
(* never 0, which is the word of +0.                                         *)
Infinite(s) == [sign |-> s, class |-> "infinite"]
special == <<Infinite(0), Infinite(1), zero(0), zero(1), NaN, neg(NaN), NaN, NaN, NaN>>
xorshift32 == Float \ {zero(0)}
get_test_vector == {special[(r % 4) + 1] : r \in 0 .. 7} \cup xorshift32

(* The hardware's result: a faulty unit may be wrong for some operands only. *)
hardware(op, a, b, ok) == IF op = badOp /\ ~ok THEN <<"wrong">> ELSE <<"result", Right(op, a, b)>>

(* verify_result: 1 if reference and hardware differ *)
verify_result(ref, res) == IF <<"result", ref>> # res THEN 1 ELSE 0

(* One test case of the tests that compare *)
TestCase ==
  /\ FpRunning /\ Current.kind \in {"compare", "timed"} /\ fpCase < NUM_TEST_CASES
  /\ \E opa, opb \in get_test_vector, ok \in BOOLEAN :
       LET res == hardware(Current.op, opa, opb, ok)
           differs == verify_result(Reference(Current.op, opa, opb), res)
       IN  /\ err_cnt' = (IF fpCase = 0 THEN 0 ELSE err_cnt) + differs
           /\ wrong' = (wrong \/ res = <<"wrong">>)
  /\ fpCase' = fpCase + 1
  /\ UNCHANGED <<runTests, badOp, fpTest, err_cnt_total, test_cnt, fpVerdict>>

(* print_report and the totals *)
FpReport ==
  /\ FpRunning /\ Current.kind = "compare" /\ fpCase = NUM_TEST_CASES
  /\ err_cnt_total' = err_cnt_total + err_cnt
  /\ test_cnt' = test_cnt + 1
  /\ fpTest' = fpTest + 1 /\ fpCase' = 0
  /\ UNCHANGED <<runTests, badOp, err_cnt, wrong, fpVerdict>>

(* A timing test counts as one error if any of its results differs. *)
TimedReport ==
  /\ FpRunning /\ Current.kind = "timed" /\ fpCase = NUM_TEST_CASES
  /\ err_cnt_total' = err_cnt_total + one(err_cnt # 0)
  /\ fpTest' = fpTest + 1 /\ fpCase' = 0
  /\ UNCHANGED <<runTests, badOp, err_cnt, test_cnt, wrong, fpVerdict>>

CountOnly ==
  /\ FpRunning /\ Current.kind = "count_only"
  /\ test_cnt' = test_cnt + 1
  /\ fpTest' = fpTest + 1
  /\ UNCHANGED <<runTests, badOp, fpCase, err_cnt, err_cnt_total, wrong, fpVerdict>>

(* A corner case fails by trapping: the operation has timed out.  The report *)
(* line shows err_cnt, which the test does not use.                          *)
CornerCase ==
  /\ FpRunning /\ Current.kind = "corner"
  /\ \E traps \in {FALSE, badOp = Current.op} :
       /\ err_cnt_total' = err_cnt_total + one(traps)
       /\ wrong' = (wrong \/ traps)
  /\ test_cnt' = test_cnt + 1
  /\ fpTest' = fpTest + 1
  /\ UNCHANGED <<runTests, badOp, fpCase, err_cnt, fpVerdict>>

(* An unsupported instruction must trap.  The unit is wrong if it executes   *)
(* the instruction of the announcement.                                      *)
Unavailable ==
  /\ FpRunning /\ Current.kind = "unavailable"
  /\ err_cnt_total' = err_cnt_total + one(badOp = Current.executed)
  /\ wrong' = (wrong \/ badOp = Current.op)
  /\ fpTest' = fpTest + 1
  /\ UNCHANGED <<runTests, badOp, fpCase, err_cnt, test_cnt, fpVerdict>>

Final ==
  /\ fpVerdict = "running" /\ fpTest > Len(FpTests)
  /\ fpVerdict' = IF err_cnt_total # 0 THEN "failed" ELSE "successful"
  /\ UNCHANGED <<runTests, badOp, fpTest, fpCase, err_cnt, err_cnt_total, test_cnt, wrong>>

FpuInit ==
  /\ runTests \in Switches
  /\ badOp \in {FpTests[i].op : i \in 1 .. Len(FpTests)} \cup {"none"}
  /\ fpTest = 1 /\ fpCase = 0
  /\ err_cnt = 0 /\ err_cnt_total = 0 /\ test_cnt = 0
  /\ wrong = FALSE
  /\ fpVerdict = "running"

FpuNext == TestCase \/ FpReport \/ TimedReport \/ CountOnly \/ CornerCase \/ Unavailable \/ Final

-----------------------------------------------------------------------------
(* One fault in the unit, for any operation and any of its operands, shows   *)
(* in the final report however many tests pass after it, and a unit without  *)
(* one is never accused: the final report says "failed" exactly if some      *)
(* result was wrong, an operation timed out or an instruction executed that  *)
(* was announced as unsupported.  For the operations in Comparable this      *)
(* needs the reference functions to agree with the specification on all      *)
(* operands, zeros of both signs, subnormals and NaNs included.              *)
(* One exception: a unit that executes FNMSUB passes, as the test that       *)
(* announces FNMSUB.S (main.c:651) executes FNMADD.S instead (main.c:655).   *)
FpuVerdictExact ==
  fpVerdict # "running" => (fpVerdict = "failed" <=> wrong /\ badOp # "FNMSUB")
=============================================================================
