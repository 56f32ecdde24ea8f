------------------------------ MODULE SelfTest ------------------------------
(***************************************************************************)
(* The processor check of sw/example/processor_check: a list of tests that *)
(* provoke traps and compare the cause the trap handler saw with the one   *)
(* that had to happen.  The tests share the interrupt enables, the levels  *)
(* of the interrupt lines, the privilege mode and the cause variable, so   *)
(* each one runs in whatever state its predecessors left.  The processor   *)
(* under test is right, or wrong in one test.                              *)
(***************************************************************************)
EXTENDS Integers, Sequences

CONSTANT Configurations  \* sets of optional features of the processor

VARIABLES have,   \* the features of the processor under test
          fault,  \* [test, kind]: where it is wrong; test 0 when it is right
          test,   \* the test that runs or is next
          at,     \* 0: between tests; else the operation of the test that is next
          hart,   \* machine state of the hart, and what the handlers recorded
          cnt,    \* [ok, fail, test]: the result counters
          verdict \* "none" while running; "ok", "failed" or "error"

selfVars == <<have, fault, test, at, hart, cnt, verdict>>

(***************************************************************************)
(* Operations a test is made of.                                           *)
(***************************************************************************)
WriteMie(S) == <<"mie", S>>       \* csr_write(CSR_MIE, S)
SetMie(S)   == <<"mie set", S>>   \* csr_set(CSR_MIE, S)
SetMIE      == <<"MIE", TRUE>>    \* csr_set(CSR_MSTATUS, MIE)
ClrMIE      == <<"MIE", FALSE>>   \* csr_clr(CSR_MSTATUS, MIE)
SetMPIE     == <<"MPIE", TRUE>>
ClrMPIE     == <<"MPIE", FALSE>>
MachineCsr  == <<"csr">>          \* any access to a machine-mode CSR
User        == <<"user">>         \* goto_user_mode()
Exc(c)      == <<"exc", c>>       \* an instruction that has to raise exception c
Up(l)       == <<"up", l>>        \* interrupt line l goes up at once
Down(l)     == <<"down", l>>
Start(l)    == <<"start", l>>     \* something that raises line l later
Sleep       == <<"sleep">>        \* wfi
Install(c, h) == <<"install", c, h>>
Mtvec(v)    == <<"mtvec", v>>
Note(C)     == <<"note", C>>      \* compare trap_cause with the causes C
NoteMcause(C) == <<"note mcause", C>>
Pending(l, b) == <<"pending", l, b>> \* compare mip.l with b
Vectored    == <<"vectored">>     \* compare vectored_mei_handler_ack with 1
StillMasked == <<"masked">>       \* compare mstatus.MIE with 0
Service     == <<"service">>      \* compare the result of the system call
Reset       == <<"reset">>        \* trap_cause = trap_never_c
Mark        == <<"mark">>         \* tmp = trap_cnt
Counted(n)  == <<"counted", n>>   \* compare trap_cnt with tmp + n
TwdCount(n) == <<"twd", n>>       \* compare the interrupts twd_trap_handler counted
Data        == <<"data">>         \* compare a value the test read or computed
Kept        == <<"kept">>         \* compare what a trapping instruction must not have changed
Require(f)  == <<"require", f>>   \* return 1 unless the processor has f

Never == {"never"}
Illegal == {"I_ILLEGAL"}

(* A test: the features it is skipped without, its operations up to the    *)
(* verdict, the clean-up after it, and whether trap_cause is cleared first. *)
Test(needs, ops, after) == [needs |-> needs, ops |-> ops, after |-> after, clears |-> TRUE]

(***************************************************************************)
(* CPU: counters, memory, exceptions.                                      *)
(***************************************************************************)
HpmSetup == Test({"ZIHPM"}, <<MachineCsr, Note(Never)>>, <<MachineCsr>>)
PmpSetup == Test({"PMP"}, <<MachineCsr, Require("PMP_UNLOCKED"), Require("PMP_TOR"),
                            Require("PMP_NAPOT"), Note(Never), Data>>, <<>>)
Fences == Test({}, <<Data, Note(Never)>>, <<>>)
Zicntr == Test({}, <<MachineCsr, Data, Note(Never)>>, <<>>)
Mcounteren == Test({"U"}, <<MachineCsr, User, Exc("I_ILLEGAL"), Kept, MachineCsr, Note(Illegal)>>,
                   <<MachineCsr>>)
Mcountinhibit == Test({}, <<MachineCsr, Data, Note(Never)>>, <<MachineCsr>>)
CounterFiltering == Test({"SMCNTRPMF"}, <<MachineCsr, User, Exc("UENV_CALL"), Data>>, <<MachineCsr>>)
MayBeOperations ==
    Test({}, IF "ZIMOP" \in have THEN <<MachineCsr, Note(Never), Data>>
             ELSE <<Exc("I_ILLEGAL"), MachineCsr, Note(Illegal)>>, <<>>)
MretInUserMode == Test({"U"}, <<User, Exc("I_ILLEGAL"), Note(Illegal)>>, <<>>)
ExternalMemory == Test({"XBUS", "SIM"}, <<MachineCsr, Note(Never), Data>>, <<>>)
DcacheWriteBack == Test({"DCACHE", "SIM"}, <<Exc("L_ACCESS"), Note({"L_ACCESS"}), Reset,
                                             Note(Never), Reset,
                                             Exc("S_ACCESS"), Note({"S_ACCESS"})>>, <<>>)
IllegalCsr == Test({}, <<Exc("I_ILLEGAL"), Kept, Note(Illegal)>>, <<>>)
ReadOnlyCsr_Stale == [Test({}, <<Exc("I_ILLEGAL"), Note(Illegal)>>, <<>>)  \* mutant: trap_cause is not cleared
                        EXCEPT !.clears = FALSE]
ReadOnlyCsr == Test({}, <<Exc("I_ILLEGAL"), Note(Illegal)>>, <<>>)
NoWriteCsr == Test({}, <<Note(Never)>>, <<>>)
FetchAlign == Test({"noC"}, <<Exc("I_MISALIGNED"), Note({"I_MISALIGNED"}), Kept>>, <<>>)
FetchAccess == Test({"SIM"}, <<Exc("I_ACCESS"), Note({"I_ACCESS"})>>, <<>>)
(* MIE serves as a scratch register here and keeps the value 8.            *)
FetchUnaligned == Test({"C", "XBUS", "SIM"}, <<WriteMie({"MSI"}), Exc("I_ACCESS"), Note({"I_ACCESS"}),
                                              Data, MachineCsr>>, <<>>)
IllegalInstruction ==
    LET n == IF "C" \in have THEN 15 ELSE 13 IN
    Test({}, <<ClrMIE, Mark>> \o [i \in 1 .. n |-> Exc("I_ILLEGAL")]
             \o <<MachineCsr, Counted(n), Note(Illegal), Data>>, <<SetMIE>>)
Breakpoint == Test({"SIM"}, <<Exc("BREAKPOINT"), Note({"BREAKPOINT"})>>, <<>>)
LoadAlign == Test({}, <<Exc("L_MISALIGNED"), Note({"L_MISALIGNED"}), Kept>>, <<>>)
LoadAccess == Test({}, <<Exc("L_ACCESS"), Note({"L_ACCESS"}), Kept>>, <<>>)
StoreAlign == Test({}, <<Exc("S_MISALIGNED"), Note({"S_MISALIGNED"}), Kept>>, <<>>)
StoreAccess == Test({}, <<Exc("S_ACCESS"), Note({"S_ACCESS"}), Data>>, <<>>)
EnvCallM == Test({}, <<ClrMIE, SetMPIE, Exc("MENV_CALL"), Note({"MENV_CALL"}), StillMasked>>, <<>>)
EnvCallU == Test({"U"}, <<User, Exc("UENV_CALL"), Note({"UENV_CALL"})>>, <<>>)

(***************************************************************************)
(* Interrupts of the core-local interruptor and the test bench.            *)
(***************************************************************************)
ClintMti == Test({"CLINT"}, <<Up("MTI"), WriteMie({"MTI"}), WriteMie({}), Note({"MTI"}), Data>>,
                 <<Down("MTI")>>)
ClintMsi == Test({"CLINT"}, <<WriteMie({"MSI"}), Up("MSI"), WriteMie({}), Down("MSI"), Note({"MSI"})>>, <<>>)
TestbenchMei == Test({"SIM"}, <<WriteMie({"MEI"}), Up("MEI"), WriteMie({}), Down("MEI"), Note({"MEI"})>>, <<>>)
PermanentIrq == Test({"CLINT"}, <<WriteMie({"MTI"}), Up("MTI"), WriteMie({}), Data>>, <<>>)
PendingIrq == Test({"CLINT"}, <<WriteMie({}), Up("MTI"), Pending("MTI", TRUE),
                                Down("MTI"), Pending("MTI", FALSE)>>, <<>>)
VectoredIrq == Test({"SIM"}, <<Mtvec("vectored"), WriteMie({"MEI"}), Up("MEI"), WriteMie({}),
                               Down("MEI"), Vectored>>, <<Mtvec("rte")>>)

(***************************************************************************)
(* Fast interrupts of the peripherals.                                     *)
(***************************************************************************)
(* Wait for the interrupt of l, then mask it again.                        *)
Await(l) == <<WriteMie({l}), Start(l), Sleep, WriteMie({})>>

Uart0Irq == Test({"UART0", "UART1"}, Await("UART0") \o <<Note({"UART0"}), Data>>, <<>>)
Uart1Irq == Test({"UART0", "UART1"}, <<Up("UART1"), WriteMie({"UART1"}), Sleep, WriteMie({}),
                                       Note({"UART1"}), Data>>, <<>>)
(* Each of the four interrupts is taken while the hart sleeps.             *)
TwdIrq == Test({"TWD"}, <<Install("TWD", "twd"), SetMie({"TWD"}), SetMIE,
                          Start("TWD"), Sleep, Start("TWD"), Sleep, Start("TWD"), Sleep,
                          Start("TWD"), Sleep, WriteMie({}),
                          NoteMcause({"TWD"}), TwdCount(4), Data>>, <<>>)
TracerIrq == Test({"TRACER"}, <<WriteMie({"TRACER"}), Up("TRACER"), Down("TRACER"), WriteMie({}),
                                Note({"TRACER"}), Data>>, <<>>)
SpiIrq == Test({"SPI"}, Await("SPI") \o <<Note({"SPI"}), Data>>, <<>>)
TwiIrq == Test({"TWI"}, <<Start("TWI"), WriteMie({"TWI"}), Sleep, WriteMie({}), Note({"TWI"}), Data>>, <<>>)
GpioIrq == Test({"GPIO"}, <<Install("GPIO", "gpio"), SetMie({"GPIO"}), SetMIE, Up("GPIO"),
                            WriteMie({}), Note({"GPIO"}), Data>>, <<>>)
NeoledIrq == Test({"NEOLED"}, <<WriteMie({"NEOLED"}), Up("NEOLED"), WriteMie({}), Note({"NEOLED"}), Data>>, <<>>)
DmaIrq == Test({"DMA"}, Await("DMA") \o <<Note({"DMA"}), Data>>, <<Down("DMA")>>)
SdiIrq == Test({"SDI", "SPI"}, Await("SDI") \o <<Note({"SDI"}), Data>>, <<>>)
GptmrIrq == Test({"GPTMR"}, Await("GPTMR") \o <<Note({"GPTMR"}), Data, Down("GPTMR"), Data>>, <<>>)
OnewireIrq == Test({"ONEWIRE"}, <<Start("ONEWIRE"), WriteMie({"ONEWIRE"}), Sleep, WriteMie({}),
                                  Note({"ONEWIRE"})>>, <<>>)
SlinkIrq == Test({"SLINK"}, <<WriteMie({"SLINK"}), Up("SLINK"), WriteMie({}), Note({"SLINK"}), Data>>, <<>>)
TrngIrq == Test({"TRNG"}, Await("TRNG") \o <<Note({"TRNG"}), Data>>, <<Down("TRNG")>>)

(***************************************************************************)
(* Runtime environment, sleep, atomics, memory protection, second core.    *)
(***************************************************************************)
RteContext == Test({}, <<Install("MENV_CALL", "service"), Install("UENV_CALL", "service"), User,
                         Exc("ENV_CALL"), Install("MENV_CALL", "global"), Install("UENV_CALL", "global"),
                         Note({"MENV_CALL", "UENV_CALL"}), Service>>, <<>>)
HeapMalloc == Test({}, <<Data, Note(Never)>>, <<>>)
ConstructorCalled == Test({}, <<Data>>, <<>>)
UserModeWfi == Test({"CLINT", "U"}, <<Down("MTI"), Start("MTI"), WriteMie({"MTI"}), ClrMIE, ClrMPIE, User,
                                      Sleep, WriteMie({}), Note({"MTI"})>>, <<>>)
WfiPending == Test({"CLINT"}, <<ClrMIE, Down("MTI"), Start("MTI"), WriteMie({"MTI"}), Sleep,
                                WriteMie({}), SetMIE, Note(Never)>>, <<>>)
WfiDisallowed == Test({"U"}, <<MachineCsr, User, Exc("I_ILLEGAL"), Note(Illegal)>>, <<>>)
UserCsrAccess == Test({"U"}, <<User, Exc("I_ILLEGAL"), Kept, Note(Illegal)>>, <<>>)
AmoLrSc == Test({"ZALRSC"}, <<Data, Note(Never)>>, <<>>)
AmoRmw == Test({"ZALRSC"}, <<Mark, Exc("S_MISALIGNED"), Counted(1), Note({"S_MISALIGNED"}), Data>>, <<>>)
PmpUserDenied == Test({"PMP"}, <<User, Exc("L_ACCESS"), Kept, Note({"L_ACCESS"})>>, <<>>)
PmpConfig == Test({"PMP"}, <<MachineCsr, Data, Note(Never)>>, <<>>)
PmpUserRead == Test({"PMP"}, <<User, Exc("UENV_CALL"), Data>>, <<>>)
PmpUserWrite == Test({"PMP"}, <<User, Exc("S_ACCESS"), Kept, Note({"S_ACCESS"})>>, <<>>)
PmpUserExecute == Test({"PMP"}, <<User, Exc("I_ACCESS"), Note({"I_ACCESS"})>>, <<>>)
PmpMachineAsUser == Test({"PMP"}, <<MachineCsr, Exc("S_ACCESS"), MachineCsr, Note({"S_ACCESS"}), Kept>>, <<>>)
PmpLocked == Test({"PMP"}, <<MachineCsr, Exc("S_ACCESS"), Note({"S_ACCESS"}), Kept>>, <<>>)
DualCore == Test({"SMP", "CLINT"}, Await("MSI") \o <<Down("MSI"), Data, Note({"MSI"})>>, <<>>)

Tests == <<HpmSetup, PmpSetup, Fences, Zicntr, Mcounteren, Mcountinhibit, CounterFiltering,
    MayBeOperations, MretInUserMode, ExternalMemory, DcacheWriteBack, IllegalCsr, ReadOnlyCsr,
    NoWriteCsr, FetchAlign, FetchAccess, FetchUnaligned, IllegalInstruction, Breakpoint, LoadAlign,
    LoadAccess, StoreAlign, StoreAccess, EnvCallM, EnvCallU, ClintMti, ClintMsi, TestbenchMei,
    PermanentIrq, PendingIrq, VectoredIrq, Uart0Irq, Uart1Irq, TwdIrq, TracerIrq, SpiIrq, TwiIrq,
    GpioIrq, NeoledIrq, DmaIrq, SdiIrq, GptmrIrq, OnewireIrq, SlinkIrq, TrngIrq, RteContext,
    HeapMalloc, ConstructorCalled, UserModeWfi, WfiPending, WfiDisallowed, UserCsrAccess, AmoLrSc,
    AmoRmw, PmpUserDenied, PmpConfig, PmpUserRead, PmpUserWrite, PmpUserExecute, PmpMachineAsUser,
    PmpLocked, DualCore>>
NumTests == 62

(***************************************************************************)
(* Trap handlers.  The hart saves MIE in MPIE when it enters a trap, and   *)
(* mret restores it and sets MPIE: a trap leaves MIE as it was.            *)
(***************************************************************************)
global_trap_handler(h, c) ==
    [h EXCEPT !.trap_cause = c, !.trap_cnt = @ + 1, !.mode = "M"]
rte_service_handler(h, c) == [h EXCEPT !.trap_cause = c, !.service = TRUE, !.mode = "M"]
vectored_mei_handler(h, c) == [h EXCEPT !.trap_cause = c, !.vectored_mei_handler_ack = TRUE]
gpio_trap_handler(h, c) == [h EXCEPT !.trap_cause = c, !.lines = @ \ {"GPIO"}]
twd_trap_handler(h, c) == [h EXCEPT !.twd_irq = @ + 1, !.lines = @ \ {"TWD"}]

vectored_irq_table(h, c) ==
    IF c = "MEI" THEN vectored_mei_handler(h, c) ELSE global_trap_handler(h, c)

Handler(h, c) == IF c \in DOMAIN h.handler THEN h.handler[c] ELSE "global"

Trap(h, c) ==
    LET e == [h EXCEPT !.mcause = c, !.MPIE = TRUE] IN
    IF h.mtvec = "vectored" THEN vectored_irq_table(e, c)
    ELSE CASE Handler(h, c) = "global" -> global_trap_handler(e, c)
           [] Handler(h, c) = "service" -> rte_service_handler(e, c)
           [] Handler(h, c) = "gpio" -> gpio_trap_handler(e, c)
           [] Handler(h, c) = "twd" -> twd_trap_handler(e, c)

(* mret with MPP = user; MPIE is set when MIE is, and never cleared.       *)
goto_user_mode(h) ==
    [h EXCEPT !.mode = IF "U" \in have THEN "U" ELSE "M", !.MIE = h.MPIE \/ h.MIE, !.MPIE = TRUE]

(* An enabled interrupt is taken in user mode, or in machine mode with MIE. *)
Interrupt(h) ==
    IF h.mie \cap h.lines # {} /\ (h.MIE \/ h.mode = "U")
      THEN Trap(h, CHOOSE l \in h.mie \cap h.lines : TRUE)
      ELSE h

(***************************************************************************)
(* What an operation does to the hart.                                     *)
(***************************************************************************)
Wrong(kind) == fault = [test |-> test, kind |-> kind]

Csr(h, written) == IF h.mode = "U" THEN Trap(h, "I_ILLEGAL") ELSE written

Compare(h, b) == [h EXCEPT !.good = @ /\ b]

Cause(h, c) == IF c # "ENV_CALL" THEN c ELSE IF h.mode = "U" THEN "UENV_CALL" ELSE "MENV_CALL"

Effect(h, o) ==
    LET k == o[1] IN
    CASE k = "mie" -> Csr(h, [h EXCEPT !.mie = o[2]])
      [] k = "mie set" -> Csr(h, [h EXCEPT !.mie = @ \cup o[2]])
      [] k = "MIE" -> Csr(h, [h EXCEPT !.MIE = o[2]])
      [] k = "MPIE" -> Csr(h, [h EXCEPT !.MPIE = o[2]])
      [] k = "mtvec" -> Csr(h, [h EXCEPT !.mtvec = o[2]])
      [] k = "csr" -> Csr(h, h)
      [] k = "user" -> goto_user_mode(h)
      [] k = "exc" -> IF Wrong("missing") THEN h ELSE Trap(h, Cause(h, o[2]))
      [] k = "up" -> IF Wrong("missing") THEN h ELSE [h EXCEPT !.lines = @ \cup {o[2]}]
      [] k = "down" -> [h EXCEPT !.lines = @ \ {o[2]}]
      [] k = "start" -> IF Wrong("missing") THEN h ELSE [h EXCEPT !.events = @ \cup {o[2]}]
      [] k = "sleep" -> [h EXCEPT !.lines = @ \cup h.events, !.events = {}]
      [] k = "install" -> [h EXCEPT !.handler[o[2]] = o[3]]
      [] k = "reset" -> [h EXCEPT !.trap_cause = "never"]
      [] k = "mark" -> [h EXCEPT !.mark = h.trap_cnt]
      [] k = "note" -> Compare(h, h.trap_cause \in o[2])
      [] k = "note mcause" -> Compare(h, h.mcause \in o[2])
      [] k = "pending" -> Compare(h, (o[2] \in h.lines) = o[3])
      [] k = "vectored" -> Compare(h, h.vectored_mei_handler_ack)
      [] k = "masked" -> Compare(h, ~h.MIE)
      [] k = "service" -> Compare(h, h.service)
      [] k = "counted" -> Compare(h, h.trap_cnt = h.mark + o[2])
      [] k = "twd" -> Compare(h, h.twd_irq = o[2])
      [] k = "data" -> Compare(h, ~Wrong("data"))
      [] k = "kept" -> Compare(h, ~Wrong("data") /\ ~Wrong("missing"))
      [] k = "require" -> h

(* wfi lasts until an enabled interrupt is pending, whatever MIE says.     *)
Wakes(h) == h.mie \cap (h.lines \cup h.events) # {}

(***************************************************************************)
(* The program.                                                            *)
(***************************************************************************)
Kinds == {"missing", "spurious", "data"}

SelfInit ==
    /\ have \in Configurations
    /\ fault \in [test : {0}, kind : {"none"}] \cup [test : 1 .. NumTests, kind : Kinds]
    /\ test = 1 /\ at = 0
    /\ hart = [mie |-> {}, MIE |-> TRUE, MPIE |-> FALSE, mode |-> "M", lines |-> {}, events |-> {},
               mcause |-> "never", mtvec |-> "rte", trap_cause |-> "never", trap_cnt |-> 0,
               mark |-> 0, good |-> TRUE, vectored_mei_handler_ack |-> FALSE, service |-> FALSE,
               twd_irq |-> 0,
               handler |-> [c \in {"TWD", "GPIO", "MENV_CALL", "UENV_CALL"} |-> "global"]]
    /\ cnt = [ok |-> 0, fail |-> 0, test |-> 0] /\ verdict = "none"

Running == verdict = "none" /\ test <= NumTests

(* A test whose feature is missing is reported as not available.           *)
Skip ==
    /\ Running /\ at = 0 /\ ~(Tests[test].needs \subseteq have)
    /\ test' = test + 1
    /\ UNCHANGED <<have, fault, at, hart, cnt, verdict>>

Begin ==
    /\ Running /\ at = 0 /\ Tests[test].needs \subseteq have
    /\ hart' = [hart EXCEPT !.trap_cause = IF Tests[test].clears THEN "never" ELSE @, !.good = TRUE]
    /\ cnt' = [cnt EXCEPT !.test = @ + 1]
    /\ at' = 1
    /\ UNCHANGED <<have, fault, test, verdict>>

(* The operations up to the comparison.  A spurious exception strikes at   *)
(* the first of them.                                                      *)
Operate ==
    /\ Running /\ at \in 1 .. Len(Tests[test].ops)
    /\ LET o == Tests[test].ops[at]
           h == IF at = 1 /\ Wrong("spurious") THEN Trap(hart, "L_MISALIGNED") ELSE hart IN
       /\ o = Sleep => Wakes(h)
       /\ hart' = Interrupt(Effect(h, o))
       /\ verdict' = IF o[1] = "require" /\ o[2] \notin have THEN "error" ELSE verdict
    /\ at' = at + 1
    /\ UNCHANGED <<have, fault, test, cnt>>

test_ok == cnt' = [cnt EXCEPT !.ok = @ + 1]
test_fail == cnt' = [cnt EXCEPT !.fail = @ + 1]

Report ==
    /\ Running /\ at = Len(Tests[test].ops) + 1
    /\ IF hart.good THEN test_ok ELSE test_fail
    /\ at' = at + 1
    /\ UNCHANGED <<have, fault, test, hart, verdict>>

CleanUp ==
    LET i == at - Len(Tests[test].ops) - 1 IN
    /\ Running /\ i \in 1 .. Len(Tests[test].after) + 1
    /\ IF i <= Len(Tests[test].after)
         THEN /\ hart' = Interrupt(Effect(hart, Tests[test].after[i]))
              /\ at' = at + 1 /\ UNCHANGED test
         ELSE at' = 0 /\ test' = test + 1 /\ UNCHANGED hart
    /\ UNCHANGED <<have, fault, cnt, verdict>>

FinalReport ==
    /\ verdict = "none" /\ test > NumTests
    /\ verdict' = IF cnt.fail = 0 THEN "ok" ELSE "failed"
    /\ UNCHANGED <<have, fault, test, at, hart, cnt>>

SelfNext == Skip \/ Begin \/ Operate \/ Report \/ CleanUp \/ FinalReport

(***************************************************************************)
(* Properties.                                                             *)
(***************************************************************************)
Ran(t) == Tests[t].needs \subseteq have
Performs(t, o) == \E i \in DOMAIN Tests[t].ops : Tests[t].ops[i][1] = o
ExpectsNothing(t) ==
    /\ Performs(t, "note")
    /\ \A i \in DOMAIN Tests[t].ops : Tests[t].ops[i][1] = "note" => Tests[t].ops[i] = Note(Never)

CorrectProcessorPasses ==
    fault.test = 0 /\ "U" \in have /\ {"PMP_UNLOCKED", "PMP_TOR", "PMP_NAPOT"} \subseteq have =>
        /\ cnt.fail = 0
        /\ verdict # "none" => verdict = "ok" /\ cnt.ok = cnt.test
FaultReported ==
    verdict = "ok" /\ fault.test # 0 /\ Ran(fault.test) =>
        \/ fault.kind = "missing"
              /\ ~(Performs(fault.test, "note") /\ ~ExpectsNothing(fault.test))
        \/ fault.kind = "spurious" /\ ~ExpectsNothing(fault.test)
        \/ fault.kind = "data" /\ ~Performs(fault.test, "data") /\ ~Performs(fault.test, "kept")

(* A processor with user mode and nothing wrong passes: no test leaves     *)
(* interrupt enables, lines, handlers or the privilege mode in a state in  *)
(* which a later test fails, and every test counted was decided.  The      *)
(* check does not end well when a trap that had to happen in a test that   *)
(* compares trap_cause is missing, when a test that expects no trap gets   *)
(* one, or when a value that a test compares is wrong: no stale cause of   *)
(* an earlier test covers for it.                                          *)
VerdictFair == CorrectProcessorPasses /\ FaultReported
=============================================================================
