------------------------------- MODULE DualCore -------------------------------
(***************************************************************************)
(* Two harts and the software they share: the start of core 1 through the  *)
(* CLINT (neorv32_smp.c and crt0.S), the vector table of the runtime       *)
(* environment that both use (neorv32_rte.c), and demo_dual_core_rte, in   *)
(* which both cores run app_main, take interrupts and share UART0 under a  *)
(* spinlock.                                                               *)
(*                                                                         *)
(* Every routine is a sequence of instructions, one for each access to     *)
(* memory, to a device or to a CSR that another step can observe; a hart   *)
(* is at a position of a routine, and the harts interleave between         *)
(* instructions.  There are no data caches in this configuration.          *)
(***************************************************************************)
EXTENDS Integers, Sequences, FiniteSets

CONSTANTS
  StackBase, StackSize,  \* core1_stack and sizeof(core1_stack)
  MaxPolls,              \* the polls that __neorv32_smp_boot makes
  MaxIrqs                \* bound: timer interrupts after the first, of each core

ASSUME DualCoreAssumption ==
  /\ StackBase \in Nat /\ StackSize \in Nat \ {0} /\ MaxPolls \in Nat /\ MaxIrqs \in Nat
  /\ StackBase % 16 = 0 /\ StackSize >= 16   \* __attribute__((aligned(16)))

VARIABLES
  loc,       \* core -> [in: routine, pos: position]
  resume,    \* core -> where the trapped code goes on
  hartCsr,   \* core -> mie, enabled (mstatus.MIE), mtvec, mcause
  regs,      \* core -> sp and the entry address that crt0 loaded
  mailbox,   \* MTIMECMP[1] as smp_boot uses it: lo and hi word
  msi,       \* core -> MSWI
  due,       \* core -> MTIME has reached MTIMECMP
  irqsLeft,  \* core -> timer interrupts the bound still allows
  table,     \* __neorv32_rte_vector_lut
  locked,    \* __spin_locked
  polls      \* the counter of the running smp_boot

dualVars == <<loc, resume, hartCsr, regs, mailbox, msi, due, irqsLeft, table, locked, polls>>

Core == {0, 1}
TrapOf == {"MSI", "MTI", "MENV_CALL"}

(* (stack_memory + stack_size - 1) & 0xfffffff0 *)
stack_top == LET end == StackBase + StackSize - 1 IN end - (end % 16)

-----------------------------------------------------------------------------
(* The routines. *)

(* spin_lock, one message on UART0, spin_unlock *)
Console == << <<"lock">>, <<"print">>, <<"unlock">> >>

(* neorv32_rte_setup, with the loop over the table in table order *)
rte_setup == << <<"csr_setup">>, <<"default", "MSI">>, <<"default", "MTI">>,
                <<"default", "MENV_CALL">> >>

smp_boot_Early(entry) ==  \* mutant: triggers the core before the entry point is in the mailbox
  << <<"post_stack">>, <<"raise_msi">>, <<"post_entry", entry>>, <<"poll">> >>

smp_boot(entry) ==
  << <<"post_stack">>, <<"post_entry", entry>>, <<"raise_msi">>, <<"poll">> >>

(* neorv32_smp_launch on core 0: the start-up code again, then app_main *)
smp_launch == smp_boot("crt0") \o smp_boot("app_main")

(* Core 0 announces itself and the launch on UART0 without the lock: nobody *)
(* else has been started yet.                                               *)
main == rte_setup \o << <<"print">>, <<"print">> >> \o smp_launch \o << <<"call", "app_main">> >>

(* main after an error of neorv32_smp_launch: a message, without the lock,  *)
(* and the end                                                              *)
launch_failed == << <<"print">>, <<"halted">> >>

app_main == rte_setup \o Console \o
  << <<"timer_now">>,
     <<"install", "MTI", "mtmi">>, <<"enable", "MTI">>,
     <<"install", "MSI", "mswi">>, <<"enable", "MSI">>,
     <<"install", "MENV_CALL", "ecall">>, <<"ecall">>,
     <<"irq_on">>, <<"sleep">> >>

(* The start-up code of a core other than core 0 *)
crt0 == << <<"reset">>, <<"vector", "smp_wakeup">>, <<"only_msi">>, <<"irq_on">>, <<"sleep">> >>

smp_wakeup ==
  << <<"vector", "crt0_panic">>, <<"load_sp">>, <<"load_entry">>, <<"ack">>, <<"jump">> >>

(* The trap handlers of the demo, as the runtime environment calls them *)
trap_handler_mtmi == Console \o << <<"timer_next">>, <<"msi_other">>, <<"mret">> >>
trap_handler_mswi_Keeps ==  \* mutant: returns with the lock
  << <<"lock">>, <<"print">>, <<"msi_own">>, <<"mret">> >>

trap_handler_mswi == Console \o << <<"msi_own">>, <<"mret">> >>
trap_handler_ecall == Console \o << <<"mret">> >>

(* __neorv32_rte_panic: it knows nothing of the lock, and writes to UART0    *)
(* before and after it disables the interrupt (an exception is in no mie).   *)
rte_panic_routine == << <<"print">>, <<"disable">>, <<"print">>, <<"mret">> >>

Code == [main |-> main, app_main |-> app_main, crt0 |-> crt0, smp_wakeup |-> smp_wakeup,
         mtmi |-> trap_handler_mtmi, mswi |-> trap_handler_mswi,
         ecall |-> trap_handler_ecall, panic |-> rte_panic_routine,
         launch_failed |-> launch_failed, halt |-> << <<"halted">> >>]

Insn(c) == Code[loc[c].in][loc[c].pos]
At(c, op) == Insn(c)[1] = op
Entry(routine) == [in |-> routine, pos |-> 1]
After(p) == [p EXCEPT !.pos = @ + 1]
Go(c, p) == loc' = [loc EXCEPT ![c] = p]
Step(c) == Go(c, After(loc[c]))

-----------------------------------------------------------------------------
(* Instructions of the runtime environment and of crt0 *)

csr_setup(c) ==
  /\ At(c, "csr_setup") /\ Step(c)
  /\ hartCsr' = [hartCsr EXCEPT ![c].mie = {}, ![c].enabled = FALSE, ![c].mtvec = "rte_core"]
  /\ UNCHANGED <<resume, regs, mailbox, msi, due, irqsLeft, table, locked, polls>>

default_Both(c) ==  \* mutant: every core initialises the shared table
  /\ At(c, "default") /\ Step(c)
  /\ table' = [table EXCEPT ![Insn(c)[2]] = "panic"]
  /\ UNCHANGED <<resume, hartCsr, regs, mailbox, msi, due, irqsLeft, locked, polls>>

(* One entry of the loop over the table, on core 0 only. *)
default(c) ==
  /\ At(c, "default") /\ Step(c)
  /\ table' = IF c = 0 THEN [table EXCEPT ![Insn(c)[2]] = "panic"] ELSE table
  /\ UNCHANGED <<resume, hartCsr, regs, mailbox, msi, due, irqsLeft, locked, polls>>

handler_install(c) ==
  /\ At(c, "install") /\ Step(c)
  /\ table' = [table EXCEPT ![Insn(c)[2]] = Insn(c)[3]]
  /\ UNCHANGED <<resume, hartCsr, regs, mailbox, msi, due, irqsLeft, locked, polls>>

(* The CSR instructions: only the hart itself sees them. *)
CsrStep(c) ==
  /\ Insn(c)[1] \in {"enable", "disable", "irq_on", "vector", "only_msi", "reset"}
  /\ Step(c)
  /\ hartCsr' = [hartCsr EXCEPT ![c] =
       CASE At(c, "enable") -> [@ EXCEPT !.mie = hartCsr[c].mie \cup {Insn(c)[2]}]
         [] At(c, "disable") -> [@ EXCEPT !.mie = hartCsr[c].mie \ {hartCsr[c].mcause}]
         [] At(c, "irq_on") -> [@ EXCEPT !.enabled = TRUE]
         [] At(c, "vector") -> [@ EXCEPT !.mtvec = Insn(c)[2]]
         [] At(c, "only_msi") -> [@ EXCEPT !.mie = {"MSI"}]
         [] At(c, "reset") -> [@ EXCEPT !.mie = {}, !.enabled = FALSE, !.mtvec = "crt0_panic"]]
  /\ UNCHANGED <<resume, regs, mailbox, msi, due, irqsLeft, table, locked, polls>>

(* Core 1 takes stack and entry point from the mailbox and acknowledges. *)
load_sp(c) ==
  /\ At(c, "load_sp") /\ Step(c)
  /\ regs' = [regs EXCEPT ![c].sp = mailbox.lo]
  /\ UNCHANGED <<resume, hartCsr, mailbox, msi, due, irqsLeft, table, locked, polls>>

load_entry(c) ==
  /\ At(c, "load_entry") /\ Step(c)
  /\ regs' = [regs EXCEPT ![c].entry = mailbox.hi]
  /\ UNCHANGED <<resume, hartCsr, mailbox, msi, due, irqsLeft, table, locked, polls>>

ack(c) ==
  /\ At(c, "ack") /\ Step(c)
  /\ msi' = [msi EXCEPT ![c] = FALSE]
  /\ UNCHANGED <<resume, hartCsr, regs, mailbox, due, irqsLeft, table, locked, polls>>

jump(c) ==
  /\ \/ At(c, "jump") /\ Go(c, Entry(regs[c].entry))
     \/ At(c, "call") /\ Go(c, Entry(Insn(c)[2]))
  /\ UNCHANGED <<resume, hartCsr, regs, mailbox, msi, due, irqsLeft, table, locked, polls>>

-----------------------------------------------------------------------------
(* __neorv32_smp_boot on core 0 *)

post(c) ==
  /\ \/ At(c, "post_stack") /\ mailbox' = [mailbox EXCEPT !.lo = stack_top]
     \/ At(c, "post_entry") /\ mailbox' = [mailbox EXCEPT !.hi = Insn(c)[2]]
  /\ Step(c)
  /\ UNCHANGED <<resume, hartCsr, regs, msi, due, irqsLeft, table, locked, polls>>

raise_msi(c) ==
  /\ At(c, "raise_msi") /\ Step(c)
  /\ msi' = [msi EXCEPT ![1] = TRUE]
  /\ polls' = MaxPolls
  /\ UNCHANGED <<resume, hartCsr, regs, mailbox, due, irqsLeft, table, locked>>

(* while (timeout--): the launch fails when the counter is exhausted.        *)
poll(c) ==
  /\ At(c, "poll")
  /\ \/ polls > 0 /\ ~msi[1] /\ Step(c) /\ polls' = polls
     \/ polls > 0 /\ msi[1] /\ polls' = polls - 1 /\ loc' = loc
     \/ polls = 0 /\ polls' = polls /\ Go(c, Entry("launch_failed"))
  /\ UNCHANGED <<resume, hartCsr, regs, mailbox, msi, due, irqsLeft, table, locked>>

-----------------------------------------------------------------------------
(* The spinlock, the console and the CLINT *)

spin_lock_Unchecked(c) ==  \* mutant: ignores the value that the swap returns
  /\ At(c, "lock") /\ Step(c)
  /\ locked' = TRUE
  /\ UNCHANGED <<resume, hartCsr, regs, mailbox, msi, due, irqsLeft, table, polls>>

(* amoswap in a loop: a step for each swap that finds the lock free *)
spin_lock(c) ==
  /\ At(c, "lock") /\ ~locked /\ Step(c)
  /\ locked' = TRUE
  /\ UNCHANGED <<resume, hartCsr, regs, mailbox, msi, due, irqsLeft, table, polls>>

spin_unlock(c) ==
  /\ At(c, "unlock") /\ Step(c)
  /\ locked' = FALSE
  /\ UNCHANGED <<resume, hartCsr, regs, mailbox, msi, due, irqsLeft, table, polls>>

print(c) ==
  /\ At(c, "print") /\ Step(c)
  /\ UNCHANGED <<resume, hartCsr, regs, mailbox, msi, due, irqsLeft, table, locked, polls>>

(* mtimecmp_set(0), and mtimecmp_set(now + clk) of the timer handler.  Core  *)
(* 1 overwrites the mailbox with it, which nobody reads any more.            *)
mtimecmp_set(c) ==
  /\ \/ At(c, "timer_now") /\ due' = [due EXCEPT ![c] = TRUE]
     \/ At(c, "timer_next") /\ due' = [due EXCEPT ![c] = FALSE]
  /\ Step(c)
  /\ UNCHANGED <<resume, hartCsr, regs, mailbox, msi, irqsLeft, table, locked, polls>>

(* The handlers trigger the other core and clear their own request. *)
msi_access(c) ==
  /\ \/ At(c, "msi_other") /\ msi' = [msi EXCEPT ![1 - c] = TRUE]
     \/ At(c, "msi_own") /\ msi' = [msi EXCEPT ![c] = FALSE]
  /\ Step(c)
  /\ UNCHANGED <<resume, hartCsr, regs, mailbox, due, irqsLeft, table, locked, polls>>

(* MTIME reaches MTIMECMP. *)
TimePasses(c) ==
  /\ ~due[c] /\ irqsLeft[c] > 0
  /\ due' = [due EXCEPT ![c] = TRUE]
  /\ irqsLeft' = [irqsLeft EXCEPT ![c] = @ - 1]
  /\ UNCHANGED <<loc, resume, hartCsr, regs, mailbox, msi, table, locked, polls>>

-----------------------------------------------------------------------------
(* Traps.  An enabled interrupt is taken between two instructions (the       *)
(* software interrupt first); ecall traps itself.  crt0's wake-up vector     *)
(* never returns; the runtime environment dispatches over the table.         *)

Raised(c) == {i \in hartCsr[c].mie : (i = "MSI" /\ msi[c]) \/ (i = "MTI" /\ due[c])}
Irq(c) == hartCsr[c].enabled /\ Raised(c) # {}

EnterTrap(c, cause, back) ==
  /\ resume' = [resume EXCEPT ![c] = [to |-> back, enabled |-> hartCsr[c].enabled]]
  /\ hartCsr' = [hartCsr EXCEPT ![c].enabled = FALSE, ![c].mcause = cause]
  /\ Go(c, Entry(CASE hartCsr[c].mtvec = "rte_core" -> table[cause]
                   [] hartCsr[c].mtvec = "smp_wakeup" -> "smp_wakeup"
                   [] OTHER -> "halt"))
  /\ UNCHANGED <<regs, mailbox, msi, due, irqsLeft, table, locked, polls>>

TakeInterrupt(c) ==
  /\ Irq(c)
  /\ EnterTrap(c, IF "MSI" \in Raised(c) THEN "MSI" ELSE "MTI", loc[c])

ecall(c) == At(c, "ecall") /\ EnterTrap(c, "MENV_CALL", After(loc[c]))

mret(c) ==
  /\ At(c, "mret")
  /\ Go(c, resume[c].to)
  /\ hartCsr' = [hartCsr EXCEPT ![c].enabled = resume[c].enabled]
  /\ UNCHANGED <<resume, regs, mailbox, msi, due, irqsLeft, table, locked, polls>>

(* An interrupt goes before the next instruction. *)
CoreStep(c) ==
  \/ TakeInterrupt(c)
  \/ /\ ~Irq(c)
     /\ \/ csr_setup(c) \/ default(c) \/ handler_install(c) \/ CsrStep(c)
        \/ load_sp(c) \/ load_entry(c) \/ ack(c) \/ jump(c)
        \/ post(c) \/ raise_msi(c) \/ poll(c)
        \/ spin_lock(c) \/ spin_unlock(c) \/ print(c)
        \/ mtimecmp_set(c) \/ msi_access(c) \/ ecall(c) \/ mret(c)

DualInit ==
  /\ loc = [c \in Core |-> Entry(IF c = 0 THEN "main" ELSE "crt0")]
  /\ resume = [c \in Core |-> [to |-> loc[c], enabled |-> FALSE]]
  /\ hartCsr = [c \in Core |-> [mie |-> {}, enabled |-> FALSE, mtvec |-> "crt0_panic",
                                mcause |-> "MSI"]]
  /\ regs = [c \in Core |-> [sp |-> 0, entry |-> "crt0"]]
  /\ mailbox = [lo |-> 0, hi |-> "crt0"]
  /\ msi = [c \in Core |-> FALSE]
  /\ due = [c \in Core |-> TRUE]    \* MTIMECMP is zero after reset
  /\ irqsLeft = [c \in Core |-> MaxIrqs]
  /\ table = [t \in TrapOf |-> "panic"]
  /\ locked = FALSE
  /\ polls = 0

DualNext == \E c \in Core : CoreStep(c) \/ TimePasses(c)

(* Both harts are clocked and run on their own. *)
DualFairness == \A c \in Core : WF_dualVars(CoreStep(c))

DualSpec == DualInit /\ [][DualNext]_dualVars /\ DualFairness

-----------------------------------------------------------------------------
(* neorv32_smp_launch succeeds only if core 1 has its order: when core 0     *)
(* goes on to app_main, core 1 is in app_main or about to jump there, and    *)
(* whenever core 1 runs app_main it does so on the stack that was passed to  *)
(* launch, 16-byte aligned and inside that array.                            *)
LaunchSound ==
  LET inApp(c) == loc[c].in \notin {"main", "launch_failed", "crt0", "smp_wakeup", "halt"}
  IN  /\ inApp(0) => inApp(1) \/ (Insn(1) = <<"jump">> /\ regs[1].entry = "app_main")
      /\ inApp(1) => /\ regs[1].sp = stack_top /\ regs[1].sp % 16 = 0
                     /\ StackBase <= regs[1].sp /\ regs[1].sp < StackBase + StackSize

(* The messages of the two cores never mix on UART0, in app_main and in the  *)
(* handlers, whichever interrupts arrive - but for the two outputs that the  *)
(* code makes without the spinlock: the panic message of core 1, whose ecall *)
(* finds the table that core 0 is setting up again, and the error message of *)
(* a launch that has timed out while the late core 1 starts all the same.    *)
ConsoleExclusive ==
  LET writing(c) == Insn(c)[1] \in {"print", "unlock"}
  IN  writing(0) /\ writing(1) => loc[1].in = "panic" \/ loc[0].in = "launch_failed"

(* From every place in app_main and in every trap handler, a core comes (back)*)
(* to its sleep loop, however often it has slept before: nobody waits for a  *)
(* lock that is not released, no handler waits for the code that it has      *)
(* interrupted, and no two interrupts keep each other up (the timer          *)
(* interrupts are bounded, so a core is not kept from sleep by them).        *)
AppSettles ==
  \A c \in Core : loc[c].in \in {"app_main", "mtmi", "mswi", "ecall", "panic"}
                    ~> (loc[c].in = "app_main" /\ Insn(c) = <<"sleep">>)

(* The traps of core 0 always find the handler it has installed: core 1,     *)
(* whose neorv32_rte_setup runs at any time relative to it, never puts the   *)
(* default handler, which disables the interrupt for good, back into the     *)
(* shared table.                                                             *)
PrimaryServed == loc[0].in # "panic"
=============================================================================
