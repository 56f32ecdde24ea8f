-------------------------------- MODULE Timer --------------------------------
(***************************************************************************)
(* The 64-bit counters of the processor and the C library's access to them *)
(* in 32-bit words: MTIME with the comparator of one hart in the CLINT,    *)
(* and the cycle and instruction counters of a hart.  All three are the    *)
(* counter primitive, whose high word takes the carry of the low word one  *)
(* cycle late.  A step is a clock cycle in which the running function may  *)
(* make its next access; the function's calls take no time of their own.   *)
(*                                                                         *)
(* Words have WordSpace values (2^32 in the code).                         *)
(***************************************************************************)
EXTENDS Naturals, Sequences

CONSTANTS
  WordSpace,
  SetCycles,     \* a set function makes its last access at most so many cycles after its first
  TimeValues,    \* the values to set counter and comparator to
  MaxTime,       \* bound: where the time stops
  MaxTimerCalls  \* bound: calls

ASSUME TimerAssumption ==
  /\ WordSpace \in Nat /\ SetCycles \in Nat /\ MaxTime \in Nat /\ MaxTimerCalls \in Nat
  /\ 2 <= SetCycles                     \* the two accesses after the first take a cycle each
  /\ SetCycles < WordSpace              \* less than 2^32 cycles, whatever interrupts the function
  /\ MaxTime + 2 < WordSpace * WordSpace
  /\ TimeValues \subseteq 0 .. MaxTime

VARIABLES
  counter,  \* which counter: "mtime", "mcycle" or "minstret"
  count,    \* lo and hi register of the counter
  carry, incen,
  mtimecmp, \* lo and hi register of the comparator
  cmp_lo_ge, mti,
  lib,      \* the running function: its accesses, those made, what they read
  result,   \* what a get function has returned, and the time of its call
  clock,    \* the time that the counter stands for
  target,   \* the time that the comparator is set to
  unsettled,  \* while accesses are under way: latest time and least target so far
  age,      \* cycles since the last write access, up to Settling
  timerCalls
timerVars == <<counter, count, carry, incen, mtimecmp, cmp_lo_ge, mti, lib, result, clock,
               target, unsettled, age, timerCalls>>

low(v) == v % WordSpace
high(v) == v \div WordSpace

-----------------------------------------------------------------------------
(* The accesses of the library functions, in their order *)

read(reg, word) == [reg |-> reg, word |-> word, rw |-> FALSE, data |-> 0]
write(reg, word, data) == [reg |-> reg, word |-> word, rw |-> TRUE, data |-> data]
read64(reg) == <<read(reg, "hi"), read(reg, "lo"), read(reg, "hi")>>

neorv32_clint_time_get == read64("mtime")
neorv32_cpu_get_cycle == read64("mcycle")
neorv32_cpu_get_instret == read64("minstret")

neorv32_clint_time_set(v) ==
  <<write("mtime", "lo", 0), write("mtime", "hi", high(v)), write("mtime", "lo", low(v))>>
neorv32_cpu_set_mcycle(v) ==
  <<write("mcycle", "lo", 0), write("mcycle", "hi", high(v)), write("mcycle", "lo", low(v))>>
neorv32_cpu_set_minstret(v) ==
  <<write("minstret", "lo", 0), write("minstret", "hi", high(v)), write("minstret", "lo", low(v))>>

neorv32_clint_mtimecmp_set_Direct(v) ==  \* mutant: without the detour of the low word
  <<write("mtimecmp", "lo", low(v)), write("mtimecmp", "hi", high(v)), write("mtimecmp", "lo", low(v))>>
neorv32_clint_mtimecmp_set(v) ==
  <<write("mtimecmp", "lo", WordSpace - 1), write("mtimecmp", "hi", high(v)),
    write("mtimecmp", "lo", low(v))>>

(* while(1): the reads are repeated until the two of the high word agree. *)
torn_Never(seen) == FALSE  \* mutant: takes the first reads
torn(seen) == seen[1] # seen[3]

-----------------------------------------------------------------------------
NoCall == [acc |-> <<>>, made |-> 0, seen |-> <<>>, since |-> 0, value |-> 0, cycles |-> 0]
NoResult == [value |-> 0, since |-> 0]
Calling == lib.acc # <<>>
Setting == Calling /\ lib.made > 0 /\ lib.acc[1].rw
Settling == 3
Later(a, b) == IF a > b THEN a ELSE b
Earlier(a, b) == IF a < b THEN a ELSE b

(* A program calls a function; the value is the one to set. *)
Call(fn, value) ==
  /\ ~Calling /\ timerCalls < MaxTimerCalls
  /\ lib' = [NoCall EXCEPT !.acc = fn, !.since = clock, !.value = value]
  /\ timerCalls' = timerCalls + 1
  /\ result' = NoResult
  /\ UNCHANGED <<counter, count, carry, incen, mtimecmp, cmp_lo_ge, mti, clock, target,
                 unsettled, age>>

Get == \/ counter = "mtime" /\ Call(neorv32_clint_time_get, 0)
       \/ counter = "mcycle" /\ Call(neorv32_cpu_get_cycle, 0)
       \/ counter = "minstret" /\ Call(neorv32_cpu_get_instret, 0)
Set == \E v \in TimeValues :
       \/ counter = "mtime" /\ Call(neorv32_clint_time_set(v), v)
       \/ counter = "mtime" /\ Call(neorv32_clint_mtimecmp_set(v), v)
       \/ counter = "mcycle" /\ Call(neorv32_cpu_set_mcycle(v), v)
       \/ counter = "minstret" /\ Call(neorv32_cpu_set_minstret(v), v)

-----------------------------------------------------------------------------
(* The hardware, for one access of a cycle *)

NoAccess == read("none", "lo")
writes(a, reg, word) == a.rw /\ a.reg = reg /\ a.word = word

(* counter_core of neorv32_prim_cnt *)
counter_core(a, inc) ==
  /\ incen' = inc
  /\ count' = [lo |-> IF writes(a, counter, "lo") THEN a.data ELSE (count.lo + incen) % WordSpace,
               hi |-> IF writes(a, counter, "hi") THEN a.data ELSE (count.hi + carry) % WordSpace]
  /\ carry' = (count.lo + incen) \div WordSpace

(* write_access and irq_gen of neorv32_clint_mtimecmp *)
write_access(a) ==
  mtimecmp' = [w \in {"lo", "hi"} |-> IF writes(a, "mtimecmp", w) THEN a.data ELSE mtimecmp[w]]
irq_gen ==
  /\ cmp_lo_ge' = (count.lo >= mtimecmp.lo)
  /\ mti' = (count.hi > mtimecmp.hi \/ (count.hi = mtimecmp.hi /\ cmp_lo_ge))

(* The function after its access: the next one, the loop again, or the end *)
Continue(a) ==
  LET seen == Append(lib.seen, count[a.word])
      last == lib.made + 1 = Len(lib.acc)
  IN  CASE last /\ ~a.rw /\ torn(seen) -> lib' = [lib EXCEPT !.made = 0, !.seen = <<>>] /\ UNCHANGED result
        [] last /\ ~a.rw /\ ~torn(seen) ->
             lib' = NoCall /\ result' = [value |-> seen[3] * WordSpace + seen[2], since |-> lib.since]
        [] last /\ a.rw -> lib' = NoCall /\ UNCHANGED result
        [] OTHER -> /\ lib' = [lib EXCEPT !.made = @ + 1, !.seen = IF a.rw THEN @ ELSE seen,
                                          !.cycles = IF a.rw THEN @ + 1 ELSE @]
                    /\ UNCHANGED result

(* What the registers mean.  A value takes effect with the last access of    *)
(* the function that sets it; a new target counts from the first.            *)
Meaning(a) ==
  LET first == a.rw /\ lib.made = 0
      last == a.rw /\ lib.made + 1 = Len(lib.acc)
  IN  /\ clock' = IF last /\ a.reg = counter THEN lib.value ELSE clock + incen
      /\ target' = IF first /\ a.reg = "mtimecmp" THEN lib.value ELSE target
      /\ age' = IF a.rw THEN 0 ELSE Earlier(age + 1, Settling)
      /\ LET now == IF (Setting \/ first) /\ lib.acc[1].reg = counter
                    THEN Later(clock', lib.value + lib.cycles) ELSE clock'
         IN  unsettled' = IF age' = Settling /\ ~Setting THEN [peak |-> now, least |-> target']
                          ELSE [peak |-> Later(unsettled.peak, now),
                                least |-> Earlier(unsettled.least, target')]

TimerCycle ==
  /\ clock < MaxTime
  /\ \E inc \in IF counter = "mtime" THEN {1} ELSE {0, 1}, access \in BOOLEAN :
       LET a == IF access THEN lib.acc[lib.made + 1] ELSE NoAccess
       IN  /\ access => Calling
           /\ Setting /\ ~access => lib.cycles + Len(lib.acc) - lib.made <= SetCycles
           /\ counter_core(a, inc) /\ write_access(a) /\ irq_gen
           /\ IF access THEN Continue(a)
              ELSE lib' = (IF Setting THEN [lib EXCEPT !.cycles = @ + 1] ELSE lib) /\ UNCHANGED result
           /\ Meaning(a)
  /\ UNCHANGED <<counter, timerCalls>>

TimerInit ==
  /\ counter \in {"mtime", "mcycle", "minstret"}
  /\ count = [lo |-> 0, hi |-> 0] /\ carry = 0 /\ incen = 0
  /\ mtimecmp = [lo |-> 0, hi |-> 0] /\ cmp_lo_ge = FALSE /\ mti = FALSE
  /\ lib = NoCall /\ result = NoResult
  /\ clock = 0 /\ target = 0 /\ unsettled = [peak |-> 0, least |-> 0] /\ age = 0
  /\ timerCalls = 0

TimerNext == Get \/ Set \/ TimerCycle

TimerSpec == TimerInit /\ [][TimerNext]_timerVars

-----------------------------------------------------------------------------
(* The two words of a counter are one number.  Its registers stand for the   *)
(* time that has been counted since the value was set, whenever the carry    *)
(* is under way; and what a get function returns is the time of some moment  *)
(* between its call and its return, with the counter running between the     *)
(* three reads.                                                              *)
CounterCorrect ==
  /\ ~(Setting /\ lib.acc[1].reg = counter) =>
       ((count.hi + carry) % WordSpace) * WordSpace + count.lo = clock
  /\ result # NoResult => result.since <= result.value /\ result.value <= clock

(* The timer interrupt is pending exactly from two cycles after the time     *)
(* reaches MTIMECMP.  While either register is being set, word by word, it   *)
(* does not rise unless the old or the new time has reached the old or the   *)
(* new target.                                                               *)
TimerExact ==
  [][counter = "mtime" =>
       /\ age' = Settling /\ ~Setting => (mti' <=> clock' >= target' + 2)
       /\ ~mti /\ mti' => unsettled.peak >= unsettled.least]_timerVars
=============================================================================
