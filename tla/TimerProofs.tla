----------------------------- MODULE TimerProofs -----------------------------
(***************************************************************************)
(* The 64-bit counters for words of any size and calls at any time: the    *)
(* two registers and the carry between them are one number, and the three  *)
(* reads of a get function find a moment of it.  The inductive invariant   *)
(* says where each library function stands between two of its accesses.    *)
(* The timer interrupt is exact, and setting the registers word by word    *)
(* raises no spurious one.                                                 *)
(***************************************************************************)
EXTENDS Timer, Integers, TLAPS

Word == 0 .. WordSpace - 1
Counters == {"mtime", "mcycle", "minstret"}
Access == [reg : Counters \cup {"mtimecmp", "none"}, word : {"lo", "hi"}, rw : BOOLEAN, data : Word]
Accesses == Seq(Access)
Reads == Seq(Nat)
Lib == [acc : Accesses, made : Nat, seen : Reads, since : Nat, value : Nat, cycles : Nat]

TimerTypeOK ==
  /\ counter \in Counters
  /\ count \in [lo : Word, hi : Word] /\ carry \in {0, 1} /\ incen \in {0, 1}
  /\ mtimecmp.lo \in Word /\ mtimecmp.hi \in Word
  /\ cmp_lo_ge \in BOOLEAN /\ mti \in BOOLEAN
  /\ lib \in Lib /\ result \in [value : Nat, since : Nat]
  /\ clock \in 0 .. MaxTime /\ target \in 0 .. MaxTime
  /\ unsettled \in [peak : Nat, least : Nat] /\ age \in 0 .. Settling /\ timerCalls \in Nat

(* The functions that run: the reads of a counter, the writes of a counter *)
(* or of the comparator.                                                   *)
Getting == lib.acc = read64(counter)
SettingOf(reg, first) ==
  /\ lib.acc = <<write(reg, "lo", first), write(reg, "hi", high(lib.value)),
                 write(reg, "lo", low(lib.value))>>
  /\ lib.value \in 0 .. MaxTime
LibInv ==
  IF ~Calling THEN lib.acc = <<>>
  ELSE /\ lib.made \in 0 .. 2 /\ result = NoResult
       /\ Getting \/ SettingOf(counter, 0) \/ SettingOf("mtimecmp", WordSpace - 1)

(* The carry is part of the number, and the number does not overflow.      *)
SettingCounter == Setting /\ lib.acc[1].reg = counter
SumInv ==
  ~SettingCounter => /\ count.hi + carry < WordSpace
                     /\ (count.hi + carry) * WordSpace + count.lo = clock

(* While a counter is being set, its low word starts from zero and cannot  *)
(* come to an overflow before the last access.                             *)
SetInv ==
  SettingCounter => /\ lib.cycles + 2 - lib.made <= SetCycles
                    /\ count.lo <= lib.cycles - 1
                    /\ lib.made = 2 => count.hi = high(lib.value) /\ carry = 0

(* What the reads so far have seen: a high word that the counter has       *)
(* reached, then the low word of some moment t whose high word the         *)
(* register shows by now.                                                  *)
Moment(t) ==
  /\ lib.since <= t /\ t <= clock
  /\ lib.seen[1] <= high(t) /\ lib.seen[2] = low(t) /\ high(t) <= count.hi
GetInv ==
  Calling /\ Getting =>
    /\ lib.since <= clock
    /\ Len(lib.seen) = lib.made
    /\ lib.made = 1 => lib.seen[1] <= count.hi + carry
    /\ lib.made = 2 => \E t \in 0 .. MaxTime : Moment(t)

(* The cycles of a set function count from its first access. *)
FreshCycles == ~Setting => lib.cycles = 0

ResultInv == result # NoResult => result.since <= result.value /\ result.value <= clock

TimerInv ==
  TimerTypeOK /\ LibInv /\ SumInv /\ SetInv /\ FreshCycles /\ GetInv /\ ResultInv

-----------------------------------------------------------------------------
(* Words *)

(* TimerAssumption as the arithmetic below uses it. *)
LEMMA WordSpaceBig == WordSpace \in Nat /\ WordSpace > 2
BY TimerAssumption

(* An addition of one wraps at the end of a word. *)
LEMMA Wrap ==
  ASSUME NEW lo \in Word, NEW inc \in {0, 1}
  PROVE  IF lo + inc = WordSpace
         THEN (lo + inc) \div WordSpace = 1 /\ (lo + inc) % WordSpace = 0
         ELSE (lo + inc) \div WordSpace = 0 /\ (lo + inc) % WordSpace = lo + inc
BY WordSpaceBig DEF Word

(* A number is its two words. *)
LEMMA Split ==
  ASSUME NEW v \in Nat
  PROVE  low(v) \in Word /\ high(v) \in Nat /\ v = high(v) * WordSpace + low(v)
<1>1. v % WordSpace \in 0 .. WordSpace - 1
  BY WordSpaceBig
<1>2. v \div WordSpace \in Nat
  BY WordSpaceBig
<1>3. v = (v \div WordSpace) * WordSpace + (v % WordSpace)
  BY WordSpaceBig, Z3
<1> QED
  BY <1>1, <1>2, <1>3 DEF low, high, Word

(* The two words of a number put together of two words. *)
LEMMA Words ==
  ASSUME NEW h \in Nat, NEW l \in Word
  PROVE  high(h * WordSpace + l) = h /\ low(h * WordSpace + l) = l
BY WordSpaceBig DEF high, low, Word

(* The order of numbers is the order of their high words first. *)
LEMMA Ordered ==
  ASSUME NEW a \in Nat, NEW b \in Word, NEW c \in Nat, NEW d \in Word,
         a * WordSpace + b <= c * WordSpace + d
  PROVE  a <= c
<1> SUFFICES ASSUME a >= c + 1 PROVE FALSE
  OBVIOUS
<1>1. PICK k \in Nat : a = c + 1 + k
  <2>1. a - c - 1 \in Nat /\ a = c + 1 + (a - c - 1)
    OBVIOUS
  <2> QED
    BY <2>1
<1>2. a * WordSpace = c * WordSpace + WordSpace + k * WordSpace
  BY <1>1, WordSpaceBig
<1>3. k * WordSpace \in Nat /\ c * WordSpace \in Nat
  BY WordSpaceBig
<1> QED
  BY <1>2, <1>3, WordSpaceBig DEF Word

(* A later time has no lesser high word. *)
LEMMA LaterHigh ==
  ASSUME NEW t \in Nat, NEW u \in Nat, t <= u
  PROVE  high(t) <= high(u)
<1>1. /\ low(t) \in Word /\ high(t) \in Nat /\ t = high(t) * WordSpace + low(t)
      /\ low(u) \in Word /\ high(u) \in Nat /\ u = high(u) * WordSpace + low(u)
  BY Split
<1> QED
  BY <1>1, Ordered

(* The bound keeps the time inside two words. *)
LEMMA TimeFits ==
  ASSUME NEW v \in 0 .. MaxTime
  PROVE  high(v) \in Word /\ low(v) \in Word
<1>1. low(v) \in Word /\ high(v) \in Nat /\ v = high(v) * WordSpace + low(v)
  BY Split, TimerAssumption
<1>2. v <= (WordSpace - 1) * WordSpace + (WordSpace - 1)
  <2>1. (WordSpace - 1) * WordSpace + (WordSpace - 1) = WordSpace * WordSpace - 1
    BY WordSpaceBig
  <2> QED
    BY <2>1, TimerAssumption
<1>3. high(v) <= WordSpace - 1
  BY <1>1, <1>2, Ordered, WordSpaceBig DEF Word
<1> QED
  BY <1>1, <1>3, WordSpaceBig DEF Word

-----------------------------------------------------------------------------
(* The accesses of a running function. *)
LEMMA AccessOf ==
  ASSUME TimerTypeOK, LibInv, Calling
  PROVE  LET a == lib.acc[lib.made + 1] IN
         /\ a \in Access /\ Len(lib.acc) = 3 /\ lib.made \in 0 .. 2
         /\ Getting => /\ ~a.rw /\ a.reg = counter /\ ~lib.acc[1].rw
                       /\ a.word = IF lib.made = 1 THEN "lo" ELSE "hi"
         /\ ~Getting => /\ a.rw /\ a.reg = lib.acc[1].reg /\ lib.acc[1].rw
                        /\ a.reg \in {counter, "mtimecmp"} /\ lib.value \in 0 .. MaxTime
                        /\ a.word = IF lib.made = 1 THEN "hi" ELSE "lo"
                        /\ lib.made = 0 /\ a.reg = counter => a.data = 0
                        /\ lib.made = 0 /\ a.reg # counter => a.data = WordSpace - 1
                        /\ lib.made = 1 => a.data = high(lib.value)
                        /\ lib.made = 2 => a.data = low(lib.value)
<1>1. lib.made \in {0, 1, 2} /\ counter \in Counters /\ "mtimecmp" \notin Counters
  BY DEF LibInv, TimerTypeOK, Counters
<1>2. CASE Getting
  <2>1. /\ Len(lib.acc) = 3 /\ ~lib.acc[1].rw
        /\ lib.acc[1] = read(counter, "hi") /\ lib.acc[2] = read(counter, "lo")
        /\ lib.acc[3] = read(counter, "hi")
    BY <1>2 DEF Getting, read64, read
  <2>2. \A w \in {"lo", "hi"} : /\ read(counter, w) \in Access /\ ~read(counter, w).rw
                                /\ read(counter, w).reg = counter /\ read(counter, w).word = w
    BY <1>1, WordSpaceBig DEF read, Access, Word
  <2> QED
    BY <1>1, <1>2, <2>1, <2>2
<1>3. ASSUME NEW r \in Counters \cup {"mtimecmp"}, NEW f \in Word, SettingOf(r, f)
      PROVE  LET a == lib.acc[lib.made + 1] IN
             /\ a \in Access /\ Len(lib.acc) = 3 /\ lib.acc[1].rw /\ a.rw
             /\ a.reg = r /\ lib.acc[1].reg = r /\ lib.value \in 0 .. MaxTime
             /\ a.word = IF lib.made = 1 THEN "hi" ELSE "lo"
             /\ lib.made = 0 => a.data = f
             /\ lib.made = 1 => a.data = high(lib.value)
             /\ lib.made = 2 => a.data = low(lib.value)
  <2>1. lib.value \in 0 .. MaxTime
    BY <1>3 DEF SettingOf
  <2>2. high(lib.value) \in Word /\ low(lib.value) \in Word
    BY <2>1, TimeFits
  <2>3. /\ Len(lib.acc) = 3
        /\ lib.acc[1] = write(r, "lo", f) /\ lib.acc[2] = write(r, "hi", high(lib.value))
        /\ lib.acc[3] = write(r, "lo", low(lib.value))
    BY <1>3 DEF SettingOf
  <2>4. \A w \in {"lo", "hi"}, d \in Word :
          /\ write(r, w, d) \in Access /\ write(r, w, d).rw
          /\ write(r, w, d).reg = r /\ write(r, w, d).word = w /\ write(r, w, d).data = d
    BY <1>3 DEF write, Access
  <2> QED
    BY <1>1, <2>1, <2>2, <2>3, <2>4
<1>4. CASE ~Getting
  <2>1. 0 \in Word /\ WordSpace - 1 \in Word
    BY WordSpaceBig DEF Word
  <2>2. SettingOf(counter, 0) \/ SettingOf("mtimecmp", WordSpace - 1)
    BY <1>4 DEF LibInv
  <2>3. CASE SettingOf(counter, 0)
    BY <1>1, <1>3, <1>4, <2>1, <2>3
  <2>4. CASE SettingOf("mtimecmp", WordSpace - 1)
    BY <1>1, <1>3, <1>4, <2>1, <2>4
  <2> QED
    BY <2>2, <2>3, <2>4
<1> QED
  BY <1>2, <1>4

(* What an access leaves of the function: the next access, the loop again, *)
(* or the end.                                                             *)
LEMMA Continues ==
  ASSUME TimerTypeOK, NEW a \in Access, Continue(a), Len(lib.acc) = 3, lib.made \in 0 .. 2,
         ~a.rw => Len(lib.seen) = lib.made
  PROVE  LET seen == Append(lib.seen, count[a.word]) IN
         /\ lib' \in Lib /\ result' \in [value : Nat, since : Nat]
         /\ lib.made < 2 =>
              /\ lib'.acc = lib.acc /\ lib'.made = lib.made + 1 /\ lib'.since = lib.since
              /\ lib'.value = lib.value /\ result' = result
              /\ a.rw => lib'.cycles = lib.cycles + 1 /\ lib'.seen = lib.seen
              /\ ~a.rw => lib'.seen = seen /\ lib'.cycles = lib.cycles
         /\ lib.made = 2 /\ a.rw => lib' = NoCall /\ result' = result
         /\ lib.made = 2 /\ ~a.rw =>
              \/ /\ lib'.acc = lib.acc /\ lib'.made = 0 /\ lib'.seen = <<>>
                 /\ lib'.since = lib.since /\ lib'.value = lib.value /\ result' = result
                 /\ lib'.cycles = lib.cycles
              \/ /\ seen[1] = seen[3] /\ lib' = NoCall
                 /\ result' = [value |-> seen[3] * WordSpace + seen[2], since |-> lib.since]
<1> DEFINE seen == Append(lib.seen, count[a.word])
<1>1. lib \in Lib /\ count[a.word] \in Word /\ seen \in Reads /\ lib.seen \in Reads
      /\ <<>> \in Reads
  <2>1. lib \in Lib /\ lib.seen \in Seq(Nat)
    BY DEF TimerTypeOK, Lib, Reads
  <2>2. count[a.word] \in Word
    BY DEF TimerTypeOK, Access
  <2>3. count[a.word] \in Nat
    BY <2>2, WordSpaceBig DEF Word
  <2>4. seen \in Seq(Nat) /\ <<>> \in Seq(Nat)
    BY <2>1, <2>3
  <2> QED
    BY <2>1, <2>2, <2>4 DEF Reads
<1>2. NoCall \in Lib
  BY DEF NoCall, Lib, Accesses, Reads
<1>7. Append(lib.seen, count[a.word]) = seen
  OBVIOUS
<1>8. ~a.rw => Len(seen) = lib.made + 1
  BY <1>1 DEF Reads
<1> HIDE DEF seen
<1>3. CASE lib.made = 2 /\ a.rw
  BY <1>2, <1>3 DEF Continue, TimerTypeOK
<1>4. CASE lib.made < 2
  <2> DEFINE b == [lib EXCEPT !.made = lib.made + 1]
             d == [b EXCEPT !.seen = IF a.rw THEN lib.seen ELSE seen]
             e == [d EXCEPT !.cycles = IF a.rw THEN lib.cycles + 1 ELSE lib.cycles]
  <2>1. lib' = e /\ result' = result
    BY <1>4 DEF Continue, seen
  <2>2. /\ b \in Lib /\ b.acc = lib.acc /\ b.made = lib.made + 1 /\ b.since = lib.since
        /\ b.value = lib.value
    BY <1>1 DEF Lib
  <2> HIDE DEF b
  <2>3. /\ d \in Lib /\ d.acc = lib.acc /\ d.made = lib.made + 1 /\ d.since = lib.since
        /\ d.value = lib.value /\ d.seen = IF a.rw THEN lib.seen ELSE seen
    BY <1>1, <2>2 DEF Lib
  <2> HIDE DEF d
  <2>4. /\ e \in Lib /\ e.acc = lib.acc /\ e.made = lib.made + 1 /\ e.since = lib.since
        /\ e.value = lib.value /\ e.seen = IF a.rw THEN lib.seen ELSE seen
        /\ e.cycles = IF a.rw THEN lib.cycles + 1 ELSE lib.cycles
    BY <1>1, <2>3 DEF Lib
  <2> HIDE DEF e
  <2> QED
    BY <1>4, <2>1, <2>4 DEF TimerTypeOK, seen
<1>5. CASE lib.made = 2 /\ ~a.rw
  <2>1. CASE torn(seen)
    <3> DEFINE b == [lib EXCEPT !.made = 0]
               d == [b EXCEPT !.seen = <<>>]
    <3>1. lib' = d /\ result' = result
      BY <1>5, <2>1 DEF Continue, seen
    <3>2. /\ b \in Lib /\ b.acc = lib.acc /\ b.made = 0 /\ b.since = lib.since
          /\ b.value = lib.value /\ b.cycles = lib.cycles
      BY <1>1 DEF Lib
    <3> HIDE DEF b
    <3>3. /\ d \in Lib /\ d.acc = lib.acc /\ d.made = 0 /\ d.since = lib.since
          /\ d.value = lib.value /\ d.seen = <<>> /\ d.cycles = lib.cycles
      BY <1>1, <3>2 DEF Lib
    <3> HIDE DEF d
    <3> QED
      BY <1>5, <3>1, <3>3 DEF TimerTypeOK
  <2>2. CASE ~torn(seen)
    <3>1. lib' = NoCall /\ seen[1] = seen[3]
      BY <1>5, <1>7, <2>2 DEF Continue, torn
    <3>2. result' = [value |-> seen[3] * WordSpace + seen[2], since |-> lib.since]
      BY <1>5, <1>7, <2>2 DEF Continue
    <3>3. seen[2] \in Nat /\ seen[3] \in Nat /\ lib.since \in Nat
      BY <1>1, <1>5, <1>8 DEF Reads, Lib
    <3>4. result' \in [value : Nat, since : Nat]
      BY <3>2, <3>3, WordSpaceBig
    <3> QED
      BY <1>5, <1>2, <1>7, <3>1, <3>2, <3>4
  <2> QED
    BY <2>1, <2>2
<1> QED
  BY <1>3, <1>4, <1>5

-----------------------------------------------------------------------------
(* The counter in a cycle *)

(* The registers keep their types, whatever is written to them.            *)
LEMMA CounterTypes ==
  ASSUME TimerTypeOK, NEW a \in Access, NEW inc \in {0, 1}, counter_core(a, inc)
  PROVE  /\ count' \in [lo : Word, hi : Word] /\ carry' \in {0, 1} /\ incen' = inc
         /\ ~writes(a, counter, "lo") => count'.lo = (count.lo + incen) % WordSpace
         /\ ~writes(a, counter, "hi") => count'.hi = (count.hi + carry) % WordSpace
         /\ writes(a, counter, "lo") => count'.lo = a.data
         /\ writes(a, counter, "hi") => count'.hi = a.data
         /\ carry' = IF count.lo + incen = WordSpace THEN 1 ELSE 0
<1>1. count.lo \in Word /\ count.hi \in Word /\ carry \in {0, 1} /\ incen \in {0, 1} /\ a.data \in Word
  BY DEF TimerTypeOK, Access
<1>2. /\ (count.lo + incen) % WordSpace \in Word
      /\ (count.lo + incen) \div WordSpace = IF count.lo + incen = WordSpace THEN 1 ELSE 0
      /\ (count.hi + carry) % WordSpace \in Word
  BY <1>1, Wrap, WordSpaceBig DEF Word
<1> QED
  BY <1>1, <1>2 DEF counter_core

(* A cycle in which no register of the counter is written counts it on by  *)
(* what was registered a cycle ago, and the high word takes the carry.     *)
LEMMA Counted ==
  ASSUME TimerTypeOK, SumInv, ~SettingCounter, NEW a \in Access, NEW inc \in {0, 1},
         counter_core(a, inc), ~(a.rw /\ a.reg = counter),
         clock' = clock + incen, clock < MaxTime
  PROVE  /\ count'.hi = count.hi + carry
         /\ count'.hi + carry' < WordSpace
         /\ (count'.hi + carry') * WordSpace + count'.lo = clock'
         /\ high(clock) = count.hi + carry /\ low(clock) = count.lo
<1>1. /\ count.lo \in Word /\ count.hi \in Word /\ carry \in {0, 1} /\ incen \in {0, 1}
      /\ clock \in Nat /\ count.hi + carry \in Word
      /\ (count.hi + carry) * WordSpace + count.lo = clock
  BY WordSpaceBig, TimerAssumption DEF TimerTypeOK, SumInv, Word
<1>2. /\ count'.lo = (count.lo + incen) % WordSpace /\ count'.hi = (count.hi + carry) % WordSpace
      /\ carry' = IF count.lo + incen = WordSpace THEN 1 ELSE 0
  BY CounterTypes DEF writes
<1>3. count'.hi = count.hi + carry
  <2>1. \A n \in Word : n % WordSpace = n
    BY WordSpaceBig DEF Word
  <2> QED
    BY <1>1, <1>2, <2>1
<1> DEFINE h == count.hi + carry
<1>4. h \in Word /\ h * WordSpace + count.lo = clock /\ count'.hi = h
  BY <1>1, <1>3
<1>5. high(clock) = h /\ low(clock) = count.lo
  <2>1. h \in Nat
    BY <1>4, WordSpaceBig DEF Word
  <2> HIDE DEF h
  <2> QED
    BY <1>1, <1>4, <2>1, Words
<1> HIDE DEF h
<1>6. h + carry' < WordSpace /\ (h + carry') * WordSpace + count'.lo = clock'
  <2>1. CASE count.lo + incen = WordSpace
    <3>1. count'.lo = 0 /\ carry' = 1
      BY <1>1, <1>2, <2>1, Wrap
    <3>2. (h + 1) * WordSpace + 0 = clock'
      BY <1>1, <1>4, <2>1, WordSpaceBig DEF Word
    <3>3. clock' \in 0 .. MaxTime
      BY <1>1, TimerAssumption
    <3>4. h + 1 \in Nat /\ 0 \in Word
      BY <1>4, WordSpaceBig DEF Word
    <3>5. high(clock') = h + 1
      BY <3>2, <3>4, Words
    <3>6. h + 1 \in Word
      BY <3>3, <3>5, TimeFits
    <3> QED
      BY <3>1, <3>2, <3>6, WordSpaceBig DEF Word
  <2>2. CASE count.lo + incen # WordSpace
    <3>1. count'.lo = count.lo + incen /\ carry' = 0
      BY <1>1, <1>2, <2>2, Wrap
    <3>2. h * WordSpace \in Nat
      BY <1>4, WordSpaceBig DEF Word
    <3> QED
      BY <1>1, <1>4, <3>1, <3>2, WordSpaceBig DEF Word
  <2> QED
    BY <2>1, <2>2
<1> QED
  BY <1>4, <1>5, <1>6 DEF h

(* What a cycle leaves of the rest of the state.                           *)
LEMMA TypesKept ==
  ASSUME TimerInv, NEW a \in Access, NEW inc \in {0, 1}, counter_core(a, inc), write_access(a),
         irq_gen, Meaning(a), lib' \in Lib, result' \in [value : Nat, since : Nat],
         UNCHANGED <<counter, timerCalls>>, clock < MaxTime, a.rw => lib.value \in 0 .. MaxTime
  PROVE  TimerTypeOK'
<1>1. count' \in [lo : Word, hi : Word] /\ carry' \in {0, 1} /\ incen' \in {0, 1}
  BY CounterTypes DEF TimerInv
<1>2. /\ mtimecmp'.lo \in Word /\ mtimecmp'.hi \in Word
  BY DEF write_access, TimerInv, TimerTypeOK, Access
<1>3. cmp_lo_ge' \in BOOLEAN /\ mti' \in BOOLEAN
  BY DEF irq_gen
<1>4. lib.value \in Nat /\ lib.cycles \in Nat /\ clock \in 0 .. MaxTime /\ target \in 0 .. MaxTime
      /\ incen \in {0, 1} /\ age \in 0 .. 3 /\ MaxTime \in Nat
      /\ unsettled \in [peak : Nat, least : Nat]
  BY TimerAssumption DEF TimerInv, TimerTypeOK, Lib, Settling
<1>5. clock' \in 0 .. MaxTime /\ target' \in 0 .. MaxTime
  BY <1>4 DEF Meaning
<1>6. age' \in 0 .. Settling
  BY <1>4 DEF Meaning, Earlier, Settling
<1>7. unsettled' \in [peak : Nat, least : Nat]
  <2>1. \A x, y \in Nat : Later(x, y) \in Nat /\ Earlier(x, y) \in Nat
    BY DEF Later, Earlier
  <2>2. PICK now \in Nat :
          unsettled' = IF age' = Settling /\ ~Setting THEN [peak |-> now, least |-> target']
                       ELSE [peak |-> Later(unsettled.peak, now),
                             least |-> Earlier(unsettled.least, target')]
    <3> DEFINE now == IF (Setting \/ (a.rw /\ lib.made = 0)) /\ lib.acc[1].reg = counter
                      THEN Later(clock', lib.value + lib.cycles) ELSE clock'
    <3>1. now \in Nat
      <4>1. clock' \in Nat /\ lib.value + lib.cycles \in Nat
        BY <1>4, <1>5
      <4>2. Later(clock', lib.value + lib.cycles) \in Nat
        BY <2>1, <4>1
      <4> QED
        BY <4>1, <4>2
    <3> QED
      BY <3>1 DEF Meaning
  <2>3. unsettled.peak \in Nat /\ unsettled.least \in Nat /\ target' \in Nat
    BY <1>4, <1>5
  <2>4. Later(unsettled.peak, now) \in Nat /\ Earlier(unsettled.least, target') \in Nat
    BY <2>1, <2>3
  <2> QED
    BY <2>2, <2>3, <2>4
<1> QED
  BY <1>1, <1>2, <1>3, <1>5, <1>6, <1>7 DEF TimerInv, TimerTypeOK

-----------------------------------------------------------------------------
(* A cycle of the counter with what the running function does in it *)

(* No function runs when a call has ended. *)
LEMMA NoCallIdle == NoCall.acc = <<>> /\ NoCall \in Lib
BY DEF NoCall, Lib, Accesses, Reads

(* The hardware's part of a cycle. *)
Clocked(a, inc) ==
  /\ clock < MaxTime /\ counter_core(a, inc) /\ write_access(a) /\ irq_gen /\ Meaning(a)
  /\ UNCHANGED <<counter, timerCalls>>

(* While a counter is being set, nothing but the function touches it: the  *)
(* low word counts the cycles since its first access.                      *)
LEMMA SettingCounted ==
  ASSUME TimerInv, SettingCounter, NEW a \in Access, NEW inc \in {0, 1}, counter_core(a, inc)
  PROVE  /\ carry' = 0
         /\ ~writes(a, counter, "lo") => count'.lo <= lib.cycles
         /\ lib.made = 2 /\ ~writes(a, counter, "hi") => count'.hi = high(lib.value)
<1>1. /\ lib.cycles \in Nat /\ count.lo \in Word /\ count.hi \in Word /\ incen \in {0, 1}
      /\ lib.made \in {1, 2} /\ lib.cycles + 2 - lib.made <= SetCycles
      /\ count.lo <= lib.cycles - 1 /\ lib.cycles < WordSpace
      /\ lib.made = 2 => count.hi = high(lib.value) /\ carry = 0
  BY TimerAssumption
     DEF TimerInv, TimerTypeOK, LibInv, SetInv, SettingCounter, Setting, Lib
<1>2. count.lo + incen < WordSpace /\ count.lo + incen <= lib.cycles
  BY <1>1, WordSpaceBig DEF Word
<1>3. /\ carry' = IF count.lo + incen = WordSpace THEN 1 ELSE 0
      /\ ~writes(a, counter, "lo") => count'.lo = (count.lo + incen) % WordSpace
      /\ ~writes(a, counter, "hi") => count'.hi = (count.hi + carry) % WordSpace
  BY CounterTypes DEF TimerInv
<1>4. (count.lo + incen) % WordSpace = count.lo + incen
  <2>1. count.lo + incen # WordSpace
    BY <1>1, <1>2, WordSpaceBig DEF Word
  <2> QED
    BY <1>1, <2>1, Wrap
<1>5. lib.made = 2 => (count.hi + carry) % WordSpace = count.hi
  BY <1>1, Wrap, WordSpaceBig DEF Word
<1> QED
  BY <1>1, <1>2, <1>3, <1>4, <1>5, WordSpaceBig

(* A cycle without an access.                                              *)
LEMMA Idles ==
  ASSUME TimerInv, NEW inc \in {0, 1}, Clocked(NoAccess, inc),
         Setting => lib.cycles + Len(lib.acc) - lib.made <= SetCycles,
         lib' = IF Setting THEN [lib EXCEPT !.cycles = lib.cycles + 1] ELSE lib,
         result' = result
  PROVE  TimerInv'
<1>1. /\ NoAccess \in Access /\ ~NoAccess.rw
      /\ ~writes(NoAccess, counter, "lo") /\ ~writes(NoAccess, counter, "hi")
  BY WordSpaceBig DEF NoAccess, read, Access, writes, Word
<1>2. /\ lib' \in Lib /\ lib'.acc = lib.acc /\ lib'.made = lib.made /\ lib'.seen = lib.seen
      /\ lib'.since = lib.since /\ lib'.value = lib.value
      /\ Setting => lib'.cycles = lib.cycles + 1
      /\ ~Setting => lib'.cycles = lib.cycles
  <2>1. lib \in Lib /\ lib.cycles + 1 \in Nat
    BY DEF TimerInv, TimerTypeOK, Lib
  <2>2. CASE Setting
    <3>1. lib' = [lib EXCEPT !.cycles = lib.cycles + 1]
      BY <2>2
    <3> QED
      BY <2>1, <3>1 DEF Lib
  <2>3. CASE ~Setting
    BY <2>1, <2>3
  <2> QED
    BY <2>2, <2>3
<1>3. clock' = clock + incen /\ counter' = counter /\ clock < MaxTime
      /\ counter_core(NoAccess, inc)
  BY <1>1 DEF Clocked, Meaning
<1>4. TimerTypeOK'
  BY <1>1, <1>2, TypesKept DEF Clocked, TimerInv, TimerTypeOK
<1>5. (Calling' <=> Calling) /\ (Setting' <=> Setting) /\ (Getting' <=> Getting)
      /\ (SettingCounter' <=> SettingCounter)
  BY <1>2, <1>3 DEF Calling, Setting, Getting, SettingCounter, read64, read
<1>6. LibInv'
  BY <1>2, <1>3, <1>5 DEF LibInv, Calling, Getting, SettingOf, write, high, low, TimerInv, read64, read
<1>7. SumInv'
  BY <1>1, <1>3, <1>5, Counted DEF SumInv, TimerInv
<1>8. SetInv'
  <2> SUFFICES ASSUME SettingCounter PROVE SetInv'
    BY <1>5 DEF SetInv
  <2>1. /\ carry' = 0 /\ count'.lo <= lib.cycles
        /\ lib.made = 2 => count'.hi = high(lib.value)
    BY <1>1, <1>3, SettingCounted
  <2>2. Setting /\ Len(lib.acc) = 3 /\ lib.made \in Nat /\ lib.cycles \in Nat
    BY AccessOf DEF SettingCounter, Setting, TimerInv, TimerTypeOK, Lib
  <2> QED
    BY <1>2, <2>1, <2>2, TimerAssumption DEF SetInv, high
<1>9. GetInv'
  <2> SUFFICES ASSUME Calling, Getting PROVE GetInv'
    BY <1>5 DEF GetInv
  <2>1. ~SettingCounter
    BY AccessOf DEF SettingCounter, Setting, TimerInv
  <2>2. /\ count'.hi = count.hi + carry /\ high(clock) = count.hi + carry
        /\ carry' \in {0, 1} /\ count.hi \in Nat /\ carry \in {0, 1} /\ incen \in {0, 1}
        /\ clock \in Nat /\ lib.since \in Nat
    <3>1. count'.hi = count.hi + carry /\ high(clock) = count.hi + carry
      BY <1>1, <1>3, <2>1, Counted DEF TimerInv
    <3>2. carry' \in {0, 1}
      BY <1>1, <1>3, CounterTypes DEF TimerInv
    <3>3. count.hi \in Nat /\ carry \in {0, 1} /\ incen \in {0, 1} /\ clock \in Nat /\ lib.since \in Nat
      BY WordSpaceBig, TimerAssumption DEF TimerInv, TimerTypeOK, Word, Lib
    <3> QED
      BY <3>1, <3>2, <3>3
  <2>3. /\ lib.since <= clock' /\ Len(lib'.seen) = lib'.made
    BY <1>2, <1>3, <2>2 DEF GetInv, TimerInv
  <2>4. lib'.made = 1 => lib'.seen[1] <= count'.hi + carry'
    <3> SUFFICES ASSUME lib.made = 1 PROVE lib.seen[1] <= count'.hi + carry'
      BY <1>2
    <3>1. lib.seen[1] <= count.hi + carry /\ lib.seen[1] \in Nat
      BY DEF GetInv, TimerInv, TimerTypeOK, Lib, Reads
    <3> QED
      BY <2>2, <3>1
  <2>5. lib'.made = 2 => \E t \in 0 .. MaxTime : Moment(t)'
    <3> SUFFICES ASSUME lib.made = 2 PROVE \E t \in 0 .. MaxTime : Moment(t)'
      BY <1>2
    <3>1. PICK t \in 0 .. MaxTime : Moment(t)
      BY DEF GetInv, TimerInv
    <3>2. high(t) <= high(clock)
      <4>1. t \in Nat /\ t <= clock
        BY <3>1, TimerAssumption DEF Moment
      <4> QED
        BY <2>2, <4>1, LaterHigh
    <3>3. Moment(t)'
      BY <1>2, <1>3, <2>2, <3>1, <3>2, TimerAssumption DEF Moment, high, low
    <3> QED
      BY <3>3
  <2> QED
    BY <1>2, <2>3, <2>4, <2>5 DEF GetInv
<1>10. ResultInv'
  BY <1>3 DEF ResultInv, TimerInv, TimerTypeOK
<1>11. FreshCycles'
  BY <1>2, <1>5 DEF FreshCycles, TimerInv
<1> QED
  BY <1>4, <1>6, <1>7, <1>8, <1>9, <1>10, <1>11 DEF TimerInv

(* A read access of a get function: each of them finds what the counter    *)
(* shows, and the last one ends the call unless the high word has changed. *)
LEMMA Reads3 ==
  ASSUME TimerInv, Calling, Getting, NEW inc \in {0, 1},
         Clocked(lib.acc[lib.made + 1], inc), Continue(lib.acc[lib.made + 1])
  PROVE  TimerInv'
<1> DEFINE a == lib.acc[lib.made + 1]
           seen == Append(lib.seen, count[a.word])
<1>1. /\ a \in Access /\ Len(lib.acc) = 3 /\ lib.made \in {0, 1, 2} /\ ~a.rw
      /\ ~lib.acc[1].rw /\ a.word = IF lib.made = 1 THEN "lo" ELSE "hi"
  BY AccessOf DEF TimerInv
<1>2. ~SettingCounter /\ ~Setting
  BY <1>1 DEF SettingCounter, Setting
<1>3. Len(lib.seen) = lib.made /\ lib.seen \in Reads
  BY DEF GetInv, TimerInv, TimerTypeOK, Lib
<1>4. /\ lib' \in Lib /\ result' \in [value : Nat, since : Nat]
      /\ lib.made < 2 => /\ lib'.acc = lib.acc /\ lib'.made = lib.made + 1
                         /\ lib'.since = lib.since /\ result' = result
                         /\ lib'.value = lib.value /\ lib'.seen = seen
                         /\ lib'.cycles = lib.cycles
      /\ lib.made = 2 =>
           \/ /\ lib'.acc = lib.acc /\ lib'.made = 0 /\ lib'.seen = <<>>
              /\ lib'.since = lib.since /\ lib'.value = lib.value /\ result' = result
              /\ lib'.cycles = lib.cycles
           \/ /\ seen[1] = seen[3] /\ lib' = NoCall
              /\ result' = [value |-> seen[3] * WordSpace + seen[2], since |-> lib.since]
  BY <1>1, <1>3, Continues DEF TimerInv
<1>5. clock' = clock + incen /\ counter' = counter /\ clock < MaxTime /\ counter_core(a, inc)
      /\ clock \in Nat /\ incen \in {0, 1} /\ lib.since \in Nat /\ lib.since <= clock
  BY <1>1, TimerAssumption DEF Clocked, Meaning, TimerInv, TimerTypeOK, Lib, GetInv
<1>6. /\ count'.hi = count.hi + carry /\ high(clock) = count.hi + carry
      /\ low(clock) = count.lo
  BY <1>1, <1>2, <1>5, Counted DEF TimerInv
<1>7. /\ count.hi \in Nat /\ count.lo \in Nat /\ carry \in {0, 1}
  BY WordSpaceBig DEF TimerInv, TimerTypeOK, Word
<1>8. TimerTypeOK'
  BY <1>1, <1>4, TypesKept DEF Clocked
<1>9. /\ lib.made = 0 => Len(seen) = 1 /\ seen[1] = count.hi
      /\ lib.made = 1 => Len(seen) = 2 /\ seen[1] = lib.seen[1] /\ seen[2] = count.lo
      /\ lib.made = 2 => Len(seen) = 3 /\ seen[1] = lib.seen[1] /\ seen[2] = lib.seen[2]
                         /\ seen[3] = count.hi
  BY <1>1, <1>3 DEF Reads
<1> HIDE DEF seen, a
<1>10. CASE lib.made < 2 \/ lib'.acc = lib.acc
  <2>1. /\ lib'.acc = lib.acc /\ result' = result /\ lib'.since = lib.since
        /\ lib'.value = lib.value
    BY <1>1, <1>4, <1>10, NoCallIdle DEF Calling
  <2>2. Calling' /\ Getting' /\ ~SettingCounter' /\ ~Setting'
    BY <1>1, <1>5, <2>1 DEF Calling, Getting, SettingCounter, Setting, read64, read
  <2>3. LibInv'
    BY <1>1, <1>4, <1>10, <2>1, <2>2, NoCallIdle DEF LibInv, TimerInv, Calling
  <2>4. SumInv'
    BY <1>1, <1>2, <1>5, Counted DEF SumInv, TimerInv
  <2>5. SetInv'
    BY <2>2 DEF SetInv
  <2>6. GetInv'
    <3>1. lib'.since <= clock'
      BY <1>5, <2>1
    <3>2. CASE lib.made = 0
      <4>1. carry' \in {0, 1}
        BY <1>1, <1>5, CounterTypes DEF TimerInv
      <4>2. lib'.made = 1 /\ lib'.seen = seen
        BY <1>4, <3>2
      <4>3. Len(lib'.seen) = lib'.made /\ lib'.seen[1] <= count'.hi + carry'
        BY <1>6, <1>7, <1>9, <3>2, <4>1, <4>2
      <4> QED
        BY <3>1, <4>2, <4>3 DEF GetInv
    <3>3. CASE lib.made = 1
      <4>1. lib.seen[1] <= count.hi + carry
        BY <3>3 DEF TimerInv, GetInv
      <4>2. lib'.made = 2 /\ lib'.seen = seen
        BY <1>4, <3>3
      <4>3. Len(lib'.seen) = lib'.made
        BY <1>9, <3>3, <4>2
      <4>4. /\ lib'.seen[1] <= high(clock) /\ lib'.seen[2] = low(clock)
            /\ high(clock) <= count'.hi /\ lib'.since <= clock /\ clock <= clock'
        BY <1>5, <1>6, <1>7, <1>9, <2>1, <3>3, <4>1, <4>2
      <4>5. clock \in 0 .. MaxTime
        BY DEF TimerInv, TimerTypeOK
      <4>6. \E t \in 0 .. MaxTime : Moment(t)'
        <5>1. PICK t \in 0 .. MaxTime : t = clock
          BY <4>5
        <5>2. Moment(t)'
          BY <4>4, <5>1 DEF Moment, high, low
        <5> QED
          BY <5>2
      <4> QED
        BY <3>1, <4>2, <4>3, <4>6 DEF GetInv
    <3>4. CASE lib.made = 2
      <4>1. lib'.made = 0 /\ lib'.seen = <<>>
        BY <1>4, <1>10, <3>4, NoCallIdle DEF Calling
      <4> QED
        BY <3>1, <4>1 DEF GetInv
    <3> QED
      BY <1>1, <3>2, <3>3, <3>4
  <2>7. ResultInv'
    BY <2>1 DEF ResultInv, TimerInv, LibInv
  <2>8. lib'.cycles = lib.cycles
    BY <1>1, <1>4, <1>10, NoCallIdle DEF Calling
  <2>9. FreshCycles'
    BY <1>2, <2>8 DEF FreshCycles, TimerInv
  <2> QED
    BY <1>8, <2>3, <2>4, <2>5, <2>6, <2>7, <2>9 DEF TimerInv
<1>11. CASE lib.made = 2 /\ lib'.acc # lib.acc
  <2>1. /\ seen[1] = seen[3] /\ lib' = NoCall
        /\ result' = [value |-> seen[3] * WordSpace + seen[2], since |-> lib.since]
    BY <1>4, <1>11
  <2>2. ~Calling' /\ ~SettingCounter' /\ LibInv'
    BY <2>1, NoCallIdle DEF Calling, SettingCounter, Setting, LibInv
  <2>3. SumInv'
    BY <1>1, <1>2, <1>5, Counted DEF SumInv, TimerInv
  <2>4. ResultInv'
    <3>1. PICK t \in 0 .. MaxTime : Moment(t)
      BY <1>11 DEF TimerInv, GetInv
    <3>2. t \in Nat /\ high(t) \in Nat /\ t = high(t) * WordSpace + low(t)
      BY <3>1, Split, TimerAssumption
    <3>3. high(t) = count.hi
      BY <1>7, <1>9, <1>11, <2>1, <3>1, <3>2 DEF Moment
    <3>4. result'.value = t /\ result'.since = lib.since
      BY <1>9, <1>11, <2>1, <3>1, <3>2, <3>3 DEF Moment
    <3>5. lib.since <= t /\ t <= clock'
      BY <1>5, <3>1, <3>2 DEF Moment
    <3> QED
      BY <3>4, <3>5 DEF ResultInv
  <2>5. FreshCycles'
    BY <2>1 DEF FreshCycles, NoCall
  <2> QED
    BY <1>8, <2>2, <2>3, <2>4, <2>5 DEF TimerInv, SetInv, GetInv
<1> QED
  BY <1>1, <1>10, <1>11

(* A write access of a set function.                                       *)
LEMMA Writes3 ==
  ASSUME TimerInv, Calling, ~Getting, NEW inc \in {0, 1},
         Clocked(lib.acc[lib.made + 1], inc), Continue(lib.acc[lib.made + 1])
  PROVE  TimerInv'
<1> DEFINE a == lib.acc[lib.made + 1]
<1>1. /\ a \in Access /\ Len(lib.acc) = 3 /\ lib.made \in {0, 1, 2} /\ a.rw
      /\ a.reg = lib.acc[1].reg /\ lib.acc[1].rw /\ lib.value \in 0 .. MaxTime
      /\ a.word = IF lib.made = 1 THEN "hi" ELSE "lo"
      /\ lib.made = 0 /\ a.reg = counter => a.data = 0
      /\ lib.made = 1 => a.data = high(lib.value)
      /\ lib.made = 2 => a.data = low(lib.value)
  BY AccessOf DEF TimerInv
<1>2. /\ lib' \in Lib /\ result' = result /\ result' \in [value : Nat, since : Nat]
      /\ lib.made < 2 => /\ lib'.acc = lib.acc /\ lib'.made = lib.made + 1
                         /\ lib'.value = lib.value /\ lib'.cycles = lib.cycles + 1
      /\ lib.made = 2 => lib' = NoCall
  BY <1>1, Continues DEF TimerInv
<1>3. /\ clock' = IF lib.made = 2 /\ a.reg = counter THEN lib.value ELSE clock + incen
      /\ counter' = counter /\ clock < MaxTime /\ counter_core(a, inc)
  BY <1>1 DEF Clocked, Meaning
<1>4. TimerTypeOK'
  BY <1>1, <1>2, TypesKept DEF Clocked
<1>5. result = NoResult
  BY DEF TimerInv, LibInv
<1> HIDE DEF a
<1>6. LibInv' /\ ~(Calling /\ Getting)'
  <2>1. CASE lib.made = 2
    BY <1>2, <2>1, NoCallIdle DEF LibInv, Calling
  <2>2. CASE lib.made < 2
    <3>1. Calling' /\ (Getting' <=> Getting)
      BY <1>2, <1>3, <2>2 DEF Calling, Getting, read64, read
    <3>2. \A r \in Counters \cup {"mtimecmp"}, f \in Word : SettingOf(r, f) => SettingOf(r, f)'
      BY <1>2, <2>2 DEF SettingOf, write, high, low
    <3>3. counter \in Counters /\ 0 \in Word /\ WordSpace - 1 \in Word
      BY WordSpaceBig DEF TimerInv, TimerTypeOK, Word
    <3>4. SettingOf(counter, 0) \/ SettingOf("mtimecmp", WordSpace - 1)
      BY DEF TimerInv, LibInv
    <3>5. (SettingOf(counter, 0) \/ SettingOf("mtimecmp", WordSpace - 1))'
      <4>1. CASE SettingOf(counter, 0)
        <5>1. PICK r \in Counters : r = counter
          BY <3>3
        <5>2. SettingOf(r, 0)'
          BY <3>2, <3>3, <4>1, <5>1
        <5>3. r = counter'
          BY <1>3, <5>1
        <5> QED
          BY <5>2, <5>3 DEF SettingOf
      <4>2. CASE SettingOf("mtimecmp", WordSpace - 1)
        BY <3>2, <3>3, <4>2
      <4> QED
        BY <3>4, <4>1, <4>2
    <3>6. lib'.made \in 0 .. 2 /\ result' = NoResult
      BY <1>1, <1>2, <1>5, <2>2
    <3>7. LibInv'
      BY <3>1, <3>5, <3>6 DEF LibInv
    <3> QED
      BY <3>1, <3>7
  <2> QED
    BY <1>1, <2>1, <2>2
<1>7. GetInv' /\ ResultInv'
  BY <1>2, <1>5, <1>6 DEF GetInv, ResultInv
<1>10. FreshCycles'
  <2>1. CASE lib.made = 2
    BY <1>2, <2>1 DEF FreshCycles, NoCall
  <2>2. CASE lib.made < 2
    <3>1. lib'.acc = lib.acc /\ lib'.made > 0 /\ lib.acc # <<>>
      BY <1>1, <1>2, <2>2
    <3> QED
      BY <1>1, <3>1 DEF FreshCycles, Setting, Calling
  <2> QED
    BY <1>1, <2>1, <2>2
<1>8. CASE a.reg # counter
  <2>1. ~SettingCounter /\ ~SettingCounter'
    BY <1>1, <1>2, <1>3, <1>8, NoCallIdle DEF SettingCounter, Setting, Calling
  <2>2. SumInv'
    BY <1>1, <1>3, <1>8, <2>1, Counted DEF SumInv, TimerInv
  <2> QED
    BY <1>4, <1>6, <1>7, <1>10, <2>1, <2>2 DEF TimerInv, SetInv
<1>9. CASE a.reg = counter
  <2>1. SettingCounter <=> lib.made > 0
    BY <1>1, <1>9 DEF SettingCounter, Setting
  <2>2. ASSUME lib.made < 2 PROVE SettingCounter'
    <3>1. lib'.acc = lib.acc /\ lib'.made > 0 /\ counter' = counter /\ lib.acc # <<>>
      BY <1>1, <1>2, <1>3, <2>2
    <3> QED
      BY <1>1, <1>9, <3>1 DEF SettingCounter, Setting, Calling
  <2>3. lib.cycles \in Nat /\ carry' \in {0, 1}
    BY <1>1, <1>3, CounterTypes DEF TimerInv, TimerTypeOK, Lib
  <2>4. SetInv'
    <3>1. CASE lib.made = 0
      <4>1. count'.lo = 0
        BY <1>1, <1>3, <1>9, <3>1, CounterTypes DEF TimerInv, writes
      <4>2. lib.cycles = 0
        BY <3>1 DEF TimerInv, FreshCycles, Setting
      <4> QED
        BY <1>2, <3>1, <4>1, <4>2, TimerAssumption DEF SetInv
    <3>2. CASE lib.made = 1
      <4>1. count'.hi = high(lib.value)
        BY <1>1, <1>3, <1>9, <3>2, CounterTypes DEF TimerInv, writes
      <4>2. carry' = 0 /\ count'.lo <= lib.cycles
        BY <1>1, <1>3, <2>1, <3>2, SettingCounted DEF writes
      <4>3. lib.cycles + 1 <= SetCycles
        BY <2>1, <2>3, <3>2, TimerAssumption DEF TimerInv, SetInv
      <4> QED
        BY <1>2, <2>3, <3>2, <4>1, <4>2, <4>3 DEF SetInv, high
    <3>3. CASE lib.made = 2
      BY <1>2, <3>3, NoCallIdle DEF SetInv, SettingCounter, Setting, Calling
    <3> QED
      BY <1>1, <3>1, <3>2, <3>3
  <2>5. SumInv'
    <3>1. CASE lib.made < 2
      BY <2>2, <3>1 DEF SumInv
    <3>2. CASE lib.made = 2
      <4>1. carry' = 0 /\ count'.hi = high(lib.value)
        BY <1>1, <1>3, <2>1, <3>2, SettingCounted DEF writes
      <4>2. count'.lo = low(lib.value)
        BY <1>1, <1>3, <1>9, <3>2, CounterTypes DEF TimerInv, writes
      <4>3. clock' = lib.value /\ lib.value = high(lib.value) * WordSpace + low(lib.value)
        BY <1>1, <1>3, <1>9, <3>2, Split, TimerAssumption
      <4>4. high(lib.value) \in Word
        BY <1>1, TimeFits
      <4> QED
        BY <4>1, <4>2, <4>3, <4>4, WordSpaceBig DEF SumInv, Word
    <3> QED
      BY <1>1, <3>1, <3>2
  <2> QED
    BY <1>4, <1>6, <1>7, <1>10, <2>4, <2>5 DEF TimerInv
<1> QED
  BY <1>8, <1>9

(* A cycle, with an access or without. *)
LEMMA Cycles ==
  ASSUME TimerInv, TimerCycle
  PROVE  TimerInv'
<1>1. PICK inc \in {0, 1}, access \in BOOLEAN :
        LET a == IF access THEN lib.acc[lib.made + 1] ELSE NoAccess
        IN  /\ access => Calling
            /\ Setting /\ ~access => lib.cycles + Len(lib.acc) - lib.made <= SetCycles
            /\ counter_core(a, inc) /\ write_access(a) /\ irq_gen
            /\ IF access THEN Continue(a)
               ELSE lib' = (IF Setting THEN [lib EXCEPT !.cycles = lib.cycles + 1] ELSE lib)
                    /\ UNCHANGED result
            /\ Meaning(a)
  BY DEF TimerCycle
<1>2. clock < MaxTime /\ UNCHANGED <<counter, timerCalls>>
  BY DEF TimerCycle
<1>3. CASE ~access
  <2>1. Clocked(NoAccess, inc)
    BY <1>1, <1>2, <1>3 DEF Clocked
  <2>2. Setting => lib.cycles + Len(lib.acc) - lib.made <= SetCycles
    BY <1>1, <1>3
  <2>3. /\ lib' = IF Setting THEN [lib EXCEPT !.cycles = lib.cycles + 1] ELSE lib
        /\ result' = result
    BY <1>1, <1>3
  <2> QED
    BY <2>1, <2>2, <2>3, Idles
<1>4. CASE access
  <2>1. Calling /\ Continue(lib.acc[lib.made + 1])
    BY <1>1, <1>4
  <2>2. Clocked(lib.acc[lib.made + 1], inc)
    BY <1>1, <1>2, <1>4 DEF Clocked
  <2> QED
    BY <2>1, <2>2, Reads3, Writes3
<1> QED
  BY <1>3, <1>4

(* A call touches none of the registers; it begins with the first access   *)
(* of the function that is called.                                         *)
LEMMA Calls ==
  ASSUME TimerInv, NEW fn \in Accesses, NEW v \in 0 .. MaxTime, Call(fn, v), fn # <<>>,
         counter' = counter,
         \/ fn = read64(counter)
         \/ \E r \in {<<counter, 0>>, <<"mtimecmp", WordSpace - 1>>} :
              fn = <<write(r[1], "lo", r[2]), write(r[1], "hi", high(v)), write(r[1], "lo", low(v))>>
  PROVE  TimerInv'
<1> DEFINE b == [NoCall EXCEPT !.acc = fn]
           d == [b EXCEPT !.since = clock]
           e == [d EXCEPT !.value = v]
<1>1. lib' = e /\ result' = NoResult /\ ~Calling /\ timerCalls' = timerCalls + 1
  BY DEF Call
<1>2. clock \in Nat /\ v \in Nat /\ <<>> \in Reads
  BY TimerAssumption DEF TimerInv, TimerTypeOK, Reads
<1>3. /\ b \in Lib /\ b.acc = fn /\ b.made = 0 /\ b.seen = <<>> /\ b.cycles = 0
  BY <1>2 DEF NoCall, Lib
<1> HIDE DEF b
<1>4. /\ d \in Lib /\ d.acc = fn /\ d.made = 0 /\ d.seen = <<>> /\ d.cycles = 0 /\ d.since = clock
  BY <1>2, <1>3 DEF Lib
<1> HIDE DEF d
<1>5. /\ e \in Lib /\ e.acc = fn /\ e.made = 0 /\ e.seen = <<>> /\ e.cycles = 0
      /\ e.since = clock /\ e.value = v
  BY <1>2, <1>4 DEF Lib
<1> HIDE DEF e
<1>6. UNCHANGED <<counter, count, carry, incen, mtimecmp, cmp_lo_ge, mti, clock, target, unsettled, age>>
  BY DEF Call
<1>7. NoResult \in [value : Nat, since : Nat]
  BY DEF NoResult
<1>8. TimerTypeOK'
  BY <1>1, <1>5, <1>6, <1>7 DEF TimerInv, TimerTypeOK
<1>9. Calling' /\ ~Setting' /\ ~SettingCounter'
  BY <1>1, <1>5 DEF Calling, Setting, SettingCounter
<1>10. LibInv'
  <2>1. lib'.made \in 0 .. 2 /\ result' = NoResult
    BY <1>1, <1>5
  <2>2. CASE fn = read64(counter)
    <3>1. Getting'
      BY <1>1, <1>5, <1>6, <2>2 DEF Getting
    <3> QED
      BY <1>9, <2>1, <3>1 DEF LibInv
  <2>3. CASE fn = <<write(counter, "lo", 0), write(counter, "hi", high(v)),
                    write(counter, "lo", low(v))>>
    <3>1. SettingOf(counter, 0)'
      BY <1>1, <1>5, <1>6, <2>3 DEF SettingOf
    <3> QED
      BY <1>9, <2>1, <3>1 DEF LibInv
  <2>4. CASE fn = <<write("mtimecmp", "lo", WordSpace - 1), write("mtimecmp", "hi", high(v)),
                    write("mtimecmp", "lo", low(v))>>
    <3>1. SettingOf("mtimecmp", WordSpace - 1)'
      BY <1>1, <1>5, <1>6, <2>4 DEF SettingOf
    <3> QED
      BY <1>9, <2>1, <3>1 DEF LibInv
  <2> QED
    BY <2>2, <2>3, <2>4
<1>11. SumInv'
  <2>1. ~SettingCounter
    BY <1>1 DEF SettingCounter, Setting
  <2>2. count.hi + carry < WordSpace /\ (count.hi + carry) * WordSpace + count.lo = clock
    BY <2>1 DEF SumInv, TimerInv
  <2> QED
    BY <1>6, <2>2 DEF SumInv
<1>12. SetInv' /\ FreshCycles' /\ ResultInv'
  BY <1>1, <1>5, <1>9 DEF SetInv, FreshCycles, ResultInv
<1>13. GetInv'
  BY <1>1, <1>2, <1>5, <1>6 DEF GetInv
<1> QED
  BY <1>8, <1>10, <1>11, <1>12, <1>13 DEF TimerInv

(* Every function that can be called consists of accesses. *)
LEMMA Functions64 ==
  ASSUME NEW v \in 0 .. MaxTime, NEW r \in Counters \cup {"mtimecmp"}, NEW f \in Word
  PROVE  /\ read64(r) \in Accesses /\ read64(r) # <<>>
         /\ LET fn == <<write(r, "lo", f), write(r, "hi", high(v)), write(r, "lo", low(v))>>
            IN  fn \in Accesses /\ fn # <<>>
<1>1. high(v) \in Word /\ low(v) \in Word /\ 0 \in Word
  BY TimeFits, WordSpaceBig DEF Word
<1>2. \A w \in {"lo", "hi"}, x \in Word : read(r, w) \in Access /\ write(r, w, x) \in Access
  BY <1>1 DEF read, write, Access
<1> QED
  BY <1>1, <1>2 DEF read64, Accesses

(* The initial states satisfy the invariant, and every step keeps it.      *)
LEMMA TimerInitInv == TimerInit => TimerInv
<1> SUFFICES ASSUME TimerInit PROVE TimerInv
  OBVIOUS
<1>1. lib = NoCall /\ lib.acc = <<>> /\ lib \in Lib /\ lib.cycles = 0
  BY NoCallIdle DEF TimerInit, NoCall
<1>2. ~Calling /\ ~Setting /\ ~SettingCounter
  BY <1>1 DEF Calling, Setting, SettingCounter
<1>3. TimerTypeOK
  <2>1. 0 \in Word /\ 0 \in 0 .. MaxTime /\ 0 \in 0 .. Settling
    BY WordSpaceBig, TimerAssumption DEF Word, Settling
  <2>2. result \in [value : Nat, since : Nat] /\ counter \in Counters
    BY DEF TimerInit, NoResult, Counters
  <2>3. /\ count \in [lo : Word, hi : Word] /\ mtimecmp.lo \in Word /\ mtimecmp.hi \in Word
        /\ unsettled \in [peak : Nat, least : Nat]
    BY <2>1 DEF TimerInit
  <2>4. carry \in {0, 1} /\ incen \in {0, 1} /\ cmp_lo_ge \in BOOLEAN /\ mti \in BOOLEAN
    BY DEF TimerInit
  <2> QED
    BY <1>1, <2>1, <2>2, <2>3, <2>4 DEF TimerInit, TimerTypeOK
<1>4. SumInv
  BY WordSpaceBig DEF TimerInit, SumInv
<1> QED
  BY <1>1, <1>2, <1>3, <1>4
     DEF TimerInit, TimerInv, LibInv, SetInv, FreshCycles, GetInv, ResultInv

(* Every step keeps the invariant. *)
LEMMA TimerStep == TimerInv /\ [TimerNext]_timerVars => TimerInv'
<1> SUFFICES ASSUME TimerInv, [TimerNext]_timerVars PROVE TimerInv'
  OBVIOUS
<1>1. counter \in Counters /\ 0 \in Word /\ WordSpace - 1 \in Word /\ 0 \in 0 .. MaxTime
  BY WordSpaceBig, TimerAssumption DEF TimerInv, TimerTypeOK, Word
<1>2. CASE Get
  <2>1. Call(read64(counter), 0) /\ counter' = counter
    BY <1>2 DEF Get, neorv32_clint_time_get, neorv32_cpu_get_cycle, neorv32_cpu_get_instret, Call
  <2>2. read64(counter) \in Accesses /\ read64(counter) # <<>>
    BY <1>1, Functions64
  <2> QED
    BY <1>1, <2>1, <2>2, Calls
<1>3. CASE Set
  <2> DEFINE writes64(r, f, v) ==
        <<write(r, "lo", f), write(r, "hi", high(v)), write(r, "lo", low(v))>>
  <2>1. PICK v \in TimeValues :
          \/ Call(writes64(counter, 0, v), v)
          \/ Call(writes64("mtimecmp", WordSpace - 1, v), v)
    BY <1>3 DEF Set, neorv32_clint_time_set, neorv32_clint_mtimecmp_set, neorv32_cpu_set_mcycle,
                neorv32_cpu_set_minstret
  <2>2. v \in 0 .. MaxTime
    BY <2>1, TimerAssumption
  <2>3. /\ writes64(counter, 0, v) \in Accesses /\ writes64(counter, 0, v) # <<>>
        /\ writes64("mtimecmp", WordSpace - 1, v) \in Accesses
        /\ writes64("mtimecmp", WordSpace - 1, v) # <<>>
    BY <1>1, <2>2, Functions64
  <2>4. counter' = counter
    BY <2>1 DEF Call
  <2>5. CASE Call(writes64(counter, 0, v), v)
    BY <2>2, <2>3, <2>4, <2>5, Calls
  <2>6. CASE Call(writes64("mtimecmp", WordSpace - 1, v), v)
    BY <2>2, <2>3, <2>4, <2>6, Calls
  <2> QED
    BY <2>1, <2>5, <2>6
<1>4. CASE TimerCycle
  BY <1>4, Cycles
<1>5. CASE UNCHANGED timerVars
  BY <1>5 DEF timerVars, TimerInv, TimerTypeOK, LibInv, SumInv, SetInv, FreshCycles, GetInv, ResultInv,
              Getting, SettingOf, Calling, Setting, SettingCounter, Moment
<1> QED
  BY <1>2, <1>3, <1>4, <1>5 DEF TimerNext

(* The invariant holds throughout. *)
LEMMA TimerInvariant == TimerSpec => []TimerInv
BY TimerInitInv, TimerStep, PTL DEF TimerSpec

-----------------------------------------------------------------------------
(* The registers of counter and comparator hold words, the carry and the   *)
(* enable are bits, and the running function, its result and the times     *)
(* have their types, for words of any size and any bound on the time.      *)
THEOREM TimerTypeCorrect == TimerSpec => []TimerTypeOK
<1>1. TimerInv => TimerTypeOK
  BY DEF TimerInv
<1> QED
  BY <1>1, TimerInvariant, PTL

(* The two words of a 64-bit counter (neorv32_prim_cnt) with the carry     *)
(* between them are the time counted since the counter was last set, and   *)
(* the time that neorv32_clint_time_get, neorv32_cpu_get_cycle and         *)
(* neorv32_cpu_get_instret return is one that the counter had between      *)
(* their call and their return.                                            *)
THEOREM TimerCounterCorrect == TimerSpec => []CounterCorrect
<1>1. TimerInv => CounterCorrect
  <2> SUFFICES ASSUME TimerInv PROVE CounterCorrect
    OBVIOUS
  <2>1. ASSUME ~(Setting /\ lib.acc[1].reg = counter)
        PROVE  ((count.hi + carry) % WordSpace) * WordSpace + count.lo = clock
    <3>1. count.hi + carry \in Nat /\ count.hi + carry < WordSpace
      BY <2>1, WordSpaceBig DEF TimerInv, TimerTypeOK, SumInv, SettingCounter, Word
    <3>2. (count.hi + carry) % WordSpace = count.hi + carry
      BY <3>1, WordSpaceBig
    <3>3. (count.hi + carry) * WordSpace + count.lo = clock
      BY <2>1 DEF TimerInv, SumInv, SettingCounter
    <3> QED
      BY <3>2, <3>3
  <2> QED
    BY <2>1 DEF CounterCorrect, TimerInv, ResultInv
<1> QED
  BY <1>1, TimerInvariant, PTL
-----------------------------------------------------------------------------
(* The timer interrupt *)

SettingComparator == Setting /\ lib.acc[1].reg = "mtimecmp"

(* The comparator holds the target, or is on its way to it with the low    *)
(* word out of reach.                                                      *)
ComparatorInv ==
  /\ ~SettingComparator => mtimecmp.hi = high(target) /\ mtimecmp.lo = low(target)
  /\ SettingComparator => /\ target = lib.value /\ mtimecmp.lo = WordSpace - 1
                          /\ lib.made = 2 => mtimecmp.hi = high(target)

(* Once the last write access has settled, the result of the comparison of *)
(* the low words belongs to the time that the high word shows a cycle      *)
(* later, and the interrupt to the time two cycles ago.                    *)
SettledInv ==
  counter = "mtime" =>
    /\ age >= 1 => incen = 1
    /\ ~Setting /\ age >= 2 =>
         \E p \in Word : /\ count.hi * WordSpace + p = clock - 1
                         /\ cmp_lo_ge <=> p >= mtimecmp.lo
    /\ ~Setting /\ age = Settling => (mti <=> clock >= target + 2)

(* Before that the registers show no time beyond the peak and the          *)
(* comparator no target before the least, so that an interrupt that is     *)
(* about to rise is not a spurious one.                                    *)
UnsettledInv ==
  /\ clock <= unsettled.peak
  /\ SettingCounter => lib.value + lib.cycles <= unsettled.peak + 1
  /\ SettingCounter /\ lib.made = 1 => (count.hi + carry) * WordSpace + count.lo <= clock
  /\ unsettled.least <= target
  /\ unsettled.least <= mtimecmp.hi * WordSpace + mtimecmp.lo
  /\ count.hi = mtimecmp.hi /\ cmp_lo_ge => unsettled.least <= unsettled.peak

InterruptInv == ComparatorInv /\ SettledInv /\ UnsettledInv

(* The comparison of the comparator, word by word, is that of the numbers. *)
LEMMA Compared ==
  ASSUME NEW a \in Nat, NEW b \in Word, NEW c \in Nat, NEW d \in Word
  PROVE  (a > c \/ (a = c /\ b >= d)) <=> a * WordSpace + b >= c * WordSpace + d
<1>1. b \in Nat /\ d \in Nat /\ b < WordSpace /\ d < WordSpace
  BY WordSpaceBig DEF Word
<1>2. ASSUME a > c PROVE a * WordSpace + b >= c * WordSpace + d
  <2>1. PICK k \in Nat : a = c + 1 + k
    <3>1. a - c - 1 \in Nat /\ a = c + 1 + (a - c - 1)
      BY <1>2
    <3> QED
      BY <3>1
  <2>2. a * WordSpace = c * WordSpace + WordSpace + k * WordSpace
    BY <2>1, WordSpaceBig
  <2>3. k * WordSpace \in Nat /\ c * WordSpace \in Nat
    BY <2>1, WordSpaceBig
  <2> QED
    BY <1>1, <2>2, <2>3, WordSpaceBig
<1>3. ASSUME a * WordSpace + b >= c * WordSpace + d PROVE a > c \/ (a = c /\ b >= d)
  <2>1. c <= a
    BY <1>3, Ordered
  <2>2. CASE a = c
    <3>1. a * WordSpace \in Nat
      BY WordSpaceBig
    <3> QED
      BY <1>1, <1>3, <2>2, <3>1
  <2> QED
    BY <2>1, <2>2
<1>4. a = c /\ b >= d => a * WordSpace + b >= c * WordSpace + d
  <2>1. a * WordSpace \in Nat
    BY WordSpaceBig
  <2> QED
    BY <1>1, <2>1
<1> QED
  BY <1>2, <1>3, <1>4

(* A carry leaves the number as it is.                                     *)
LEMMA Carried ==
  ASSUME NEW h \in Nat, NEW l \in Word, NEW i \in {0, 1}
  PROVE  (h + ((l + i) \div WordSpace)) * WordSpace + ((l + i) % WordSpace) = h * WordSpace + l + i
<1>1. h * WordSpace \in Nat /\ l \in Nat
  BY WordSpaceBig DEF Word
<1>2. CASE l + i = WordSpace
  <2>1. (l + i) \div WordSpace = 1 /\ (l + i) % WordSpace = 0
    BY <1>2, Wrap
  <2>2. (h + 1) * WordSpace = h * WordSpace + WordSpace
    BY WordSpaceBig
  <2> QED
    BY <1>1, <1>2, <2>1, <2>2
<1>3. CASE l + i # WordSpace
  <2>1. (l + i) \div WordSpace = 0 /\ (l + i) % WordSpace = l + i
    BY <1>3, Wrap
  <2> QED
    BY <1>1, <2>1
<1> QED
  BY <1>2, <1>3

(* A high word that the time has reached fits its register.                *)
LEMMA HighFits ==
  ASSUME NEW h \in Nat, NEW l \in Word, h * WordSpace + l <= MaxTime
  PROVE  h < WordSpace
<1>1. h * WordSpace + l \in 0 .. MaxTime
  BY WordSpaceBig, TimerAssumption DEF Word
<1>2. high(h * WordSpace + l) = h
  BY Words
<1> QED
  BY <1>1, <1>2, TimeFits, WordSpaceBig DEF Word

(* An access of a set function and what it leaves of the function.         *)
Programs(a) ==
  /\ Calling /\ lib.acc[1].rw /\ a.reg = lib.acc[1].reg /\ a.reg \in {counter, "mtimecmp"}
  /\ Len(lib.acc) = 3 /\ lib.made \in {0, 1, 2} /\ lib.value \in 0 .. MaxTime
  /\ a.word = IF lib.made = 1 THEN "hi" ELSE "lo"
  /\ lib.made = 0 => a.data = IF a.reg = counter THEN 0 ELSE WordSpace - 1
  /\ lib.made = 1 => a.data = high(lib.value)
  /\ lib.made = 2 => a.data = low(lib.value)
  /\ lib.made < 2 => /\ Setting' /\ lib'.acc = lib.acc /\ lib'.made = lib.made + 1
                     /\ lib'.value = lib.value /\ lib'.cycles = lib.cycles + 1
  /\ lib.made = 2 => ~Setting'

(* A cycle as the interrupt sees it.                                       *)
InCycle(a, inc) ==
  /\ Clocked(a, inc) /\ (counter = "mtime" => inc = 1)
  /\ a.rw => Programs(a)
  /\ ~a.rw => /\ Setting' <=> Setting
              /\ Setting => /\ lib'.acc = lib.acc /\ lib'.made = lib.made
                            /\ lib'.value = lib.value /\ lib'.cycles = lib.cycles + 1

(* Every cycle is one of these.                                            *)
LEMMA CycleCases ==
  ASSUME TimerInv, TimerCycle
  PROVE  \E a \in Access, inc \in {0, 1} : InCycle(a, inc)
<1>1. PICK inc \in {0, 1}, access \in BOOLEAN :
        LET a == IF access THEN lib.acc[lib.made + 1] ELSE NoAccess
        IN  /\ access => Calling
            /\ counter_core(a, inc) /\ write_access(a) /\ irq_gen
            /\ IF access THEN Continue(a)
               ELSE lib' = (IF Setting THEN [lib EXCEPT !.cycles = lib.cycles + 1] ELSE lib)
            /\ Meaning(a) /\ (counter = "mtime" => inc = 1)
  BY DEF TimerCycle
<1>2. clock < MaxTime /\ UNCHANGED <<counter, timerCalls>> /\ lib \in Lib
  BY DEF TimerCycle, TimerInv, TimerTypeOK
<1>3. CASE ~access
  <2>1. NoAccess \in Access /\ ~NoAccess.rw
    BY WordSpaceBig DEF NoAccess, read, Access, Word
  <2>2. lib' = IF Setting THEN [lib EXCEPT !.cycles = lib.cycles + 1] ELSE lib
    BY <1>1, <1>3
  <2>3. /\ lib'.acc = lib.acc /\ lib'.made = lib.made /\ lib'.value = lib.value
        /\ Setting => lib'.cycles = lib.cycles + 1
    BY <1>2, <2>2 DEF Lib
  <2>4. Setting' <=> Setting
    BY <2>3 DEF Setting, Calling
  <2> QED
    BY <1>1, <1>2, <1>3, <2>1, <2>3, <2>4 DEF InCycle, Clocked
<1>4. CASE access
  <2> DEFINE a == lib.acc[lib.made + 1]
  <2>1. Calling /\ Continue(a) /\ Clocked(a, inc) /\ (counter = "mtime" => inc = 1)
    BY <1>1, <1>2, <1>4 DEF Clocked
  <2>2. /\ a \in Access /\ Len(lib.acc) = 3 /\ lib.made \in {0, 1, 2}
        /\ Getting => ~a.rw /\ ~lib.acc[1].rw
        /\ ~Getting => /\ a.rw /\ a.reg = lib.acc[1].reg /\ lib.acc[1].rw
                       /\ a.reg \in {counter, "mtimecmp"} /\ lib.value \in 0 .. MaxTime
                       /\ a.word = IF lib.made = 1 THEN "hi" ELSE "lo"
                       /\ lib.made = 0 /\ a.reg = counter => a.data = 0
                       /\ lib.made = 0 /\ a.reg # counter => a.data = WordSpace - 1
                       /\ lib.made = 1 => a.data = high(lib.value)
                       /\ lib.made = 2 => a.data = low(lib.value)
    BY <2>1, AccessOf DEF TimerInv
  <2>3. Getting => Len(lib.seen) = lib.made
    BY <2>1 DEF TimerInv, GetInv
  <2>4. /\ lib.made < 2 =>
             /\ lib'.acc = lib.acc /\ lib'.made = lib.made + 1 /\ lib'.value = lib.value
             /\ a.rw => lib'.cycles = lib.cycles + 1
        /\ lib.made = 2 => lib' = NoCall \/ (lib'.acc = lib.acc /\ lib'.made = 0)
        /\ lib.made = 2 /\ a.rw => lib' = NoCall
    BY <2>1, <2>2, <2>3, Continues DEF TimerInv
  <2> HIDE DEF a
  <2>5. CASE Getting
    <3>1. ~Setting
      BY <2>2, <2>5 DEF Setting
    <3>2. ~Setting'
      BY <2>2, <2>4, <2>5, NoCallIdle DEF Setting, Calling
    <3> QED
      BY <2>1, <2>2, <2>5, <3>1, <3>2 DEF InCycle
  <2>6. CASE ~Getting
    <3>1. lib.made < 2 => Setting'
      BY <2>1, <2>2, <2>4, <2>6 DEF Setting, Calling
    <3>2. lib.made = 2 => ~Setting'
      BY <2>2, <2>4, <2>6, NoCallIdle DEF Setting, Calling
    <3>3. Programs(a)
      BY <2>1, <2>2, <2>4, <2>6, <3>1, <3>2 DEF Programs
    <3> QED
      BY <2>1, <2>2, <2>6, <3>3 DEF InCycle
  <2> QED
    BY <2>5, <2>6
<1> QED
  BY <1>3, <1>4

(* The comparator in a cycle.                                              *)
LEMMA ComparatorStep ==
  ASSUME TimerInv, ComparatorInv, NEW a \in Access, NEW inc \in {0, 1}, InCycle(a, inc)
  PROVE  ComparatorInv' /\ target' \in Nat
         /\ (~(a.rw /\ a.reg = "mtimecmp") =>
               mtimecmp'.lo = mtimecmp.lo /\ mtimecmp'.hi = mtimecmp.hi /\ target' = target)
<1>1. /\ counter # "mtimecmp" /\ target \in Nat /\ counter' = counter
      /\ a.rw => Programs(a) /\ lib.value \in Nat
  BY TimerAssumption DEF TimerInv, TimerTypeOK, Counters, InCycle, Clocked, Programs
<1>2. /\ mtimecmp'.lo = IF writes(a, "mtimecmp", "lo") THEN a.data ELSE mtimecmp.lo
      /\ mtimecmp'.hi = IF writes(a, "mtimecmp", "hi") THEN a.data ELSE mtimecmp.hi
      /\ target' = IF a.rw /\ lib.made = 0 /\ a.reg = "mtimecmp" THEN lib.value ELSE target
  BY DEF InCycle, Clocked, write_access, Meaning
<1>3. CASE ~(a.rw /\ a.reg = "mtimecmp")
  <2>1. mtimecmp'.lo = mtimecmp.lo /\ mtimecmp'.hi = mtimecmp.hi /\ target' = target
    BY <1>2, <1>3 DEF writes
  <2>2. SettingComparator' <=> SettingComparator
    <3>1. CASE a.rw
      BY <1>1, <1>3, <3>1 DEF SettingComparator, Setting, Programs
    <3>2. CASE ~a.rw
      BY <3>2 DEF SettingComparator, InCycle, Setting
    <3> QED
      BY <3>1, <3>2
  <2>3. SettingComparator => lib'.value = lib.value /\ lib'.made = lib.made
    <3>1. CASE a.rw
      BY <1>1, <1>3, <3>1 DEF SettingComparator, Setting, Programs
    <3>2. CASE ~a.rw
      BY <3>2 DEF SettingComparator, InCycle
    <3> QED
      BY <3>1, <3>2
  <2> QED
    BY <1>1, <2>1, <2>2, <2>3 DEF ComparatorInv, high, low
<1>4. CASE a.rw /\ a.reg = "mtimecmp"
  <2>1. /\ lib.made \in {0, 1, 2} /\ lib.acc[1].reg = "mtimecmp"
        /\ lib.made > 0 => SettingComparator
        /\ lib.made < 2 => SettingComparator'
        /\ lib.made = 2 => ~SettingComparator'
    BY <1>1, <1>4 DEF SettingComparator, Setting, Programs
  <2>2. CASE lib.made = 0
    BY <1>1, <1>2, <1>4, <2>1, <2>2 DEF ComparatorInv, writes, Programs
  <2>3. CASE lib.made = 1
    BY <1>1, <1>2, <1>4, <2>1, <2>3 DEF ComparatorInv, writes, Programs, high
  <2>4. CASE lib.made = 2
    BY <1>1, <1>2, <1>4, <2>1, <2>4 DEF ComparatorInv, writes, Programs, high, low
  <2> QED
    BY <1>4, <2>1, <2>2, <2>3, <2>4
<1> QED
  BY <1>3, <1>4

(* The settled interrupt in a cycle.                                       *)
LEMMA SettledStep ==
  ASSUME TimerInv, InterruptInv, NEW a \in Access, NEW inc \in {0, 1}, InCycle(a, inc)
  PROVE  SettledInv'
<1> SUFFICES ASSUME counter = "mtime"
             PROVE  /\ age' >= 1 => incen' = 1
                    /\ ~Setting' /\ age' >= 2 =>
                         \E p \in Word : /\ count'.hi * WordSpace + p = clock' - 1
                                         /\ cmp_lo_ge' <=> p >= mtimecmp'.lo
                    /\ ~Setting' /\ age' = 3 => (mti' <=> clock' >= target' + 2)
  BY DEF SettledInv, InCycle, Clocked, Settling
<1>1. /\ age \in 0 .. 3 /\ age' = IF a.rw THEN 0 ELSE Earlier(age + 1, 3)
      /\ clock \in Nat /\ incen' = 1 /\ count.lo \in Word /\ count.hi \in Nat
  BY TimerAssumption, WordSpaceBig
     DEF InCycle, Clocked, Meaning, counter_core, TimerInv, TimerTypeOK, Settling, Word
<1>2. SUFFICES ASSUME ~Setting', age' >= 2
               PROVE  /\ \E p \in Word : /\ count'.hi * WordSpace + p = clock' - 1
                                         /\ cmp_lo_ge' <=> p >= mtimecmp'.lo
                      /\ age' = 3 => (mti' <=> clock' >= target' + 2)
  BY <1>1
<1>3. ~a.rw /\ ~Setting /\ age >= 1 /\ incen = 1
  <2>1. ~a.rw /\ age >= 1
    BY <1>1, <1>2 DEF Earlier
  <2> QED
    BY <1>2, <2>1 DEF InCycle, InterruptInv, SettledInv
<1>4. ~SettingCounter /\ ~SettingComparator
  BY <1>3 DEF SettingCounter, SettingComparator
<1>5. clock' = clock + 1
  BY <1>1, <1>3 DEF InCycle, Clocked, Meaning
<1>6. /\ count'.hi = count.hi + carry
      /\ (count.hi + carry) * WordSpace + count.lo = clock
  BY <1>3, <1>4, <1>5, Counted DEF TimerInv, SumInv, InCycle, Clocked
<1>7. mtimecmp'.lo = mtimecmp.lo /\ target' = target
  BY <1>3, ComparatorStep DEF InterruptInv
<1>8. cmp_lo_ge' <=> count.lo >= mtimecmp.lo
  BY DEF InCycle, Clocked, irq_gen
<1>9. age' = 3 => (mti' <=> clock' >= target' + 2)
  <2> SUFFICES ASSUME age' = 3 PROVE mti' <=> clock' >= target' + 2
    OBVIOUS
  <2>1. age >= 2
    BY <1>1, <1>3 DEF Earlier
  <2>2. PICK p \in Word : /\ count.hi * WordSpace + p = clock - 1
                          /\ cmp_lo_ge <=> p >= mtimecmp.lo
    BY <1>3, <2>1 DEF InterruptInv, SettledInv
  <2>3. /\ mtimecmp.hi = high(target) /\ mtimecmp.lo = low(target) /\ target \in Nat
        /\ high(target) \in Nat /\ low(target) \in Word
        /\ target = high(target) * WordSpace + low(target)
    BY <1>4, Split, TimerAssumption DEF InterruptInv, ComparatorInv, TimerInv, TimerTypeOK
  <2>4. mti' <=> count.hi > mtimecmp.hi \/ (count.hi = mtimecmp.hi /\ cmp_lo_ge)
    BY DEF InCycle, Clocked, irq_gen
  <2>5. mti' <=> count.hi > high(target) \/ (count.hi = high(target) /\ p >= low(target))
    BY <2>2, <2>3, <2>4
  <2>6. mti' <=> clock - 1 >= target
    BY <1>1, <2>2, <2>3, <2>5, Compared
  <2> QED
    BY <1>1, <1>5, <1>7, <2>3, <2>6
<1> QED
  BY <1>1, <1>5, <1>6, <1>7, <1>8, <1>9

(* The high word alone is not more than the number.                        *)
LEMMA HighBelow ==
  ASSUME NEW v \in Nat
  PROVE  high(v) \in Nat /\ high(v) * WordSpace \in Nat /\ high(v) * WordSpace <= v
<1>1. low(v) \in Nat /\ high(v) \in Nat /\ v = high(v) * WordSpace + low(v)
  BY Split, WordSpaceBig DEF Word
<1>2. high(v) * WordSpace \in Nat
  BY <1>1, WordSpaceBig
<1> QED
  BY <1>1, <1>2

(* No register shows a time beyond the peak.                               *)
LEMMA WithinPeak ==
  ASSUME TimerInv, InterruptInv
  PROVE  /\ (count.hi + carry) * WordSpace + count.lo <= unsettled.peak
         /\ count.hi + carry < WordSpace
<1>1. /\ count.lo \in Word /\ count.hi \in Nat /\ count.hi < WordSpace /\ carry \in {0, 1}
      /\ clock \in 0 .. MaxTime /\ lib.cycles \in Nat
      /\ unsettled.peak \in Nat /\ clock <= unsettled.peak
  BY WordSpaceBig DEF TimerInv, TimerTypeOK, Word, Lib, InterruptInv, UnsettledInv
<1>2. count.hi + carry \in Nat /\ (count.hi + carry) * WordSpace \in Nat /\ clock <= MaxTime
      /\ count.lo \in Nat
  BY <1>1, WordSpaceBig, TimerAssumption DEF Word
<1>3. CASE ~SettingCounter
  BY <1>1, <1>2, <1>3 DEF TimerInv, SumInv
<1>4. CASE SettingCounter /\ lib.made = 1
  <2>1. (count.hi + carry) * WordSpace + count.lo <= clock
    BY <1>4 DEF InterruptInv, UnsettledInv
  <2>2. (count.hi + carry) * WordSpace + count.lo <= MaxTime
    BY <1>1, <1>2, <2>1, TimerAssumption
  <2> QED
    BY <1>1, <1>2, <2>1, <2>2, HighFits
<1>5. CASE SettingCounter /\ lib.made = 2
  <2>1. /\ count.hi = high(lib.value) /\ carry = 0 /\ count.lo <= lib.cycles - 1
        /\ lib.value + lib.cycles <= unsettled.peak + 1
    BY <1>5 DEF TimerInv, SetInv, InterruptInv, UnsettledInv
  <2>2. lib.value \in Nat
    BY DEF TimerInv, TimerTypeOK, Lib
  <2>3. high(lib.value) * WordSpace <= lib.value /\ high(lib.value) * WordSpace \in Nat
    BY <2>2, HighBelow
  <2> QED
    BY <1>1, <1>2, <2>1, <2>2, <2>3
<1>6. SettingCounter => lib.made \in {1, 2}
  BY DEF SettingCounter, Setting, TimerInv, LibInv
<1> QED
  BY <1>3, <1>4, <1>5, <1>6

(* The peak and the least target in a cycle.                               *)
LEMMA PeakMoves ==
  ASSUME TimerInv, InterruptInv, NEW a \in Access, NEW inc \in {0, 1}, InCycle(a, inc)
  PROVE  /\ clock \in Nat /\ clock' \in Nat /\ target' \in Nat
         /\ unsettled \in [peak : Nat, least : Nat] /\ unsettled'.peak \in Nat /\ unsettled'.least \in Nat
         /\ clock' <= unsettled'.peak /\ unsettled'.least <= target'
         /\ (Setting \/ a.rw) /\ lib.acc[1].reg = counter =>
              lib.value + lib.cycles <= unsettled'.peak
         /\ IF a.rw \/ Setting \/ age < 2
            THEN unsettled.peak <= unsettled'.peak /\ unsettled'.least <= unsettled.least
            ELSE \/ unsettled.peak <= unsettled'.peak /\ unsettled'.least <= unsettled.least
                 \/ clock' = unsettled'.peak /\ unsettled'.least = target'
<1> DEFINE first == a.rw /\ lib.made = 0
           now == IF (Setting \/ first) /\ lib.acc[1].reg = counter
                  THEN Later(clock', lib.value + lib.cycles) ELSE clock'
<1>1. /\ lib.value \in Nat /\ lib.cycles \in Nat /\ clock \in Nat /\ incen \in {0, 1}
      /\ unsettled \in [peak : Nat, least : Nat] /\ age \in 0 .. 3 /\ target' \in Nat
  BY TimerAssumption, ComparatorStep DEF TimerInv, TimerTypeOK, Lib, Settling, InterruptInv
<1>2. clock' \in Nat
  BY <1>1 DEF InCycle, Clocked, Meaning
<1>3. /\ age' = IF a.rw THEN 0 ELSE Earlier(age + 1, 3)
      /\ unsettled' = IF age' = 3 /\ ~Setting THEN [peak |-> now, least |-> target']
                      ELSE [peak |-> Later(unsettled.peak, now),
                            least |-> Earlier(unsettled.least, target')]
  BY DEF InCycle, Clocked, Meaning, Settling
<1>4. (Setting \/ a.rw) /\ lib.acc[1].reg = counter => Setting \/ first
  BY DEF InCycle, Programs, Setting
<1>5. /\ now \in Nat /\ clock' <= now
      /\ (Setting \/ a.rw) /\ lib.acc[1].reg = counter => lib.value + lib.cycles <= now
  <2>1. /\ Later(clock', lib.value + lib.cycles) \in Nat
        /\ clock' <= Later(clock', lib.value + lib.cycles)
        /\ lib.value + lib.cycles <= Later(clock', lib.value + lib.cycles)
    BY <1>1, <1>2 DEF Later
  <2> QED
    BY <1>2, <1>4, <2>1
<1>6. ~(Setting \/ a.rw) => now = clock'
  OBVIOUS
<1> HIDE DEF now, first
<1>7. CASE age' = 3 /\ ~Setting
  <2>1. ~a.rw /\ age >= 2
    BY <1>1, <1>3, <1>7 DEF Earlier
  <2>2. unsettled'.peak = now /\ unsettled'.least = target'
    BY <1>3, <1>7
  <2> QED
    BY <1>1, <1>2, <1>5, <1>6, <1>7, <2>1, <2>2
<1>8. CASE ~(age' = 3 /\ ~Setting)
  <2>1. unsettled'.peak = Later(unsettled.peak, now) /\ unsettled'.least = Earlier(unsettled.least, target')
    BY <1>3, <1>8
  <2>2. /\ Later(unsettled.peak, now) \in Nat /\ Earlier(unsettled.least, target') \in Nat
        /\ unsettled.peak <= Later(unsettled.peak, now) /\ now <= Later(unsettled.peak, now)
        /\ Earlier(unsettled.least, target') <= unsettled.least
        /\ Earlier(unsettled.least, target') <= target'
    BY <1>1, <1>5 DEF Later, Earlier
  <2> QED
    BY <1>1, <1>2, <1>5, <2>1, <2>2
<1> QED
  BY <1>7, <1>8

(* While a counter is being set, the old time goes on to be counted, and   *)
(* the registers stay behind it until the new high word is there.          *)
LEMMA SettingStep ==
  ASSUME TimerInv, InterruptInv, NEW a \in Access, NEW inc \in {0, 1}, InCycle(a, inc)
  PROVE  /\ SettingCounter' => lib'.value + lib'.cycles <= unsettled'.peak + 1
         /\ SettingCounter' /\ lib'.made = 1 => (count'.hi + carry') * WordSpace + count'.lo <= clock'
<1>1. /\ lib.value \in Nat /\ lib.cycles \in Nat /\ unsettled'.peak \in Nat
      /\ counter' = counter /\ counter \in Counters /\ counter # "mtimecmp"
  BY PeakMoves DEF TimerInv, TimerTypeOK, Lib, InCycle, Clocked, Counters
<1> SUFFICES ASSUME SettingCounter'
             PROVE  /\ lib'.value + lib'.cycles <= unsettled'.peak + 1
                    /\ lib'.made = 1 => (count'.hi + carry') * WordSpace + count'.lo <= clock'
  OBVIOUS
<1>2. CASE ~a.rw
  <2>1. SettingCounter /\ lib'.value = lib.value /\ lib'.cycles = lib.cycles + 1 /\ lib'.made = lib.made
    BY <1>1, <1>2 DEF SettingCounter, InCycle
  <2>2. lib.value + lib.cycles <= unsettled'.peak
    BY <2>1, PeakMoves DEF SettingCounter
  <2>3. ASSUME lib.made = 1
        PROVE  (count'.hi + carry') * WordSpace + count'.lo <= clock'
    <3>1. clock' = clock + incen /\ counter_core(a, inc)
      BY <1>2 DEF InCycle, Clocked, Meaning
    <3>2. /\ count.lo \in Word /\ count.hi \in Word /\ carry \in {0, 1} /\ incen \in {0, 1}
          /\ clock \in Nat
      BY TimerAssumption DEF TimerInv, TimerTypeOK
    <3>3. count.hi + carry \in Nat /\ count.hi + carry < WordSpace
      BY <3>2, WithinPeak, WordSpaceBig DEF Word
    <3>4. /\ count'.hi = count.hi + carry /\ count'.lo = (count.lo + incen) % WordSpace
          /\ carry' = (count.lo + incen) \div WordSpace
      <4>1. /\ count'.hi = (count.hi + carry) % WordSpace /\ count'.lo = (count.lo + incen) % WordSpace
            /\ carry' = (count.lo + incen) \div WordSpace
        BY <1>2, <3>1 DEF counter_core, writes
      <4>2. (count.hi + carry) % WordSpace = count.hi + carry
        BY <3>3, WordSpaceBig
      <4> QED
        BY <4>1, <4>2
    <3>5. (count'.hi + carry') * WordSpace + count'.lo = (count.hi + carry) * WordSpace + count.lo + incen
      <4> DEFINE h == count.hi + carry
      <4>1. h \in Nat
        BY <3>3
      <4> HIDE DEF h
      <4>2. (h + ((count.lo + incen) \div WordSpace)) * WordSpace + ((count.lo + incen) % WordSpace)
            = h * WordSpace + count.lo + incen
        BY <3>2, <4>1, Carried
      <4> QED
        BY <3>4, <4>2 DEF h
    <3>6. (count.hi + carry) * WordSpace + count.lo <= clock
      BY <2>1, <2>3 DEF InterruptInv, UnsettledInv
    <3>7. (count.hi + carry) * WordSpace \in Nat /\ count.lo \in Nat
      BY <3>2, <3>3, WordSpaceBig DEF Word
    <3> QED
      BY <3>1, <3>2, <3>5, <3>6, <3>7
  <2> QED
    BY <1>1, <2>1, <2>2, <2>3
<1>3. CASE a.rw
  <2>1. Programs(a) /\ lib.made \in {0, 1, 2}
    BY <1>3 DEF InCycle, Programs
  <2>2. lib.made < 2 /\ Setting' /\ lib'.acc = lib.acc /\ lib'.made = lib.made + 1
        /\ lib'.value = lib.value /\ lib'.cycles = lib.cycles + 1
    BY <2>1 DEF Programs, SettingCounter
  <2>3. lib.acc[1].reg = counter /\ a.reg = counter
    BY <1>1, <2>1, <2>2 DEF Programs, SettingCounter
  <2>4. lib.value + lib.cycles <= unsettled'.peak
    BY <1>3, <2>3, PeakMoves
  <2>5. ASSUME lib.made = 0
        PROVE  (count'.hi + carry') * WordSpace + count'.lo <= clock'
    <3>1. clock' = clock + incen /\ counter_core(a, inc) /\ a.word = "lo" /\ a.data = 0
      BY <2>1, <2>3, <2>5 DEF InCycle, Clocked, Meaning, Programs
    <3>2. /\ count.lo \in Word /\ count.hi \in Word /\ carry \in {0, 1} /\ incen \in {0, 1}
          /\ clock \in Nat
      BY TimerAssumption DEF TimerInv, TimerTypeOK
    <3>3. count.hi + carry \in Nat /\ count.hi + carry < WordSpace
      BY <3>2, WithinPeak, WordSpaceBig DEF Word
    <3>4. (count.hi + carry) * WordSpace + count.lo = clock
      BY <2>5 DEF TimerInv, SumInv, SettingCounter, Setting
    <3>5. /\ count'.hi = count.hi + carry /\ count'.lo = 0
          /\ carry' = (count.lo + incen) \div WordSpace
      <4>1. /\ count'.hi = (count.hi + carry) % WordSpace /\ count'.lo = 0
            /\ carry' = (count.lo + incen) \div WordSpace
        BY <1>3, <2>3, <3>1 DEF counter_core, writes
      <4>2. (count.hi + carry) % WordSpace = count.hi + carry
        BY <3>3, WordSpaceBig
      <4> QED
        BY <4>1, <4>2
    <3> DEFINE h == count.hi + carry
    <3>6. h \in Nat /\ h * WordSpace + count.lo = clock /\ count'.hi = h
      BY <3>3, <3>4, <3>5
    <3> HIDE DEF h
    <3>7. (h + carry') * WordSpace + ((count.lo + incen) % WordSpace) = clock'
      BY <3>1, <3>2, <3>5, <3>6, Carried
    <3>8. (count.lo + incen) % WordSpace \in Nat
      BY <3>2, Wrap, WordSpaceBig DEF Word
    <3>9. (h + carry') * WordSpace \in Nat
      <4>1. carry' \in {0, 1}
        BY <3>2, <3>5, Wrap
      <4>2. \A i \in {0, 1} : h + i \in Nat
        BY <3>6
      <4>3. h + carry' \in Nat
        BY <4>1, <4>2, Zenon
      <4>4. \A n \in Nat : n * WordSpace \in Nat
        BY WordSpaceBig
      <4> QED
        BY <4>3, <4>4
    <3> QED
      BY <3>5, <3>6, <3>7, <3>8, <3>9
  <2> QED
    BY <1>1, <2>1, <2>2, <2>4, <2>5
<1> QED
  BY <1>2, <1>3

(* An interrupt that is about to rise has been caused by a time and a      *)
(* target of the unsettled period.                                         *)
LEMMA UnsettledStep ==
  ASSUME TimerInv, InterruptInv, NEW a \in Access, NEW inc \in {0, 1}, InCycle(a, inc), TimerTypeOK'
  PROVE  UnsettledInv'
<1> DEFINE cmphi == mtimecmp.hi * WordSpace
           cmphiN == mtimecmp'.hi * WordSpace
<1>1. /\ clock \in Nat /\ clock' \in Nat /\ target \in Nat /\ target' \in Nat
      /\ unsettled.peak \in Nat /\ unsettled.least \in Nat
      /\ unsettled'.peak \in Nat /\ unsettled'.least \in Nat
      /\ clock' <= unsettled'.peak /\ unsettled'.least <= target'
      /\ clock <= unsettled.peak /\ unsettled.least <= target
      /\ lib.cycles \in Nat /\ lib.value \in Nat
  BY PeakMoves, TimerAssumption DEF TimerInv, TimerTypeOK, InterruptInv, UnsettledInv, Lib
<1>2. /\ mtimecmp.lo \in Word /\ mtimecmp.hi \in Word /\ mtimecmp'.lo \in Word /\ mtimecmp'.hi \in Word
      /\ count.lo \in Word /\ count.hi \in Word /\ carry \in {0, 1}
  BY DEF TimerInv, TimerTypeOK
<1>3. /\ cmphi \in Nat /\ cmphiN \in Nat /\ unsettled.least <= cmphi + mtimecmp.lo
      /\ mtimecmp.lo \in Nat /\ mtimecmp'.lo \in Nat /\ WordSpace - 1 \in Nat
      /\ mtimecmp.lo <= WordSpace - 1 /\ count.lo \in Nat /\ count.lo <= WordSpace - 1
  BY <1>2, WordSpaceBig DEF Word, InterruptInv, UnsettledInv
<1>4. /\ ComparatorInv' /\ ComparatorInv
      /\ ~(a.rw /\ a.reg = "mtimecmp") =>
           mtimecmp'.lo = mtimecmp.lo /\ mtimecmp'.hi = mtimecmp.hi /\ target' = target
  BY ComparatorStep DEF InterruptInv
<1>5. \A v \in Nat : /\ v = high(v) * WordSpace + low(v) /\ low(v) <= WordSpace - 1
                     /\ low(v) \in Nat /\ high(v) * WordSpace \in Nat
  <2> TAKE v \in Nat
  <2>1. low(v) \in Word /\ v = high(v) * WordSpace + low(v)
    BY Split
  <2>2. high(v) * WordSpace \in Nat
    BY HighBelow
  <2> QED
    BY <2>1, <2>2, WordSpaceBig DEF Word
<1>6. unsettled'.least <= cmphiN + mtimecmp'.lo
  <2>1. CASE ~SettingComparator'
    <3>1. mtimecmp'.hi = high(target') /\ mtimecmp'.lo = low(target')
      BY <1>4, <2>1 DEF ComparatorInv, high, low
    <3> QED
      BY <1>1, <1>5, <3>1
  <2>2. CASE SettingComparator'
    <3>1. mtimecmp'.lo = WordSpace - 1
      BY <1>4, <2>2 DEF ComparatorInv
    <3>2. CASE mtimecmp'.hi = high(target')
      <4>1. target' = cmphiN + low(target') /\ low(target') \in Nat /\ low(target') <= WordSpace - 1
        BY <1>1, <1>5, <3>2
      <4> HIDE DEF cmphiN
      <4> QED
        BY <1>1, <1>3, <3>1, <4>1
    <3>3. CASE mtimecmp'.hi # high(target')
      <4>1. lib'.made # 2
        BY <1>4, <2>2, <3>3 DEF ComparatorInv, high
      <4>2. a.rw \/ Setting
        BY <2>2 DEF SettingComparator, InCycle
      <4>3. mtimecmp'.hi = mtimecmp.hi
        <5>1. CASE a.rw /\ a.reg = "mtimecmp"
          <6>1. lib.made # 1 /\ Programs(a)
            BY <2>2, <4>1, <5>1 DEF InCycle, Programs, SettingComparator
          <6>2. lib.made \in {0, 2} /\ a.word = "lo"
            BY <6>1 DEF Programs
          <6> QED
            BY <6>2 DEF InCycle, Clocked, write_access, writes
        <5>2. CASE ~(a.rw /\ a.reg = "mtimecmp")
          BY <1>4, <5>2
        <5> QED
          BY <5>1, <5>2
      <4>4. unsettled'.least <= unsettled.least
        BY <4>2, PeakMoves
      <4> QED
        BY <1>1, <1>3, <3>1, <4>3, <4>4
    <3> QED
      BY <3>2, <3>3
  <2> QED
    BY <2>1, <2>2
<1>7. count'.hi * WordSpace + count.lo <= unsettled'.peak
  <2>1. (count.hi + carry) * WordSpace + count.lo <= unsettled.peak /\ count.hi + carry < WordSpace
    BY WithinPeak
  <2>2. count.hi + carry \in Nat /\ (count.hi + carry) % WordSpace = count.hi + carry
    BY <1>2, <2>1, WordSpaceBig DEF Word
  <2>3. (count.hi + carry) * WordSpace \in Nat
    BY <2>2, WordSpaceBig
  <2>4. CASE writes(a, counter, "hi")
    <3>1. lib.made = 1 /\ a.reg = counter /\ a.rw /\ Setting /\ lib.acc[1].reg = counter
          /\ count'.hi = high(lib.value)
      BY <2>4 DEF writes, InCycle, Programs, Setting, Clocked, counter_core
    <3>2. count.lo <= lib.cycles - 1
      BY <3>1 DEF TimerInv, SetInv, SettingCounter
    <3>3. lib.value + lib.cycles <= unsettled'.peak
      BY <3>1, PeakMoves
    <3>4. high(lib.value) * WordSpace \in Nat /\ high(lib.value) * WordSpace <= lib.value
      BY <1>1, HighBelow
    <3> QED
      BY <1>1, <1>3, <3>1, <3>2, <3>3, <3>4
  <2>5. CASE ~writes(a, counter, "hi")
    <3>1. count'.hi = count.hi + carry
      BY <2>2, <2>5 DEF InCycle, Clocked, counter_core
    <3>2. CASE unsettled.peak <= unsettled'.peak
      BY <1>1, <1>3, <2>1, <2>3, <3>1, <3>2
    <3>3. CASE ~(unsettled.peak <= unsettled'.peak)
      <4>1. ~a.rw /\ ~Setting
        BY <3>3, PeakMoves
      <4>2. clock <= clock'
        BY <1>1, <4>1 DEF InCycle, Clocked, Meaning, TimerInv, TimerTypeOK
      <4>3. (count.hi + carry) * WordSpace + count.lo = clock
        BY <4>1 DEF TimerInv, SumInv, SettingCounter
      <4> QED
        BY <1>1, <1>3, <2>3, <3>1, <4>2, <4>3
    <3> QED
      BY <3>2, <3>3
  <2> QED
    BY <2>4, <2>5
<1>8. unsettled'.least <= cmphiN + mtimecmp.lo
  <2>1. CASE writes(a, "mtimecmp", "hi")
    <3>1. lib.made = 1 /\ SettingComparator /\ a.rw /\ a.reg = "mtimecmp"
          /\ mtimecmp'.hi = high(lib.value)
      BY <2>1 DEF writes, InCycle, Programs, Setting, SettingComparator, Clocked, write_access
    <3>2. target = lib.value /\ mtimecmp.lo = WordSpace - 1 /\ target' = target
      BY <1>4, <3>1 DEF ComparatorInv, InCycle, Clocked, Meaning
    <3>3. /\ target = high(target) * WordSpace + low(target) /\ low(target) <= WordSpace - 1
          /\ low(target) \in Nat /\ high(target) * WordSpace \in Nat
      BY <1>1, <1>5
    <3> QED
      BY <1>1, <1>3, <3>1, <3>2, <3>3
  <2>2. CASE ~writes(a, "mtimecmp", "hi")
    <3>1. mtimecmp'.hi = mtimecmp.hi
      BY <2>2 DEF InCycle, Clocked, write_access
    <3>2. CASE unsettled'.least <= unsettled.least
      BY <1>1, <1>3, <3>1, <3>2
    <3>3. CASE ~(unsettled'.least <= unsettled.least)
      <4>1. ~a.rw /\ ~Setting
        BY <3>3, PeakMoves
      <4>2. mtimecmp.hi = high(target) /\ mtimecmp.lo = low(target) /\ target' = target
        BY <1>4, <4>1 DEF ComparatorInv, SettingComparator
      <4> QED
        BY <1>1, <1>5, <3>1, <4>2
    <3> QED
      BY <3>2, <3>3
  <2> QED
    BY <2>1, <2>2
<1>9. ASSUME count'.hi = mtimecmp'.hi, cmp_lo_ge'
      PROVE  unsettled'.least <= unsettled'.peak
  <2>1. count.lo >= mtimecmp.lo
    BY <1>9 DEF InCycle, Clocked, irq_gen
  <2>2. cmphiN + count.lo <= unsettled'.peak
    BY <1>7, <1>9
  <2> HIDE DEF cmphiN, cmphi
  <2> QED
    BY <1>1, <1>3, <1>8, <2>1, <2>2
<1> QED
  BY <1>1, <1>6, <1>9, SettingStep DEF UnsettledInv

(* A call touches neither counter nor comparator.                          *)
LEMMA CallsKeep ==
  ASSUME TimerInv, Get \/ Set
  PROVE  /\ UNCHANGED <<counter, count, carry, incen, mtimecmp, cmp_lo_ge, mti, clock, target,
                        unsettled, age>>
         /\ ~Setting /\ ~Setting'
<1>1. PICK fn, v : Call(fn, v)
  BY DEF Get, Set
<1>2. ~Setting
  BY <1>1 DEF Call, Setting
<1>3. lib'.made = 0
  BY <1>1 DEF Call, NoCall
<1> QED
  BY <1>1, <1>2, <1>3 DEF Call, Setting

(* The invariant of the interrupt holds throughout.                        *)
LEMMA InterruptInvariant == TimerSpec => []InterruptInv
<1>1. TimerInit => InterruptInv
  <2> SUFFICES ASSUME TimerInit PROVE InterruptInv
    OBVIOUS
  <2>1. ~Setting /\ ~SettingCounter /\ ~SettingComparator
    BY NoCallIdle DEF TimerInit, Setting, Calling, SettingCounter, SettingComparator
  <2>2. 0 \div WordSpace = 0 /\ 0 % WordSpace = 0 /\ 0 * WordSpace = 0
    BY WordSpaceBig
  <2>3. ComparatorInv
    BY <2>1, <2>2 DEF TimerInit, ComparatorInv, high, low
  <2>4. SettledInv
    BY <2>1 DEF TimerInit, SettledInv, Settling
  <2>5. UnsettledInv
    BY <2>1, <2>2 DEF TimerInit, UnsettledInv
  <2> QED
    BY <2>3, <2>4, <2>5 DEF InterruptInv
<1>2. TimerInv /\ TimerInv' /\ InterruptInv /\ [TimerNext]_timerVars => InterruptInv'
  <2> SUFFICES ASSUME TimerInv, TimerInv', InterruptInv, [TimerNext]_timerVars PROVE InterruptInv'
    OBVIOUS
  <2>1. CASE TimerCycle
    <3>1. PICK a \in Access, inc \in {0, 1} : InCycle(a, inc)
      BY <2>1, CycleCases
    <3> QED
      BY <3>1, ComparatorStep, SettledStep, UnsettledStep DEF InterruptInv, TimerInv
  <2>2. CASE Get \/ Set
    <3>1. ~SettingCounter /\ ~SettingCounter' /\ ~SettingComparator /\ ~SettingComparator'
      BY <2>2, CallsKeep DEF SettingCounter, SettingComparator
    <3> QED
      BY <2>2, <3>1, CallsKeep
         DEF InterruptInv, ComparatorInv, SettledInv, UnsettledInv, high, low, Settling
  <2>3. CASE UNCHANGED timerVars
    BY <2>3 DEF timerVars, InterruptInv, ComparatorInv, SettledInv, UnsettledInv, Setting, Calling,
                SettingCounter, SettingComparator, high, low, Settling
  <2> QED
    BY <2>1, <2>2, <2>3 DEF TimerNext
<1> QED
  BY <1>1, <1>2, TimerInvariant, PTL DEF TimerSpec

(* The machine timer interrupt (irq_gen of neorv32_clint_mtimecmp), with a *)
(* comparator split over two cycles and counter and target set word by     *)
(* word: pending exactly from two cycles after the target on once the      *)
(* registers are settled, and while they are being set                     *)
(* (neorv32_clint_time_set, neorv32_clint_mtimecmp_set) never risen by a   *)
(* mixture of old and new words.                                           *)
THEOREM TimerInterruptExact == TimerSpec => TimerExact
<1>1. ASSUME TimerInv, InterruptInv, InterruptInv', [TimerNext]_timerVars
      PROVE  [counter = "mtime" =>
                /\ age' = Settling /\ ~Setting => (mti' <=> clock' >= target' + 2)
                /\ ~mti /\ mti' => unsettled.peak >= unsettled.least]_timerVars
  <2> SUFFICES ASSUME counter = "mtime", TimerNext
               PROVE  /\ age' = Settling /\ ~Setting => (mti' <=> clock' >= target' + 2)
                      /\ ~mti /\ mti' => unsettled.peak >= unsettled.least
    BY <1>1
  <2>1. CASE Get \/ Set
    BY <1>1, <2>1, CallsKeep DEF InterruptInv, SettledInv, Settling
  <2>2. CASE TimerCycle
    <3>1. PICK a \in Access, inc \in {0, 1} : InCycle(a, inc)
      BY <1>1, <2>2, CycleCases
    <3>2. ASSUME age' = Settling, ~Setting
          PROVE  mti' <=> clock' >= target' + 2
      <4>1. ~a.rw /\ counter' = counter
        BY <3>1, <3>2 DEF InCycle, Clocked, Meaning, Settling
      <4>2. ~Setting'
        BY <3>1, <3>2, <4>1 DEF InCycle
      <4> QED
        BY <1>1, <3>2, <4>1, <4>2 DEF InterruptInv, SettledInv, Settling
    <3>3. ASSUME mti'
          PROVE  unsettled.peak >= unsettled.least
      <4>1. count.hi > mtimecmp.hi \/ (count.hi = mtimecmp.hi /\ cmp_lo_ge)
        BY <3>1, <3>3 DEF InCycle, Clocked, irq_gen
      <4>2. /\ count.hi \in Nat /\ count.lo \in Word /\ mtimecmp.hi \in Nat /\ mtimecmp.lo \in Word
            /\ carry \in {0, 1} /\ unsettled.peak \in Nat /\ unsettled.least \in Nat
        BY <1>1, WordSpaceBig DEF TimerInv, TimerTypeOK, Word
      <4>3. CASE count.hi > mtimecmp.hi
        <5> DEFINE h == count.hi + carry
        <5>1. h \in Nat /\ h > mtimecmp.hi
          BY <4>2, <4>3
        <5>2. h * WordSpace + count.lo <= unsettled.peak
          BY <1>1, WithinPeak
        <5> HIDE DEF h
        <5>3. h * WordSpace + count.lo >= mtimecmp.hi * WordSpace + mtimecmp.lo
          BY <4>2, <5>1, Compared
        <5>4. unsettled.least <= mtimecmp.hi * WordSpace + mtimecmp.lo
          BY <1>1 DEF InterruptInv, UnsettledInv
        <5>5. /\ h * WordSpace \in Nat /\ mtimecmp.hi * WordSpace \in Nat
              /\ count.lo \in Nat /\ mtimecmp.lo \in Nat
          BY <4>2, <5>1, WordSpaceBig DEF Word
        <5> QED
          BY <4>2, <5>2, <5>3, <5>4, <5>5
      <4>4. CASE count.hi = mtimecmp.hi /\ cmp_lo_ge
        BY <1>1, <4>2, <4>4 DEF InterruptInv, UnsettledInv
      <4> QED
        BY <4>1, <4>3, <4>4
    <3> QED
      BY <3>2, <3>3
  <2> QED
    BY <2>1, <2>2 DEF TimerNext
<1> QED
  BY <1>1, TimerInvariant, InterruptInvariant, PTL DEF TimerSpec, TimerExact

=============================================================================
